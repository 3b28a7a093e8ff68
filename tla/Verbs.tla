-------------------------------- MODULE Verbs --------------------------------
(***************************************************************************)
(* The imperative verbs: pvectl delete, start, stop and migrate (cmd/ and  *)
(* resource/vm/handler.go).  Each takes a list of names, looks a name up   *)
(* in the cluster's list of guests, makes one call on what it found, waits *)
(* for its task, and goes on to the next name or stops at the first error. *)
(* Of a guest only what the verbs read and change is kept.                 *)
(***************************************************************************)
EXTENDS Naturals, Sequences

CONSTANTS
    VMIDs, Nodes, Names,
    Procs,        \* pvectl processes
    Orders,       \* what they are told to do
    Strangers,    \* guests somebody else may create
    Clusters,     \* the clusters they may start from
    MaxFaults,    \* bound: runs that die or meet an API error
    MaxTimeouts,  \* bound: runs that give up on a task that goes on
    MaxMoves,     \* bound: actions of somebody else
    None          \* no guest, nothing looked up

Types == {"qemu", "lxc"}
Guest == [name : Names, node : Nodes, type : Types, power : {"running", "stopped"}]
Cluster == [VMIDs -> Guest \cup {None}]

VerbNames == {"delete", "start", "stop", "migrate"}
\* target is where migrate goes; the other verbs ignore it.
Order == [verb : VerbNames, names : Seq(Names), target : Nodes]

\* A call names the guest by node, type and vmid: /nodes/NODE/TYPE/VMID.
GuestRef == [vmid : VMIDs, node : Nodes, type : Types]
Call == [verb : VerbNames, ref : GuestRef, target : Nodes]

ASSUME OrdersAssumption == Orders \subseteq Order
ASSUME StrangersAssumption == Strangers \subseteq Guest
ASSUME ClustersAssumption == Clusters \subseteq Cluster
ASSUME NoneAssumption == None \notin Guest /\ None \notin GuestRef
ASSUME BoundsAssumption ==
    MaxFaults \in Nat /\ MaxTimeouts \in Nat /\ MaxMoves \in Nat

VARIABLES
    guests,  \* the cluster: vmid -> guest
    tasks,   \* calls whose task still runs though nobody waits for it
    pc,      \* process -> idle, looking a name up, or making the call
    order,   \* process -> what it was told
    todo,    \* process -> the names it has not dealt with
    ref,     \* process -> what it found
    result,  \* process -> how its last run ended
    faults, timeouts, moves  \* how much of each bound is used

locals == <<pc, order, todo, ref, result>>
budgets == <<faults, timeouts, moves>>
vars == <<guests, tasks, locals, budgets>>

TypeOK ==
    /\ guests \in Cluster
    /\ tasks \subseteq Call
    /\ pc \in [Procs -> {"idle", "find", "act"}]
    /\ order \in [Procs -> Orders]
    /\ todo \in [Procs -> Seq(Names)]
    /\ ref \in [Procs -> GuestRef \cup {None}]
    /\ result \in [Procs -> {"none", "ok", "failed"}]
    /\ faults \in 0..MaxFaults
    /\ timeouts \in 0..MaxTimeouts
    /\ moves \in 0..MaxMoves

Init ==
    /\ guests \in Clusters
    /\ tasks = {}
    /\ pc = [p \in Procs |-> "idle"]
    /\ order \in [Procs -> Orders]
    /\ todo = [p \in Procs |-> <<>>]
    /\ ref = [p \in Procs |-> None]
    /\ result = [p \in Procs |-> "none"]
    /\ faults = 0 /\ timeouts = 0 /\ moves = 0

-----------------------------------------------------------------------------
Reaches(r) ==
    /\ guests[r.vmid] # None
    /\ guests[r.vmid].node = r.node
    /\ guests[r.vmid].type = r.type

Accepts(c) == Reaches(c.ref) /\ (c.verb = "migrate" => c.target # c.ref.node)

Perform(c) ==
    [guests EXCEPT ![c.ref.vmid] =
        CASE c.verb = "delete" -> None
          [] c.verb = "start" -> [guests[c.ref.vmid] EXCEPT !.power = "running"]
          [] c.verb = "stop" -> [guests[c.ref.vmid] EXCEPT !.power = "stopped"]
          [] OTHER -> [guests[c.ref.vmid] EXCEPT !.node = c.target]]

Named(gs, name) == {v \in VMIDs : gs[v] # None /\ gs[v].name = name}

Matches_AnyType(o, name) == Named(guests, name)

\* migrate takes a guest of either type; the others a virtual machine, even
\* where a container has the same name.
Matches(o, name) ==
    IF o.verb = "migrate"
    THEN Named(guests, name)
    ELSE {v \in Named(guests, name) : guests[v].type = "qemu"}

-----------------------------------------------------------------------------
Finish(p, outcome) ==
    /\ pc' = [pc EXCEPT ![p] = "idle"]
    /\ todo' = [todo EXCEPT ![p] = <<>>]
    /\ ref' = [ref EXCEPT ![p] = None]
    /\ result' = [result EXCEPT ![p] = outcome]
    /\ UNCHANGED order

NextName_Stops(p) == Finish(p, "ok")

\* This name is dealt with: on to the next, or done.
NextName(p) ==
    IF Len(todo[p]) = 1
    THEN Finish(p, "ok")
    ELSE /\ pc' = [pc EXCEPT ![p] = "find"]
         /\ todo' = [todo EXCEPT ![p] = Tail(todo[p])]
         /\ ref' = [ref EXCEPT ![p] = None]
         /\ UNCHANGED <<order, result>>

Begin(p, o) ==
    /\ pc[p] = "idle"
    /\ o.names # <<>>
    /\ pc' = [pc EXCEPT ![p] = "find"]
    /\ order' = [order EXCEPT ![p] = o]
    /\ todo' = [todo EXCEPT ![p] = o.names]
    /\ result' = [result EXCEPT ![p] = "none"]
    /\ UNCHANGED <<guests, tasks, ref, budgets>>

Act_DropsType(p, v) ==
    /\ pc' = [pc EXCEPT ![p] = "act"]
    /\ ref' = [ref EXCEPT ![p] = [vmid |-> v, node |-> guests[v].node, type |-> ""]]
    /\ UNCHANGED <<order, todo, result>>

Act(p, v) ==
    /\ pc' = [pc EXCEPT ![p] = "act"]
    /\ ref' = [ref EXCEPT ![p] =
           [vmid |-> v, node |-> guests[v].node, type |-> guests[v].type]]
    /\ UNCHANGED <<order, todo, result>>

Found_Always(p, v) == Act(p, v)

\* A guest that is on the node already is not migrated again.
Found(p, v) ==
    IF order[p].verb = "migrate" /\ guests[v].node = order[p].target
    THEN NextName(p)
    ELSE Act(p, v)

\* No guest of the name, or two: an error.
Find(p) ==
    /\ pc[p] = "find"
    /\ LET found == Matches(order[p], Head(todo[p]))
       IN  IF \E v \in found : found = {v}
           THEN \E v \in found : Found(p, v)
           ELSE Finish(p, "failed")
    /\ UNCHANGED <<guests, tasks, budgets>>

Calls(p) ==
    IF pc[p] = "act"
    THEN {[verb |-> order[p].verb, ref |-> ref[p], target |-> order[p].target]}
    ELSE {}

\* The call is accepted, and its task ends well.
Done(p) ==
    /\ \E c \in Calls(p) : Accepts(c) /\ guests' = Perform(c)
    /\ NextName(p)
    /\ UNCHANGED <<tasks, budgets>>

\* The guest is gone, or moved since it was looked up.
Refused(p) ==
    /\ \E c \in Calls(p) : ~Accepts(c)
    /\ Finish(p, "failed")
    /\ UNCHANGED <<guests, tasks, budgets>>

\* The process is killed, or a call fails without an effect.
Fail(p) ==
    /\ pc[p] # "idle"
    /\ faults < MaxFaults /\ faults' = faults + 1
    /\ Finish(p, "failed")
    /\ UNCHANGED <<guests, tasks, timeouts, moves>>

\* The task outlives --timeout, or the process.
TimeOut(p) ==
    /\ timeouts < MaxTimeouts /\ timeouts' = timeouts + 1
    /\ \E c \in Calls(p) : Accepts(c) /\ tasks' = tasks \cup {c}
    /\ Finish(p, "failed")
    /\ UNCHANGED <<guests, faults, moves>>

TaskEnds(c) ==
    /\ c \in tasks
    /\ tasks' = tasks \ {c}
    /\ guests' = IF Accepts(c) THEN Perform(c) ELSE guests
    /\ UNCHANGED <<locals, budgets>>

\* Somebody else removes a guest, or a vmid comes to stand for another one,
\* whether it was free or in use.
Operator(v) ==
    /\ moves < MaxMoves /\ moves' = moves + 1
    /\ \/ guests[v] # None /\ guests' = [guests EXCEPT ![v] = None]
       \/ \E g \in Strangers : guests' = [guests EXCEPT ![v] = g]
    /\ UNCHANGED <<tasks, locals, faults, timeouts>>

Step(p) == Find(p) \/ Done(p) \/ Refused(p)

Next ==
    \/ \E p \in Procs : \/ \E o \in Orders : Begin(p, o)
                        \/ Step(p) \/ Fail(p) \/ TimeOut(p)
    \/ \E c \in tasks : TaskEnds(c)
    \/ \E v \in VMIDs : Operator(v)

Spec == Init /\ [][Next]_vars

(***************************************************************************)
(* A pvectl process that runs is scheduled and every call it makes comes   *)
(* back or times out; a task ends; every order is given again and again.   *)
(***************************************************************************)
Again(o) == \E p \in Procs : Begin(p, o)

Fairness ==
    /\ \A p \in Procs : WF_vars(Step(p))
    /\ \A o \in Orders : SF_vars(Again(o))
    /\ WF_vars(\E c \in tasks : TaskEnds(c))

FairSpec == Spec /\ Fairness

-----------------------------------------------------------------------------
(***************************************************************************)
(* delete, start and stop never change a container, although they look a   *)
(* guest up by name first and act on a vmid later, when the name may mean  *)
(* another guest and the vmid may be in use again.  (findQemu skips other  *)
(* types, and the call's path says the type.)                              *)
(***************************************************************************)
ContainersAreSafe ==
    [][moves' = moves =>
        \A v \in VMIDs :
            guests[v] # None /\ guests'[v] # guests[v] /\ guests[v].type = "lxc" =>
                /\ guests'[v] # None
                /\ \E n \in Nodes : guests'[v] = [guests[v] EXCEPT !.node = n]]_vars

(***************************************************************************)
(* A run that ends well did what it was told for every name on its list,   *)
(* and not only for the first: no such machine is left, it runs, it is     *)
(* stopped, or it is on the node.  (On a cluster nobody else works on.)    *)
(***************************************************************************)
Achieved(gs, o, name) ==
    LET vms == {v \in Named(gs, name) : gs[v].type = "qemu"}
    IN  CASE o.verb = "delete" -> vms = {}
          [] o.verb = "start" -> \E v \in vms : gs[v].power = "running"
          [] o.verb = "stop" -> \E v \in vms : gs[v].power = "stopped"
          [] OTHER -> \E v \in Named(gs, name) : gs[v].node = o.target

Alone(p) == moves = 0 /\ timeouts = 0 /\ \A q \in Procs : q = p

SuccessAchieves ==
    [][\A p \in Procs :
        Alone(p) /\ pc[p] # "idle" /\ pc'[p] = "idle" /\ result'[p] = "ok" =>
            \A i \in DOMAIN order[p].names :
                Achieved(guests', order[p], order[p].names[i])]_vars

(***************************************************************************)
(* A migration can be repeated until it succeeds, also after a time-out    *)
(* whose task went on and did the work, unless somebody else works on the  *)
(* cluster.  (migrate: a guest that is on the node is left there.)         *)
(***************************************************************************)
Obeyed(o) == \E p \in Procs : order[p] = o /\ result[p] = "ok"

EventuallyMigrated ==
    \A o \in {o \in Orders : o.verb = "migrate"} : <>(Obeyed(o) \/ moves > 0)
=============================================================================
