------------------------------ MODULE VMApply ------------------------------
(***************************************************************************)
(* pvectl apply and pvectl diff on one VirtualMachine manifest, as the     *)
(* sequence of API calls the handler makes (resource/vm/apply.go and       *)
(* handler.go).  Between two calls anything may happen to the cluster:     *)
(* another pvectl, an operator in the web UI, a task an earlier run gave   *)
(* up waiting for.  A step of this module is one call together with the    *)
(* local work up to the next one.                                          *)
(***************************************************************************)
EXTENDS VMPlan

CONSTANTS
    Procs,        \* pvectl processes
    Manifests,    \* the manifests they are given
    Modes,        \* the commands they run
    Clusters,     \* the clusters they may start from
    Strangers,    \* guests somebody else may create
    MaxFaults,    \* bound: runs that die or meet an API error
    MaxTimeouts,  \* bound: runs that give up on a task that goes on
    MaxMoves      \* bound: operator actions

ASSUME ManifestsAssumption == Manifests \subseteq Manifest
ASSUME ModesAssumption == Modes \subseteq {"apply", "client", "server", "diff"}
ASSUME ClustersAssumption == Clusters \subseteq Cluster
ASSUME StrangersAssumption == Strangers \subseteq Guest
ASSUME BoundsAssumption ==
    MaxFaults \in Nat /\ MaxTimeouts \in Nat /\ MaxMoves \in Nat

VARIABLES
    guests,    \* the cluster: vmid -> guest
    tasks,     \* calls whose task still runs though nobody waits for it
    pc,        \* process -> the call it makes next, or "idle"
    manifest,  \* process -> its manifest
    mode,      \* process -> apply, a dry run, or diff
    ref,       \* process -> the guest it resolved or is creating
    source,    \* process -> the clone source it found
    plan,      \* process -> the calls it still has to make
    result,    \* process -> what its last run reported
    faults, timeouts, moves    \* how much of each bound is used

locals == <<pc, manifest, mode, ref, source, plan, result>>
budgets == <<faults, timeouts, moves>>
vars == <<guests, tasks, locals, budgets>>

Writing == {"create", "clone", "postclone", "update", "resize", "power"}
Reading == {"resolve", "checkname", "nextid", "findsource",
            "readpower", "summary", "config"}
Results == {"none", "validated", "created", "configured", "unchanged",
            "same", "differs", "failed"}

\* What is left to do, and what to report when it is done.
Plan == [config : Params, disks : DiskWrites, sizes : [Slots -> Sizes \cup {None}],
         power : {"none", "start", "stop"}, report : {"created", "configured"}]

NoPlan == [config |-> NoParams, disks |-> NoWrites, sizes |-> NoWrites,
           power |-> "none", report |-> "created"]

TypeOK ==
    /\ guests \in Cluster
    /\ tasks \subseteq Call
    /\ pc \in [Procs -> Writing \cup Reading \cup {"idle"}]
    /\ manifest \in [Procs -> Manifests]
    /\ mode \in [Procs -> Modes]
    /\ ref \in [Procs -> GuestRef \cup {None}]
    /\ source \in [Procs -> GuestRef \cup {None}]
    /\ plan \in [Procs -> Plan]
    /\ result \in [Procs -> Results]
    /\ faults \in 0..MaxFaults
    /\ timeouts \in 0..MaxTimeouts
    /\ moves \in 0..MaxMoves

Init ==
    /\ guests \in Clusters
    /\ tasks = {}
    /\ pc = [p \in Procs |-> "idle"]
    /\ manifest \in [Procs -> Manifests]
    /\ mode \in [Procs -> Modes]
    /\ ref = [p \in Procs |-> None]
    /\ source = [p \in Procs |-> None]
    /\ plan = [p \in Procs |-> NoPlan]
    /\ result = [p \in Procs |-> "none"]
    /\ faults = 0 /\ timeouts = 0 /\ moves = 0

-----------------------------------------------------------------------------
(***************************************************************************)
(* Control.                                                                *)
(***************************************************************************)
Goto(p, label) == pc' = [pc EXCEPT ![p] = label]

\* The run is over: the handler returned and the process forgets its state.
Finish(p, outcome) ==
    /\ Goto(p, "idle")
    /\ result' = [result EXCEPT ![p] = outcome]
    /\ ref' = [ref EXCEPT ![p] = None]
    /\ source' = [source EXCEPT ![p] = None]
    /\ plan' = [plan EXCEPT ![p] = NoPlan]
    /\ UNCHANGED <<manifest, mode>>

\* The run goes on with a call, a target and a plan.
Continue(p, label, target, todo) ==
    /\ Goto(p, label)
    /\ ref' = [ref EXCEPT ![p] = target]
    /\ plan' = [plan EXCEPT ![p] = todo]
    /\ UNCHANGED <<manifest, mode, source, result>>

HasWrites(todo) == todo.config # NoParams \/ todo.disks # NoWrites

\* Config first, then the disks in key order, then the power state.
NextCall(todo) ==
    CASE HasWrites(todo) -> "update"
      [] ~HasWrites(todo) /\ todo.sizes # NoWrites -> "resize"
      [] ~HasWrites(todo) /\ todo.sizes = NoWrites /\ todo.power # "none" -> "power"
      [] OTHER -> "idle"

Proceed(p, target, todo) ==
    IF NextCall(todo) = "idle"
    THEN Finish(p, todo.report)
    ELSE Continue(p, NextCall(todo), target, todo)

NextSlot(todo) ==
    {s \in Slots : /\ todo.sizes[s] # None
                   /\ \A t \in Slots : todo.sizes[t] # None => s <= t}

\* The call a process makes in its current step: at most one.
Calls(p) ==
    CASE pc[p] = "create" -> {Creation(manifest[p], ref[p].vmid)}
      [] pc[p] = "clone" -> {Cloning(manifest[p], ref[p].vmid, source[p])}
      [] pc[p] = "postclone" -> {Update(ref[p], Config(manifest[p]), NoWrites)}
      [] pc[p] = "update" -> {Update(ref[p], plan[p].config, plan[p].disks)}
      [] pc[p] = "resize" -> {Resize(ref[p], s, plan[p].sizes[s]) :
                                s \in NextSlot(plan[p])}
      [] pc[p] = "power" -> {Switch(ref[p], plan[p].power)}
      [] OTHER -> {}

\* A task that creates a guest holds its vmid from the moment it starts.
Reserved == {c.vmid : c \in {t \in tasks : t.op \in {"create", "clone"}}}

Admits(c) ==
    /\ Accepts(guests, c)
    /\ c.op \in {"create", "clone"} => c.vmid \notin Reserved

\* The call is admitted, its task runs, and the process sees it end well.
Done(p) ==
    /\ \E c \in Calls(p) : Admits(c) /\ guests' = Perform(guests, c)
    /\ UNCHANGED <<tasks, budgets>>

Reads(p, label) ==
    /\ pc[p] = label
    /\ UNCHANGED <<guests, tasks, budgets>>

-----------------------------------------------------------------------------
(***************************************************************************)
(* Apply and Diff up to the first call: decode, validate, resolve secrets. *)
(***************************************************************************)
Begin(p, m, md) ==
    /\ pc[p] = "idle"
    /\ Valid(m)
    /\ manifest' = [manifest EXCEPT ![p] = m]
    /\ mode' = [mode EXCEPT ![p] = md]
    /\ IF md = "client"
       THEN /\ result' = [result EXCEPT ![p] = "validated"]
            /\ UNCHANGED pc
       ELSE /\ Goto(p, "resolve")
            /\ result' = [result EXCEPT ![p] = "none"]
    /\ UNCHANGED <<guests, tasks, ref, source, plan, budgets>>

\* An invalid manifest, or a secret that is not there when it is needed.
Reject(p, m, md) ==
    /\ pc[p] = "idle"
    /\ \/ ~Valid(m) /\ UNCHANGED faults
       \/ /\ Valid(m) /\ m.password /\ md \in {"apply", "server"}
          /\ faults < MaxFaults /\ faults' = faults + 1
    /\ manifest' = [manifest EXCEPT ![p] = m]
    /\ mode' = [mode EXCEPT ![p] = md]
    /\ result' = [result EXCEPT ![p] = "failed"]
    /\ UNCHANGED <<guests, tasks, pc, ref, source, plan, timeouts, moves>>

-----------------------------------------------------------------------------
(***************************************************************************)
(* Resolving the manifest to a guest.                                      *)
(***************************************************************************)
NotFound_AsksNoID(p) ==
    LET m == manifest[p] IN
    CASE mode[p] = "diff" -> Finish(p, "differs")
      [] mode[p] = "server" -> Finish(p, "created")
      [] OTHER -> Continue(p, IF m.clone = None THEN "create" ELSE "findsource",
                           [vmid |-> m.vmid, node |-> m.node], NoPlan)

NotFound_DryRunCreates(p) ==
    LET m == manifest[p] IN
    CASE mode[p] = "diff" -> Finish(p, "differs")
      [] OTHER ->
            IF m.vmid = None
            THEN Continue(p, "nextid", None, NoPlan)
            ELSE Continue(p, IF m.clone = None THEN "create" ELSE "findsource",
                          [vmid |-> m.vmid, node |-> m.node], NoPlan)

\* Nothing there yet: create it, unless nothing may be written.
NotFound(p) ==
    LET m == manifest[p] IN
    CASE mode[p] = "diff" -> Finish(p, "differs")
      [] mode[p] = "server" -> Finish(p, "created")
      [] OTHER ->
            IF m.vmid = None
            THEN Continue(p, "nextid", None, NoPlan)
            ELSE Continue(p, IF m.clone = None THEN "create" ELSE "findsource",
                          [vmid |-> m.vmid, node |-> m.node], NoPlan)

\* There it is: a virtual machine on the node the manifest says, or an error.
\* Diff looks wherever the guest is and asks for nothing else.
Found(p, v) ==
    LET m == manifest[p]
        target == [vmid |-> v, node |-> guests[v].node]
    IN  CASE guests[v].type # "qemu" -> Finish(p, "failed")
          [] guests[v].type = "qemu" /\ mode[p] = "diff" ->
                Continue(p, "config", target, NoPlan)
          [] OTHER ->
                IF m.node # guests[v].node
                THEN Finish(p, "failed")
                ELSE Continue(p, IF m.pool # None \/ WantsPower(m)
                                 THEN "summary" ELSE "config",
                              target, NoPlan)

\* Two guests of the name: the code refuses to pick one.
Resolve(p) ==
    /\ Reads(p, "resolve")
    /\ LET m == manifest[p]
           found == Named(guests, m.name)
       IN  IF m.vmid # None
           THEN IF guests[m.vmid] # None
                THEN Found(p, m.vmid)
                ELSE Continue(p, "checkname", None, NoPlan)
           ELSE CASE found = {} -> NotFound(p)
                  [] \E v \in found : found = {v} -> \E v \in found : Found(p, v)
                  [] OTHER -> Finish(p, "failed")

CheckName_Skipped(p) == Reads(p, "checkname") /\ NotFound(p)

\* A free pinned vmid: the name must not belong to another guest already.
CheckName(p) ==
    /\ Reads(p, "checkname")
    /\ IF Named(guests, manifest[p].name) = {}
       THEN NotFound(p)
       ELSE Finish(p, "failed")

-----------------------------------------------------------------------------
(***************************************************************************)
(* Creating.                                                               *)
(***************************************************************************)
NextID(p) ==
    /\ Reads(p, "nextid")
    /\ \E v \in VMIDs \ Reserved :
        /\ guests[v] = None
        /\ Continue(p, IF manifest[p].clone = None THEN "create" ELSE "findsource",
                    [vmid |-> v, node |-> manifest[p].node], NoPlan)

\* No vmid is left: the cluster answers with an error.
NoNextID(p) ==
    /\ Reads(p, "nextid")
    /\ \A v \in VMIDs \ Reserved : guests[v] # None
    /\ Finish(p, "failed")

FindSource(p) ==
    /\ Reads(p, "findsource")
    /\ LET found == Named(guests, manifest[p].clone)
       IN  IF \E v \in found : found = {v} /\ guests[v].type = "qemu"
           THEN /\ \E v \in found :
                     source' = [source EXCEPT ![p] =
                         [vmid |-> v, node |-> guests[v].node]]
                /\ Goto(p, "clone")
                /\ UNCHANGED <<manifest, mode, ref, plan, result>>
           ELSE Finish(p, "failed")

\* A new guest's power state is looked up only when the manifest has a say.
Settle(p) ==
    IF WantsPower(manifest[p])
    THEN Continue(p, "readpower", ref[p], NoPlan)
    ELSE Finish(p, "created")

Create(p) == pc[p] = "create" /\ Done(p) /\ Settle(p)

Clone_WithoutConfig(p) == pc[p] = "clone" /\ Done(p) /\ Settle(p)

Clone(p) ==
    /\ pc[p] = "clone"
    /\ Done(p)
    /\ Continue(p, "postclone", ref[p], NoPlan)

PostClone(p) == pc[p] = "postclone" /\ Done(p) /\ Settle(p)

\* A list of the cluster; the new guest missing from it is an error.
ReadPower(p) ==
    /\ Reads(p, "readpower")
    /\ IF guests[ref[p].vmid] = None
       THEN Finish(p, "failed")
       ELSE Proceed(p, ref[p],
                [NoPlan EXCEPT !.power =
                    PlannedPower(manifest[p], guests[ref[p].vmid].power)])

-----------------------------------------------------------------------------
(***************************************************************************)
(* Updating.                                                               *)
(***************************************************************************)
\* The cluster row: the create-only pool must match, and the power state is
\* read here, before the config.
ReadSummary(p) ==
    /\ Reads(p, "summary")
    /\ LET m == manifest[p]
           g == guests[ref[p].vmid]
       IN  IF g = None \/ (g # None /\ PoolMoved(m, g))
           THEN Finish(p, "failed")
           ELSE Continue(p, "config", ref[p],
                    [NoPlan EXCEPT !.power = PlannedPower(m, g.power)])

Todo(p, g, m) ==
    [config |-> PlannedConfig(g, m), disks |-> PlannedDisks(g, m),
     sizes |-> PlannedSizes(g, m), power |-> plan[p].power,
     report |-> "configured"]

Decide_IgnoresPower(p, g, m) ==
    CASE InSync(g, m) ->
            Finish(p, IF mode[p] = "diff" THEN "same" ELSE "unchanged")
      [] ~InSync(g, m) /\ mode[p] = "diff" -> Finish(p, "differs")
      [] ~InSync(g, m) /\ mode[p] # "diff" /\ Unplannable(g, m) -> Finish(p, "failed")
      [] OTHER -> IF mode[p] = "server" THEN Finish(p, "configured")
                  ELSE Proceed(p, ref[p], Todo(p, g, m))

Decide_ForecastsFirst(p, g, m) ==
    IF mode[p] = "diff"
    THEN Finish(p, IF InSync(g, m) THEN "same" ELSE "differs")
    ELSE CASE InSync(g, m) /\ plan[p].power = "none" -> Finish(p, "unchanged")
           [] ~(InSync(g, m) /\ plan[p].power = "none") /\ mode[p] = "server" ->
                Finish(p, "configured")
           [] OTHER -> IF Unplannable(g, m) THEN Finish(p, "failed")
                       ELSE Proceed(p, ref[p], Todo(p, g, m))

Decide_DiffsKeysOnly(p, g, m) ==
    IF mode[p] = "diff"
    THEN Finish(p, IF ChangedKeys(g, m) = {} THEN "same" ELSE "differs")
    ELSE CASE InSync(g, m) /\ plan[p].power = "none" -> Finish(p, "unchanged")
           [] ~(InSync(g, m) /\ plan[p].power = "none") /\ Unplannable(g, m) ->
                Finish(p, "failed")
           [] OTHER -> IF mode[p] = "server" THEN Finish(p, "configured")
                       ELSE Proceed(p, ref[p], Todo(p, g, m))

Decide_ForgetsGrowth(p, g, m) ==
    LET todo == Todo(p, g, m) IN
    IF mode[p] = "diff"
    THEN Finish(p, IF InSync(g, m) THEN "same" ELSE "differs")
    ELSE CASE Unplannable(g, m) -> Finish(p, "failed")
           [] ~Unplannable(g, m) /\ ~HasWrites(todo) /\ todo.power = "none" ->
                Finish(p, "unchanged")
           [] OTHER -> IF mode[p] = "server" THEN Finish(p, "configured")
                       ELSE Proceed(p, ref[p], todo)

\* The config: diff it with the manifest and decide.
Decide(p, g, m) ==
    IF mode[p] = "diff"
    THEN Finish(p, IF InSync(g, m) THEN "same" ELSE "differs")
    ELSE CASE InSync(g, m) /\ plan[p].power = "none" -> Finish(p, "unchanged")
           [] ~(InSync(g, m) /\ plan[p].power = "none") /\ Unplannable(g, m) ->
                Finish(p, "failed")
           [] OTHER -> IF mode[p] = "server" THEN Finish(p, "configured")
                       ELSE Proceed(p, ref[p], Todo(p, g, m))

ReadConfig(p) ==
    /\ Reads(p, "config")
    /\ IF Reaches(guests, ref[p].vmid, ref[p].node)
       THEN Decide(p, guests[ref[p].vmid], manifest[p])
       ELSE Finish(p, "failed")

UpdateConfig(p) ==
    /\ pc[p] = "update"
    /\ Done(p)
    /\ Proceed(p, ref[p], [plan[p] EXCEPT !.config = NoParams, !.disks = NoWrites])

ResizeDisk(p) ==
    /\ pc[p] = "resize"
    /\ Done(p)
    /\ \E s \in NextSlot(plan[p]) :
        Proceed(p, ref[p], [plan[p] EXCEPT !.sizes[s] = None])

SwitchPower(p) ==
    /\ pc[p] = "power"
    /\ Done(p)
    /\ Finish(p, plan[p].report)

-----------------------------------------------------------------------------
(***************************************************************************)
(* What goes wrong.  Every error ends the run: nothing is retried and      *)
(* nothing that was done is undone.                                        *)
(***************************************************************************)
\* The server refuses the call.
Refused(p) ==
    /\ \E c \in Calls(p) : ~Admits(c)
    /\ Finish(p, "failed")
    /\ UNCHANGED <<guests, tasks, budgets>>

\* The process is killed, or a call fails without an effect.
Fail(p) ==
    /\ pc[p] # "idle"
    /\ faults < MaxFaults /\ faults' = faults + 1
    /\ Finish(p, "failed")
    /\ UNCHANGED <<guests, tasks, timeouts, moves>>

\* The task outlives --timeout, or the process: it ends unobserved.
TimeOut(p) ==
    /\ timeouts < MaxTimeouts /\ timeouts' = timeouts + 1
    /\ \E c \in Calls(p) : Admits(c) /\ tasks' = tasks \cup {c}
    /\ Finish(p, "failed")
    /\ UNCHANGED <<guests, faults, moves>>

\* Such a task ends at last, in success or, no longer possible, in error.
TaskEnds(c) ==
    /\ c \in tasks
    /\ tasks' = tasks \ {c}
    /\ guests' = IF Accepts(guests, c) THEN Perform(guests, c) ELSE guests
    /\ UNCHANGED <<locals, budgets>>

-----------------------------------------------------------------------------
(***************************************************************************)
(* Everybody else: the web UI, qm, another tool.  A vmid may come to stand *)
(* for another guest, whether it was free or in use.                       *)
(***************************************************************************)
Operator(v) ==
    /\ moves < MaxMoves /\ moves' = moves + 1
    /\ \/ /\ guests[v] # None
          /\ \/ \E s \in {"running", "stopped"} \ {guests[v].power} :
                   guests' = [guests EXCEPT ![v].power = s]
             \/ \E n \in Nodes \ {guests[v].node} :
                   guests' = [guests EXCEPT ![v].node = n]
             \/ guests' = [guests EXCEPT ![v] = None]
       \/ /\ v \notin Reserved
          /\ \E g \in Strangers : guests' = [guests EXCEPT ![v] = g]
    /\ UNCHANGED <<tasks, locals, faults, timeouts>>

Step(p) ==
    \/ Resolve(p) \/ CheckName(p)
    \/ NextID(p) \/ NoNextID(p) \/ Create(p)
    \/ FindSource(p) \/ Clone(p) \/ PostClone(p) \/ ReadPower(p)
    \/ ReadSummary(p) \/ ReadConfig(p)
    \/ UpdateConfig(p) \/ ResizeDisk(p) \/ SwitchPower(p)
    \/ Refused(p)

Start(p) == \E m \in Manifests, md \in Modes : Begin(p, m, md) \/ Reject(p, m, md)

Next ==
    \/ \E p \in Procs : Start(p) \/ Step(p) \/ Fail(p) \/ TimeOut(p)
    \/ \E c \in tasks : TaskEnds(c)
    \/ \E v \in VMIDs : Operator(v)

Spec == Init /\ [][Next]_vars

=============================================================================
