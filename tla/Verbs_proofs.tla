---------------------------- MODULE Verbs_proofs ----------------------------
(***************************************************************************)
(* Verbs, for every cluster, every set of orders and any number of         *)
(* processes: it is well typed, no container is deleted, started or        *)
(* stopped, and a run that ends well dealt with every name on its list.    *)
(***************************************************************************)
EXTENDS Verbs, TLAPS, SequenceTheorems

(***************************************************************************)
(* A run is on a name of its list, and has found a guest when it acts.     *)
(***************************************************************************)
Busy ==
    \A p \in Procs :
        /\ pc[p] # "idle" => todo[p] # <<>>
        /\ pc[p] = "act" => ref[p] # None

(***************************************************************************)
(* Nothing but a migration is under way to a container.                    *)
(***************************************************************************)
Harmless(verb, r) == verb # "migrate" => r.type = "qemu"

Typed ==
    /\ \A p \in Procs : pc[p] = "act" => Harmless(order[p].verb, ref[p])
    /\ \A c \in tasks : Harmless(c.verb, c.ref)

IInv == TypeOK /\ Busy /\ Typed

LEMMA Initially == Init => IInv
  BY BoundsAssumption, ClustersAssumption, OrdersAssumption
     DEF Init, IInv, TypeOK, Busy, Typed

(***************************************************************************)
(* The cluster stays a cluster.                                            *)
(***************************************************************************)
LEMMA FoundRef ==
  ASSUME TypeOK, NEW v \in VMIDs, guests[v] # None
  PROVE  /\ guests[v] \in Guest
         /\ [vmid |-> v, node |-> guests[v].node, type |-> guests[v].type] \in GuestRef
  BY DEF TypeOK, Cluster, Guest, GuestRef

LEMMA PerformType ==
  ASSUME TypeOK, NEW c \in Call, Accepts(c)
  PROVE  /\ Perform(c) \in Cluster
         /\ guests[c.ref.vmid] \in Guest
         /\ guests[c.ref.vmid].type = c.ref.type
<1>1. c.ref \in GuestRef /\ c.ref.vmid \in VMIDs /\ c.target \in Nodes
  BY DEF Call, GuestRef
<1>2. /\ guests[c.ref.vmid] \in Guest
      /\ guests[c.ref.vmid].type = c.ref.type
  BY <1>1 DEF TypeOK, Cluster, Accepts, Reaches
<1>3. /\ [guests[c.ref.vmid] EXCEPT !.power = "running"] \in Guest
      /\ [guests[c.ref.vmid] EXCEPT !.power = "stopped"] \in Guest
      /\ [guests[c.ref.vmid] EXCEPT !.node = c.target] \in Guest
  BY <1>1, <1>2 DEF Guest
<1>4. Perform(c) \in Cluster
  BY <1>1, <1>3 DEF Perform, TypeOK, Cluster
<1> QED
  BY <1>2, <1>4

LEMMA CallType ==
  ASSUME TypeOK, Busy, Typed, NEW p \in Procs, NEW c \in Calls(p)
  PROVE  pc[p] = "act" /\ c \in Call /\ Harmless(c.verb, c.ref)
<1>1. /\ pc[p] = "act"
      /\ c = [verb |-> order[p].verb, ref |-> ref[p], target |-> order[p].target]
  BY DEF Calls
<1>2. ref[p] \in GuestRef
  BY <1>1 DEF TypeOK, Busy
<1>3. order[p].verb \in VerbNames /\ order[p].target \in Nodes
  BY OrdersAssumption DEF TypeOK, Order
<1>4. Harmless(order[p].verb, ref[p])
  BY <1>1 DEF Typed
<1> QED
  BY <1>1, <1>2, <1>3, <1>4 DEF Call

-----------------------------------------------------------------------------
(***************************************************************************)
(* A run that ends or goes on to its next name keeps what concerns the     *)
(* processes.                                                              *)
(***************************************************************************)
Processes ==
    /\ pc \in [Procs -> {"idle", "find", "act"}]
    /\ order \in [Procs -> Orders]
    /\ todo \in [Procs -> Seq(Names)]
    /\ ref \in [Procs -> GuestRef \cup {None}]
    /\ result \in [Procs -> {"none", "ok", "failed"}]
    /\ Busy
    /\ \A p \in Procs : pc[p] = "act" => Harmless(order[p].verb, ref[p])

LEMMA FinishKeeps ==
  ASSUME Processes, NEW p \in Procs, NEW o \in {"ok", "failed"}, Finish(p, o)
  PROVE  Processes'
  BY DEF Processes, Finish, Busy

LEMMA NextNameKeeps ==
  ASSUME Processes, NEW p \in Procs, pc[p] # "idle", NextName(p)
  PROVE  Processes'
<1>1. CASE Len(todo[p]) = 1
  BY <1>1, FinishKeeps DEF NextName
<1>2. CASE Len(todo[p]) # 1
  <2>1. todo[p] \in Seq(Names) /\ todo[p] # <<>>
    BY DEF Processes, Busy
  <2>2. /\ Tail(todo[p]) \in Seq(Names)
        /\ Len(Tail(todo[p])) = Len(todo[p]) - 1
    BY <2>1, HeadTailProperties
  <2>3. Len(todo[p]) \in Nat /\ Len(Tail(todo[p])) \in Nat
    BY <2>1, <2>2, LenProperties
  <2>4. Tail(todo[p]) # <<>>
    <3>1. Len(todo[p]) # 0
      BY <2>1, EmptySeq
    <3>2. Len(Tail(todo[p])) # 0
      BY <1>2, <2>2, <2>3, <3>1
    <3> QED
      BY <2>2, <3>2, EmptySeq
  <2>5. /\ pc' = [pc EXCEPT ![p] = "find"]
        /\ todo' = [todo EXCEPT ![p] = Tail(todo[p])]
        /\ ref' = [ref EXCEPT ![p] = None]
        /\ UNCHANGED <<order, result>>
    BY <1>2 DEF NextName
  <2>6. todo' \in [Procs -> Seq(Names)]
    BY <2>2, <2>5 DEF Processes
  <2>7. Busy'
    BY <2>4, <2>5 DEF Processes, Busy
  <2> QED
    BY <2>5, <2>6, <2>7 DEF Processes
<1> QED
  BY <1>1, <1>2

LEMMA ActKeeps ==
  ASSUME Processes, TypeOK, NEW p \in Procs, pc[p] # "idle",
         NEW v \in Matches(order[p], Head(todo[p])), Act(p, v)
  PROVE  Processes'
<1>1. v \in VMIDs /\ guests[v] # None
      /\ (order[p].verb # "migrate" => guests[v].type = "qemu")
  BY DEF Matches, Named
<1>2. [vmid |-> v, node |-> guests[v].node, type |-> guests[v].type] \in GuestRef
  BY <1>1, FoundRef
<1>3. ref'[p] # None /\ Harmless(order[p].verb, ref'[p])
  BY <1>1, <1>2, NoneAssumption DEF Act, Harmless, Processes
<1> QED
  BY <1>2, <1>3 DEF Act, Processes, Busy

World ==
    /\ guests \in Cluster
    /\ tasks \subseteq Call
    /\ \A c \in tasks : Harmless(c.verb, c.ref)
    /\ faults \in 0..MaxFaults
    /\ timeouts \in 0..MaxTimeouts
    /\ moves \in 0..MaxMoves

LEMMA Parts == IInv <=> Processes /\ World
  BY DEF IInv, TypeOK, Busy, Typed, Processes, World

LEMMA PartsNext == Processes' /\ World' => IInv'
  BY DEF IInv, TypeOK, Busy, Typed, Processes, World

LEMMA StepKeeps ==
  ASSUME IInv, NEW p \in Procs, Step(p)
  PROVE  IInv'
<1>1. Processes /\ World
  BY Parts
<1>2. CASE Find(p)
  <2>1. World'
    BY <1>1, <1>2 DEF Find, World, budgets
  <2>2. pc[p] # "idle"
    BY <1>2 DEF Find
  <2>3. CASE Finish(p, "failed")
    BY <1>1, <2>1, <2>3, FinishKeeps, PartsNext
  <2>4. CASE \E v \in Matches(order[p], Head(todo[p])) : Found(p, v)
    <3>1. PICK v \in Matches(order[p], Head(todo[p])) : Found(p, v)
      BY <2>4
    <3>2. CASE NextName(p)
      BY <1>1, <2>1, <2>2, <3>2, NextNameKeeps, PartsNext
    <3>3. CASE Act(p, v)
      BY <1>1, <2>1, <2>2, <3>3, ActKeeps, PartsNext DEF IInv
    <3> QED
      BY <3>1, <3>2, <3>3 DEF Found
  <2> QED
    BY <1>2, <2>3, <2>4 DEF Find
<1>3. CASE Done(p)
  <2>1. PICK c \in Calls(p) : Accepts(c) /\ guests' = Perform(c)
    BY <1>3 DEF Done
  <2>2. pc[p] # "idle" /\ c \in Call
    BY <2>1, CallType DEF IInv
  <2>3. World'
    BY <1>1, <1>3, <2>1, <2>2, PerformType DEF Done, World, budgets, IInv
  <2>4. Processes'
    BY <1>1, <1>3, <2>2, NextNameKeeps DEF Done
  <2> QED
    BY <2>3, <2>4, PartsNext
<1>4. CASE Refused(p)
  <2>1. World'
    BY <1>1, <1>4 DEF Refused, World, budgets
  <2>2. Processes'
    BY <1>1, <1>4, FinishKeeps DEF Refused
  <2> QED
    BY <2>1, <2>2, PartsNext
<1> QED
  BY <1>2, <1>3, <1>4 DEF Step

LEMMA BeginKeeps ==
  ASSUME IInv, NEW p \in Procs, NEW o \in Orders, Begin(p, o)
  PROVE  IInv'
<1>1. Processes /\ World
  BY Parts
<1>2. World'
  BY <1>1 DEF Begin, World, budgets
<1>3. o.names \in Seq(Names) /\ o.names # <<>>
  BY OrdersAssumption DEF Order, Begin
<1>4. Processes'
  BY <1>1, <1>3 DEF Begin, Processes, Busy
<1> QED
  BY <1>2, <1>4, PartsNext

LEMMA TroubleKeeps ==
  ASSUME IInv, NEW p \in Procs, Fail(p) \/ TimeOut(p)
  PROVE  IInv'
<1>1. Processes /\ World
  BY Parts
<1>2. Processes'
  BY <1>1, FinishKeeps DEF Fail, TimeOut
<1>3. CASE Fail(p)
  <2>1. World'
    BY <1>1, <1>3, BoundsAssumption DEF Fail, World
  <2> QED
    BY <1>2, <2>1, PartsNext
<1>4. CASE TimeOut(p)
  <2>1. PICK c \in Calls(p) : tasks' = tasks \cup {c}
    BY <1>4 DEF TimeOut
  <2>2. c \in Call /\ Harmless(c.verb, c.ref)
    BY <2>1, CallType DEF IInv
  <2>3. World'
    BY <1>1, <1>4, <2>1, <2>2, BoundsAssumption DEF TimeOut, World
  <2> QED
    BY <1>2, <2>3, PartsNext
<1> QED
  BY <1>3, <1>4

LEMMA OthersKeep ==
  ASSUME IInv, (\E c \in tasks : TaskEnds(c)) \/ (\E v \in VMIDs : Operator(v))
  PROVE  IInv'
<1>1. Processes /\ World
  BY Parts
<1>2. Processes'
  BY <1>1 DEF TaskEnds, Operator, locals, Processes, Busy
<1>3. ASSUME NEW c \in tasks, TaskEnds(c) PROVE World'
  <2>1. c \in Call
    BY <1>1 DEF World
  <2>2. guests' \in Cluster
    BY <1>1, <1>3, <2>1, PerformType DEF TaskEnds, World, IInv
  <2> QED
    BY <1>1, <1>3, <2>2 DEF TaskEnds, World, budgets
<1>4. ASSUME NEW v \in VMIDs, Operator(v) PROVE World'
  <2>1. guests' \in Cluster
    BY <1>1, <1>4, StrangersAssumption DEF Operator, World, Cluster
  <2> QED
    BY <1>1, <1>4, <2>1, BoundsAssumption DEF Operator, World
<1> QED
  BY <1>2, <1>3, <1>4, PartsNext

LEMMA Inductive == IInv /\ [Next]_vars => IInv'
<1> SUFFICES ASSUME IInv, [Next]_vars PROVE IInv'
  OBVIOUS
<1>1. CASE UNCHANGED vars
  BY <1>1 DEF vars, locals, budgets, IInv, TypeOK, Busy, Typed
<1>2. CASE Next
  BY <1>2, StepKeeps, BeginKeeps, TroubleKeeps, OthersKeep DEF Next
<1> QED
  BY <1>1, <1>2

THEOREM VerbsInvariance == Spec => []IInv
<1>1. Init => IInv
  BY Initially
<1>2. IInv /\ [Next]_vars => IInv'
  BY Inductive
<1> QED
  BY <1>1, <1>2, PTL DEF Spec

(***************************************************************************)
(* Every variable keeps its type, and no bound is overrun.                 *)
(***************************************************************************)
THEOREM VerbsTypeCorrect == Spec => []TypeOK
<1>1. IInv => TypeOK
  BY DEF IInv
<1> QED
  BY <1>1, VerbsInvariance, PTL

-----------------------------------------------------------------------------
(***************************************************************************)
(* A call that is not a migration and is accepted reaches no container.    *)
(***************************************************************************)
Spared(v) ==
    guests[v] # None /\ guests'[v] # guests[v] /\ guests[v].type = "lxc" =>
        /\ guests'[v] # None
        /\ \E n \in Nodes : guests'[v] = [guests[v] EXCEPT !.node = n]

LEMMA CallSpares ==
  ASSUME TypeOK, NEW c \in Call, Accepts(c), Harmless(c.verb, c.ref),
         guests' = Perform(c), NEW v \in VMIDs
  PROVE  Spared(v)
<1>1. c.ref.vmid \in VMIDs /\ c.target \in Nodes
  BY DEF Call, GuestRef
<1>2. guests[c.ref.vmid] \in Guest /\ guests[c.ref.vmid].type = c.ref.type
  BY PerformType
<1>3. CASE v # c.ref.vmid
  BY <1>1, <1>3 DEF Spared, Perform, TypeOK, Cluster
<1>4. CASE v = c.ref.vmid /\ c.verb # "migrate"
  BY <1>2, <1>4 DEF Harmless, Spared
<1>5. CASE v = c.ref.vmid /\ c.verb = "migrate"
  <2>1. guests'[v] = [guests[v] EXCEPT !.node = c.target]
    BY <1>1, <1>5 DEF Perform, TypeOK, Cluster
  <2>2. guests'[v] \in Guest
    BY <1>1, <1>2, <1>5, <2>1 DEF Guest
  <2> QED
    BY <1>1, <2>1, <2>2, NoneAssumption DEF Spared
<1> QED
  BY <1>3, <1>4, <1>5

(***************************************************************************)
(* delete, start and stop never change a container, for every order of     *)
(* look-ups, calls, late tasks and vmids that come to be used again.       *)
(***************************************************************************)
THEOREM ContainersSpared == Spec => ContainersAreSafe
<1> DEFINE Safe == moves' = moves => \A v \in VMIDs : Spared(v)
<1>1. IInv /\ [Next]_vars => Safe
  <2> SUFFICES ASSUME IInv, [Next]_vars, moves' = moves, NEW v \in VMIDs
               PROVE  Spared(v)
    OBVIOUS
  <2>1. CASE guests' = guests
    BY <2>1 DEF Spared
  <2>2. ASSUME NEW p \in Procs, Done(p) PROVE Spared(v)
    BY <2>2, CallType, CallSpares DEF Done, IInv
  <2>3. ASSUME NEW c \in tasks, TaskEnds(c) PROVE Spared(v)
    BY <2>1, <2>3, CallSpares DEF TaskEnds, IInv, TypeOK, Typed
  <2>4. ASSUME NEW w \in VMIDs, Operator(w) PROVE FALSE
    BY <2>4 DEF Operator, IInv, TypeOK
  <2>5. CASE UNCHANGED vars
    BY <2>1, <2>5 DEF vars
  <2>6. ASSUME NEW p \in Procs,
               \/ \E o \in Orders : Begin(p, o)
               \/ Find(p) \/ Refused(p) \/ Fail(p) \/ TimeOut(p)
        PROVE  Spared(v)
    BY <2>1, <2>6 DEF Begin, Find, Refused, Fail, TimeOut
  <2> QED
    BY <2>2, <2>3, <2>4, <2>5, <2>6 DEF Next, Step
<1>2. Safe => (moves' = moves =>
        \A v \in VMIDs :
            guests[v] # None /\ guests'[v] # guests[v] /\ guests[v].type = "lxc" =>
                /\ guests'[v] # None
                /\ \E n \in Nodes : guests'[v] = [guests[v] EXCEPT !.node = n])
  BY DEF Spared
<1> QED
  BY <1>1, <1>2, VerbsInvariance, PTL DEF Spec, ContainersAreSafe

-----------------------------------------------------------------------------
(***************************************************************************)
(* One process on a cluster nobody else works on: every name on its list   *)
(* is dealt with or still to do, and the guest it makes its call on is the *)
(* only one its name stands for.                                           *)
(***************************************************************************)
Pending(p) ==
    \A i \in DOMAIN order[p].names :
        \/ Achieved(guests, order[p], order[p].names[i])
        \/ \E j \in DOMAIN todo[p] : todo[p][j] = order[p].names[i]

Sighted(p) == Matches(order[p], Head(todo[p])) = {ref[p].vmid}

Underway(p) == Pending(p) /\ (pc[p] = "act" => Sighted(p))

Watched ==
    /\ timeouts = 0 => tasks = {}
    /\ \A p \in Procs : Alone(p) /\ pc[p] # "idle" => Underway(p)

(***************************************************************************)
(* A call of one order spares what earlier calls of the order achieved,    *)
(* and achieves it for the name whose only guest it is made on.            *)
(***************************************************************************)
CallOf(o, r) == [verb |-> o.verb, ref |-> r, target |-> o.target]

LEMMA CallChanges ==
  ASSUME TypeOK, NEW c \in Call, Accepts(c)
  PROVE  LET v == c.ref.vmid
             gs == Perform(c)
         IN  /\ v \in VMIDs /\ guests[v] \in Guest /\ guests[v] # None
             /\ gs \in Cluster
             /\ \A w \in VMIDs \ {v} : gs[w] = guests[w]
             /\ c.verb = "delete" => gs[v] = None
             /\ c.verb # "delete" =>
                    /\ gs[v] # None
                    /\ gs[v].name = guests[v].name
                    /\ gs[v].type = guests[v].type
             /\ c.verb = "start" => gs[v].power = "running"
             /\ c.verb = "stop" => gs[v].power = "stopped"
             /\ c.verb = "migrate" => gs[v].node = c.target
<1> DEFINE v == c.ref.vmid
           gs == Perform(c)
<1>1. v \in VMIDs /\ guests[v] \in Guest /\ gs \in Cluster /\ guests[v] # None
  BY PerformType, NoneAssumption DEF Call, GuestRef
<1>2. c.verb \in VerbNames /\ c.target \in Nodes
  BY DEF Call
<1>3. /\ [guests[v] EXCEPT !.power = "running"] \in Guest
      /\ [guests[v] EXCEPT !.power = "stopped"] \in Guest
      /\ [guests[v] EXCEPT !.node = c.target] \in Guest
  BY <1>1, <1>2 DEF Guest
<1>4. \A w \in VMIDs \ {v} : gs[w] = guests[w]
  BY <1>1 DEF Perform, TypeOK, Cluster
<1>5. CASE c.verb = "delete"
  BY <1>1, <1>4, <1>5 DEF Perform, TypeOK, Cluster
<1>6. CASE c.verb = "start"
  <2>1. gs[v] = [guests[v] EXCEPT !.power = "running"]
    BY <1>1, <1>6 DEF Perform, TypeOK, Cluster
  <2> QED
    BY <1>1, <1>3, <1>4, <1>6, <2>1, NoneAssumption DEF Guest
<1>7. CASE c.verb = "stop"
  <2>1. gs[v] = [guests[v] EXCEPT !.power = "stopped"]
    BY <1>1, <1>7 DEF Perform, TypeOK, Cluster
  <2> QED
    BY <1>1, <1>3, <1>4, <1>7, <2>1, NoneAssumption DEF Guest
<1>8. CASE c.verb = "migrate"
  <2>1. gs[v] = [guests[v] EXCEPT !.node = c.target]
    BY <1>1, <1>8 DEF Perform, TypeOK, Cluster
  <2> QED
    BY <1>1, <1>3, <1>4, <1>8, <2>1, NoneAssumption DEF Guest
<1> QED
  BY <1>2, <1>5, <1>6, <1>7, <1>8 DEF VerbNames

LEMMA CallSparesAchieved ==
  ASSUME TypeOK, NEW o \in Order, NEW r \in GuestRef, Accepts(CallOf(o, r)),
         NEW name, Achieved(guests, o, name)
  PROVE  Achieved(Perform(CallOf(o, r)), o, name)
<1> DEFINE c == CallOf(o, r)
           gs == Perform(c)
<1>1. c \in Call /\ c.verb = o.verb /\ c.target = o.target /\ c.ref = r
  BY DEF CallOf, Call, Order
<1>2. /\ \A w \in VMIDs \ {r.vmid} : gs[w] = guests[w]
      /\ c.verb = "delete" => gs[r.vmid] = None
      /\ c.verb # "delete" =>
             /\ gs[r.vmid] # None
             /\ gs[r.vmid].name = guests[r.vmid].name
             /\ gs[r.vmid].type = guests[r.vmid].type
      /\ c.verb = "start" => gs[r.vmid].power = "running"
      /\ c.verb = "stop" => gs[r.vmid].power = "stopped"
      /\ c.verb = "migrate" => gs[r.vmid].node = c.target
  BY <1>1, CallChanges
<1> SUFFICES Achieved(gs, o, name)
  OBVIOUS
<1> HIDE DEF c, gs
<1>3. CASE o.verb = "delete"
  BY <1>1, <1>2, <1>3 DEF Achieved, Named
<1>4. CASE o.verb = "start"
  BY <1>1, <1>2, <1>4 DEF Achieved, Named
<1>5. CASE o.verb = "stop"
  BY <1>1, <1>2, <1>5 DEF Achieved, Named
<1>6. CASE o.verb = "migrate"
  BY <1>1, <1>2, <1>6 DEF Achieved, Named
<1>7. o.verb \in VerbNames
  BY DEF Order
<1> QED
  BY <1>3, <1>4, <1>5, <1>6, <1>7 DEF VerbNames

LEMMA CallAchieves ==
  ASSUME TypeOK, NEW o \in Order, NEW r \in GuestRef, Accepts(CallOf(o, r)),
         NEW name, Matches(o, name) = {r.vmid}
  PROVE  Achieved(Perform(CallOf(o, r)), o, name)
<1> DEFINE c == CallOf(o, r)
           gs == Perform(c)
<1>1. c \in Call /\ c.verb = o.verb /\ c.target = o.target /\ c.ref = r
  BY DEF CallOf, Call, Order
<1>2. /\ \A w \in VMIDs \ {r.vmid} : gs[w] = guests[w]
      /\ c.verb = "delete" => gs[r.vmid] = None
      /\ c.verb # "delete" =>
             /\ gs[r.vmid] # None
             /\ gs[r.vmid].name = guests[r.vmid].name
             /\ gs[r.vmid].type = guests[r.vmid].type
      /\ c.verb = "start" => gs[r.vmid].power = "running"
      /\ c.verb = "stop" => gs[r.vmid].power = "stopped"
      /\ c.verb = "migrate" => gs[r.vmid].node = c.target
  BY <1>1, CallChanges
<1> SUFFICES Achieved(gs, o, name)
  OBVIOUS
<1> HIDE DEF c, gs
<1>3. CASE o.verb = "delete"
  BY <1>1, <1>2, <1>3 DEF Achieved, Matches, Named
<1>4. CASE o.verb = "start"
  BY <1>1, <1>2, <1>4 DEF Achieved, Matches, Named
<1>5. CASE o.verb = "stop"
  BY <1>1, <1>2, <1>5 DEF Achieved, Matches, Named
<1>6. CASE o.verb = "migrate"
  BY <1>1, <1>2, <1>6 DEF Achieved, Matches, Named
<1>7. o.verb \in VerbNames
  BY DEF Order
<1> QED
  BY <1>3, <1>4, <1>5, <1>6, <1>7 DEF VerbNames

(***************************************************************************)
(* A name is taken off the list when it is dealt with.                     *)
(***************************************************************************)
LEMMA NextNamePends ==
  ASSUME IInv, NEW p \in Procs, pc[p] # "idle", NextName(p),
         \A i \in DOMAIN order[p].names :
             \/ Achieved(guests', order[p], order[p].names[i])
             \/ \E j \in DOMAIN todo[p] : todo[p][j] = order[p].names[i],
         Achieved(guests', order[p], Head(todo[p]))
  PROVE  /\ pc'[p] # "act"
         /\ pc'[p] # "idle" => Pending(p)'
         /\ pc'[p] = "idle" =>
                \A i \in DOMAIN order[p].names :
                    Achieved(guests', order[p], order[p].names[i])
<1>1. /\ todo[p] \in Seq(Names) /\ todo[p] # <<>>
      /\ pc \in [Procs -> {"idle", "find", "act"}]
      /\ todo \in [Procs -> Seq(Names)]
  BY DEF IInv, TypeOK, Busy
<1>2. /\ Len(todo[p]) \in Nat /\ DOMAIN todo[p] = 1..Len(todo[p])
      /\ Head(todo[p]) = todo[p][1]
  BY <1>1, LenProperties, HeadTailProperties
<1>3. CASE Len(todo[p]) = 1
  <2>1. pc'[p] = "idle"
    BY <1>1, <1>3 DEF NextName, Finish
  <2>2. \A j \in DOMAIN todo[p] : todo[p][j] = Head(todo[p])
    BY <1>2, <1>3
  <2> QED
    BY <2>1, <2>2
<1>4. CASE Len(todo[p]) # 1
  <2>1. /\ pc'[p] = "find" /\ order' = order
        /\ todo'[p] = Tail(todo[p])
    BY <1>1, <1>4 DEF NextName
  <2>2. /\ Len(Tail(todo[p])) = Len(todo[p]) - 1
        /\ DOMAIN Tail(todo[p]) = 1..(Len(todo[p]) - 1)
        /\ \A j \in 1..(Len(todo[p]) - 1) : Tail(todo[p])[j] = todo[p][j + 1]
    BY <1>1, HeadTailProperties, LenProperties
  <2>3. ASSUME NEW j \in DOMAIN todo[p], j # 1
        PROVE  \E k \in DOMAIN todo'[p] : todo'[p][k] = todo[p][j]
    <3>1. j - 1 \in 1..(Len(todo[p]) - 1)
      BY <1>2, <2>3
    <3>2. Tail(todo[p])[j - 1] = todo[p][j]
      BY <1>2, <2>2, <3>1
    <3> QED
      BY <2>1, <2>2, <3>1, <3>2
  <2>4. Pending(p)'
    BY <1>2, <2>1, <2>3 DEF Pending
  <2> QED
    BY <2>1, <2>4
<1> QED
  BY <1>3, <1>4

LEMMA FoundAchieves ==
  ASSUME NEW o, NEW name, NEW v \in Matches(o, name),
         o.verb = "migrate", guests[v].node = o.target
  PROVE  Achieved(guests, o, name)
  BY DEF Matches, Achieved

(***************************************************************************)
(* A step of the process deals with the name at the head of its list, or   *)
(* fails.                                                                  *)
(***************************************************************************)
Ended(p) ==
    pc'[p] = "idle" /\ result'[p] = "ok" =>
        \A i \in DOMAIN order[p].names :
            Achieved(guests', order[p], order[p].names[i])

LEMMA FailureIsNoSuccess ==
  ASSUME IInv, NEW p \in Procs, Finish(p, "failed")
  PROVE  pc'[p] = "idle" /\ Ended(p)
  BY DEF IInv, TypeOK, Finish, Ended

LEMMA FindProceeds ==
  ASSUME IInv, NEW p \in Procs, Find(p), Underway(p)
  PROVE  (pc'[p] # "idle" => Underway(p)') /\ Ended(p)
<1>1. pc[p] # "idle" /\ guests' = guests
  BY DEF Find
<1>2. CASE Finish(p, "failed")
  BY <1>2, FailureIsNoSuccess
<1>3. CASE \E v \in Matches(order[p], Head(todo[p])) :
               Matches(order[p], Head(todo[p])) = {v} /\ Found(p, v)
  <2>1. PICK v \in Matches(order[p], Head(todo[p])) :
               Matches(order[p], Head(todo[p])) = {v} /\ Found(p, v)
    BY <1>3
  <2>2. CASE order[p].verb = "migrate" /\ guests[v].node = order[p].target
    <3>1. Achieved(guests', order[p], Head(todo[p]))
      BY <1>1, <2>2, FoundAchieves
    <3>2. NextName(p)
      BY <2>1, <2>2 DEF Found
    <3> QED
      BY <1>1, <3>1, <3>2, NextNamePends DEF Underway, Pending, Ended
  <2>3. CASE ~(order[p].verb = "migrate" /\ guests[v].node = order[p].target)
    <3>1. Act(p, v)
      BY <2>1, <2>3 DEF Found
    <3>2. /\ pc'[p] = "act" /\ ref'[p].vmid = v
          /\ order' = order /\ todo' = todo
      BY <3>1 DEF Act, IInv, TypeOK
    <3>3. Pending(p)'
      BY <1>1, <3>2 DEF Underway, Pending
    <3>4. Sighted(p)'
      BY <1>1, <2>1, <3>2 DEF Sighted, Matches, Named
    <3> QED
      BY <3>2, <3>3, <3>4 DEF Underway, Ended
  <2> QED
    BY <2>2, <2>3
<1> QED
  BY <1>2, <1>3 DEF Find

LEMMA DoneProceeds ==
  ASSUME IInv, NEW p \in Procs, Done(p), Underway(p)
  PROVE  (pc'[p] # "idle" => Underway(p)') /\ Ended(p)
<1>1. PICK c \in Calls(p) : Accepts(c) /\ guests' = Perform(c)
  BY DEF Done
<1>2. /\ pc[p] = "act" /\ ref[p] \in GuestRef /\ order[p] \in Order
      /\ c = CallOf(order[p], ref[p])
  BY <1>1, OrdersAssumption DEF Calls, CallOf, IInv, TypeOK, Busy
<1>3. Achieved(guests', order[p], Head(todo[p]))
  BY <1>1, <1>2, CallAchieves DEF Underway, Sighted, IInv
<1>4. \A i \in DOMAIN order[p].names :
          \/ Achieved(guests', order[p], order[p].names[i])
          \/ \E j \in DOMAIN todo[p] : todo[p][j] = order[p].names[i]
  BY <1>1, <1>2, CallSparesAchieved DEF Underway, Pending, IInv
<1> QED
  BY <1>2, <1>3, <1>4, NextNamePends DEF Done, Underway, Ended

LEMMA BeginPends ==
  ASSUME IInv, NEW p \in Procs, NEW o \in Orders, Begin(p, o)
  PROVE  pc[p] = "idle" /\ pc'[p] = "find" /\ Underway(p)'
  BY DEF Begin, Underway, Pending, IInv, TypeOK

(***************************************************************************)
(* What one step does for a process that has the cluster to itself.        *)
(***************************************************************************)
LEMMA AloneProceeds ==
  ASSUME IInv, Watched, [Next]_vars, NEW p \in Procs, Alone(p)
  PROVE  /\ Alone(p)' /\ pc'[p] # "idle" => Underway(p)'
         /\ pc[p] # "idle" => Ended(p)
<1>1. \A q \in Procs : q = p
  BY DEF Alone
<1>2. tasks = {} /\ (pc[p] # "idle" => Underway(p))
  BY DEF Alone, Watched
<1>3. CASE UNCHANGED vars
  <2>1. Underway(p) => Underway(p)'
    BY <1>3 DEF vars, locals, Underway, Pending, Sighted, Matches, Named
  <2> QED
    BY <1>2, <1>3, <2>1 DEF vars, locals, Ended
<1>4. ASSUME NEW o \in Orders, Begin(p, o)
      PROVE  pc[p] = "idle" /\ Underway(p)'
  BY <1>4, BeginPends
<1>5. ASSUME Find(p) \/ Done(p)
      PROVE  (pc'[p] # "idle" => Underway(p)') /\ Ended(p)
  <2>1. pc[p] # "idle"
    BY <1>5, CallType DEF Find, Done, IInv
  <2> QED
    BY <1>2, <1>5, <2>1, FindProceeds, DoneProceeds
<1>6. ASSUME Refused(p) \/ Fail(p) \/ TimeOut(p)
      PROVE  pc'[p] = "idle" /\ Ended(p)
  BY <1>6, FailureIsNoSuccess DEF Refused, Fail, TimeOut
<1>7. ASSUME NEW v \in VMIDs, Operator(v)
      PROVE  ~Alone(p)' /\ (pc[p] # "idle" => Ended(p))
  <2>1. moves' # 0
    BY <1>7 DEF Operator, IInv, TypeOK
  <2> QED
    BY <1>7, <2>1 DEF Operator, locals, Alone, Ended
<1> QED
  BY <1>1, <1>2, <1>3, <1>4, <1>5, <1>6, <1>7 DEF Next, Step

LEMMA WatchedInductive == IInv /\ Watched /\ [Next]_vars => Watched'
<1> SUFFICES ASSUME IInv, Watched, [Next]_vars PROVE Watched'
  OBVIOUS
<1>1. timeouts' = 0 => tasks' = {}
  BY DEF Next, Begin, Step, Find, Done, Refused, Fail, TimeOut, TaskEnds, Operator,
         vars, budgets, IInv, TypeOK, Watched
<1>2. timeouts' = 0 /\ moves' = 0 => timeouts = 0 /\ moves = 0
  BY DEF Next, Begin, Step, Find, Done, Refused, Fail, TimeOut, TaskEnds, Operator,
         vars, budgets, IInv, TypeOK
<1>3. ASSUME NEW p \in Procs, Alone(p)', pc'[p] # "idle" PROVE Underway(p)'
  <2>1. Alone(p)
    BY <1>2, <1>3 DEF Alone
  <2> QED
    BY <1>3, <2>1, AloneProceeds
<1> QED
  BY <1>1, <1>3 DEF Watched

(***************************************************************************)
(* A run that ends well on a cluster it has to itself did what it was told *)
(* for every name on its list, whatever stands on the list twice and       *)
(* whatever guests share a name.                                           *)
(***************************************************************************)
THEOREM SuccessIsForEveryName == Spec => SuccessAchieves
<1> DEFINE Achieves ==
        \A p \in Procs :
            Alone(p) /\ pc[p] # "idle" /\ pc'[p] = "idle" /\ result'[p] = "ok" =>
                \A i \in DOMAIN order[p].names :
                    Achieved(guests', order[p], order[p].names[i])
<1>1. Init => Watched
  BY DEF Init, Watched
<1>2. IInv /\ Watched /\ [Next]_vars => Watched'
  BY WatchedInductive
<1>3. IInv /\ Watched /\ [Next]_vars => Achieves
  BY AloneProceeds DEF Ended
<1> HIDE DEF Achieves
<1>4. Achieves => \A p \in Procs :
            Alone(p) /\ pc[p] # "idle" /\ pc'[p] = "idle" /\ result'[p] = "ok" =>
                \A i \in DOMAIN order[p].names :
                    Achieved(guests', order[p], order[p].names[i])
  BY DEF Achieves
<1> QED
  BY <1>1, <1>2, <1>3, <1>4, VerbsInvariance, PTL DEF Spec, SuccessAchieves
=============================================================================
