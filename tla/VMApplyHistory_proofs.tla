----------------------- MODULE VMApplyHistory_proofs -----------------------
(***************************************************************************)
(* What one run says of the next.  The memory of VMApplyHistory never      *)
(* holds a step back, so what is proved of VMApply holds here too; what a  *)
(* run said is a fact about the cluster that nobody has touched since, and *)
(* a later run of the same manifest keeps to it call by call.              *)
(***************************************************************************)
EXTENDS VMApplyHistory, VMApply_proofs

(***************************************************************************)
(* The memory only watches: every behaviour with it is one of VMApply.     *)
(***************************************************************************)
THEOREM MemoryOnlyWatches == HSpec => Spec
<1>1. HInit => Init
    BY DEF HInit
<1>2. [HNext]_hvars => [Next]_vars
    BY DEF HNext, hvars
<1>3. QED
    BY <1>1, <1>2, PTL DEF HSpec, Spec

-----------------------------------------------------------------------------
(***************************************************************************)
(* Who takes a step, and what is remembered after it.                      *)
(***************************************************************************)
LEMMA OneOf ==
    ASSUME Next
    PROVE  \/ \E p \in Procs : Step(p) \/ Start(p) \/ Fail(p) \/ TimeOut(p)
           \/ UNCHANGED locals
BY DEF Next, TaskEnds, Operator

\* A run that ends untroubled ended with a step of its own.
LEMMA EndsByStep ==
    ASSUME IInv, Next, NEW p \in Procs, Ends(p), Untroubled
    PROVE  Step(p)
<1>1. ~UNCHANGED pc
    BY DEF Ends
<1>2. PICK q \in Procs : Step(q) \/ Start(q) \/ Fail(q) \/ TimeOut(q)
    BY <1>1, OneOf DEF locals
<1>3. q = p
    BY <1>2, OthersStay DEF Ends
<1>4. ~Fail(p) /\ ~TimeOut(p)
    BY DEF Fail, TimeOut, Untroubled, IInv, BudgetsOK
<1>5. ~Start(p)
    BY DEF Start, Begin, Reject, Ends
<1>6. QED
    BY <1>2, <1>3, <1>4, <1>5

\* A label left behind shows whose step it was.
LEMMA StepsItself ==
    ASSUME IInv, Next, NEW p \in Procs
    PROVE  \/ Step(p) \/ Start(p) \/ Fail(p) \/ TimeOut(p)
           \/ /\ pc'[p] = pc[p] /\ manifest'[p] = manifest[p] /\ mode'[p] = mode[p]
              /\ ref'[p] = ref[p] /\ plan'[p] = plan[p] /\ result'[p] = result[p]
BY OneOf, OthersStay DEF locals

\* What was said last: by a run that just ended, or before on the same cluster.
LEMMA SaidBefore ==
    ASSUME Remember, said' # None
    PROVE  \/ said' = said /\ guests' = guests
           \/ \E p \in Procs :
                /\ Ends(p) /\ Untroubled
                /\ said' = [about |-> manifest[p], mode |-> mode[p], answer |-> result'[p]]
<1>1. CASE \E p \in Procs : p \in Ended
    <2> DEFINE p == CHOOSE q \in Procs : q \in Ended
    <2>1. p \in Procs /\ p \in Ended
        BY <1>1
    <2>2. said' = [about |-> manifest[p], mode |-> mode[p], answer |-> result'[p]]
        BY <1>1 DEF Remember
    <2>3. QED
        BY <2>1, <2>2 DEF Ended
<1>2. CASE ~(\E p \in Procs : p \in Ended)
    BY <1>2 DEF Remember
<1>3. QED
    BY <1>1, <1>2

\* What a process heard: when it began, or before.
LEMMA HeardBefore ==
    ASSUME Remember, NEW p \in Procs, heard'[p] # None
    PROVE  /\ pc'[p] # "idle"
           /\ pc[p] = "idle" => heard'[p] = said /\ said # None /\ said.about = manifest'[p]
           /\ pc[p] # "idle" =>
                /\ heard'[p] = heard[p]
                /\ guests' = guests \/ <<pc'[p], plan'[p]>> # <<pc[p], plan[p]>>
BY DEF Remember

-----------------------------------------------------------------------------
(***************************************************************************)
(* The guest diff found in sync stays where it is and as it is.            *)
(***************************************************************************)
PinsTarget(label, m, r) ==
    /\ label = "nextid" => m.vmid = None
    /\ label \in Standing \cup {"findsource", "create", "clone"} =>
        m.vmid \in {None, r.vmid}

SameShown(gs, m) ==
    \E v \in VMIDs : /\ gs[v] # None /\ gs[v].type = "qemu" /\ InSync(gs[v], m)
                     /\ m.vmid \in {None, v}

\* Where an apply that heard "same" can be, and what it has before it.
StillSame(gs, label, m, r) ==
    /\ label \in {"idle", "resolve", "summary", "config", "power"}
    /\ label = "resolve" => SameShown(gs, m)
    /\ label \in {"summary", "config"} /\ gs[r.vmid] # None => InSync(gs[r.vmid], m)

Told ==
    /\ \A p \in Procs : PinsTarget(pc[p], manifest[p], ref[p])
    /\ said # None /\ said.mode = "diff" /\ said.answer = "same" =>
        SameShown(guests, said.about)
    /\ \A p \in Procs : mode[p] = "apply" /\ Heard(p, "diff", {"same"}) =>
        StillSame(guests, pc[p], manifest[p], ref[p])

PinsNext(p) == PinsTarget(pc'[p], manifest'[p], ref'[p])

LEMMA FinishPins ==
    ASSUME IInv, NEW p \in Procs, NEW outcome, Finish(p, outcome)
    PROVE  PinsNext(p)
BY FinishKnows DEF PinsNext, PinsTarget, Standing

LEMMA ContinuePins ==
    ASSUME IInv, NEW p \in Procs, NEW label, NEW target, NEW todo,
           PinsTarget(label, manifest[p], target), Continue(p, label, target, todo)
    PROVE  PinsNext(p)
BY ContinueKnows DEF PinsNext

LEMMA SettlePins ==
    ASSUME IInv, NEW p \in Procs, PinsTarget(pc[p], manifest[p], ref[p]),
           pc[p] \in {"create", "clone", "postclone"}, Settle(p)
    PROVE  PinsNext(p)
<1>1. PinsTarget("readpower", manifest[p], ref[p])
    BY DEF PinsTarget, Standing
<1>2. QED
    BY <1>1, FinishPins, ContinuePins DEF Settle

LEMMA ProceedPins ==
    ASSUME IInv, NEW p \in Procs, PinsTarget(pc[p], manifest[p], ref[p]),
           pc[p] \in Standing, NEW todo, Proceed(p, ref[p], todo)
    PROVE  PinsNext(p)
<1>1. CASE NextCall(todo) = "idle"
    BY <1>1, FinishPins DEF Proceed
<1>2. CASE NextCall(todo) # "idle"
    <2>1. PinsTarget(NextCall(todo), manifest[p], ref[p])
        <3>1. NextCall(todo) # "nextid"
            BY DEF NextCall
        <3>2. QED
            BY <3>1 DEF PinsTarget
    <2>2. QED
        BY <1>2, <2>1, ContinuePins DEF Proceed
<1>3. QED
    BY <1>1, <1>2

LEMMA NotFoundPins ==
    ASSUME IInv, NEW p \in Procs, NotFound(p)
    PROVE  PinsNext(p)
<1> DEFINE m == manifest[p]
           made == IF m.clone = None THEN "create" ELSE "findsource"
           at == [vmid |-> m.vmid, node |-> m.node]
<1>1. CASE \E outcome : Finish(p, outcome)
    BY <1>1, FinishPins
<1>2. CASE m.vmid = None /\ Continue(p, "nextid", None, NoPlan)
    <2>1. PinsTarget("nextid", m, None)
        BY <1>2 DEF PinsTarget, Standing
    <2>2. QED
        BY <1>2, <2>1, ContinuePins
<1>3. CASE Continue(p, made, at, NoPlan)
    <2>1. PinsTarget(made, m, at)
        BY DEF PinsTarget
    <2>2. QED
        BY <1>3, <2>1, ContinuePins
<1>4. QED
    BY <1>1, <1>2, <1>3 DEF NotFound

LEMMA FoundPins ==
    ASSUME IInv, NEW p \in Procs, NEW v, manifest[p].vmid \in {None, v}, Found(p, v)
    PROVE  PinsNext(p)
<1> DEFINE at == [vmid |-> v, node |-> guests[v].node]
<1>1. CASE \E outcome : Finish(p, outcome)
    BY <1>1, FinishPins
<1>2. ASSUME NEW label \in {"summary", "config"}, Continue(p, label, at, NoPlan)
      PROVE  PinsNext(p)
    <2>1. PinsTarget(label, manifest[p], at)
        BY DEF PinsTarget
    <2>2. QED
        BY <1>2, <2>1, ContinuePins
<1>3. QED
    BY <1>1, <1>2 DEF Found

LEMMA StepPins ==
    ASSUME IInv, NEW p \in Procs, PinsTarget(pc[p], manifest[p], ref[p]),
           Step(p) \/ Start(p) \/ Fail(p) \/ TimeOut(p)
    PROVE  PinsNext(p)
<1>1. ASSUME NEW outcome, Finish(p, outcome)
      PROVE  PinsNext(p)
    BY <1>1, FinishPins
<1>2. CASE Start(p)
    <2>1. pc'[p] \in {"idle", "resolve"}
        BY <1>2 DEF Start, Begin, Reject, Goto, IInv, LocalsOK
    <2>2. QED
        BY <2>1 DEF PinsNext, PinsTarget, Standing
<1>3. CASE Fail(p) \/ TimeOut(p) \/ Refused(p) \/ NoNextID(p) \/ SwitchPower(p)
    BY <1>1, <1>3 DEF Fail, TimeOut, Refused, NoNextID, SwitchPower
<1>4. CASE Resolve(p)
    <2>1. CASE manifest[p].vmid # None /\ guests[manifest[p].vmid] = None
        <3>1. Continue(p, "checkname", None, NoPlan)
            BY <1>4, <2>1 DEF Resolve
        <3>2. PinsTarget("checkname", manifest[p], None)
            BY DEF PinsTarget, Standing
        <3>3. QED
            BY <3>1, <3>2, ContinuePins
    <2>2. CASE ~(manifest[p].vmid # None /\ guests[manifest[p].vmid] = None)
        BY <1>1, <1>4, <2>2, NotFoundPins, FoundPins DEF Resolve
    <2>3. QED
        BY <2>1, <2>2
<1>5. CASE CheckName(p)
    BY <1>1, <1>5, NotFoundPins DEF CheckName
<1>6. CASE NextID(p)
    <2> DEFINE label == IF manifest[p].clone = None THEN "create" ELSE "findsource"
    <2>1. PICK v \in VMIDs :
             Continue(p, label, [vmid |-> v, node |-> manifest[p].node], NoPlan)
        BY <1>6 DEF NextID
    <2>2. PinsTarget(label, manifest[p], [vmid |-> v, node |-> manifest[p].node])
        BY <1>6 DEF NextID, Reads, PinsTarget
    <2>3. QED
        BY <2>1, <2>2, ContinuePins
<1>7. CASE FindSource(p)
    <2>1. CASE Finish(p, "failed")
        BY <1>1, <2>1
    <2>2. CASE ~Finish(p, "failed")
        <3>1. pc[p] = "findsource" /\ manifest' = manifest /\ ref' = ref
            BY <1>7, <2>2 DEF FindSource, Reads
        <3>2. pc'[p] = "clone"
            BY <1>7, <2>2 DEF FindSource, Goto, IInv, LocalsOK
        <3>3. QED
            BY <3>1, <3>2 DEF PinsNext, PinsTarget
    <2>3. QED
        BY <2>1, <2>2
<1>8. CASE Create(p) \/ PostClone(p)
    BY <1>8, SettlePins DEF Create, PostClone
<1>9. CASE Clone(p)
    <2>1. PinsTarget("postclone", manifest[p], ref[p])
        BY <1>9 DEF Clone, PinsTarget
    <2>2. QED
        BY <1>9, <2>1, ContinuePins DEF Clone
<1>10. CASE ReadSummary(p)
    <2>1. PinsTarget("config", manifest[p], ref[p])
        BY <1>10 DEF ReadSummary, Reads, PinsTarget, Standing
    <2>2. QED
        BY <1>1, <1>10, <2>1, ContinuePins DEF ReadSummary
<1>11. CASE ReadPower(p) \/ ReadConfig(p) \/ UpdateConfig(p) \/ ResizeDisk(p)
    BY <1>1, <1>11, ProceedPins
       DEF ReadPower, ReadConfig, Decide, UpdateConfig, ResizeDisk, Reads, Standing
<1>12. QED
    BY <1>2, <1>3, <1>4, <1>5, <1>6, <1>7, <1>8, <1>9, <1>10, <1>11 DEF Step

LEMMA SameIsShown ==
    ASSUME IInv, NEW p \in Procs, PinsTarget(pc[p], manifest[p], ref[p]),
           Step(p), Ends(p), mode[p] = "diff", result'[p] = "same"
    PROVE  guests' = guests /\ SameShown(guests, manifest[p])
<1> DEFINE m == manifest[p]
           g == guests[ref[p].vmid]
<1>1. pc[p] \notin Creating /\ m \in Manifest
    BY Locals, NoneAssumption DEF Creating
<1>2. ASSUME NEW outcome, Finish(p, outcome)
      PROVE  outcome = "same"
    BY <1>2, FinishKnows
<1>3. ASSUME NEW label, label # "idle", NEW target, NEW todo,
             Continue(p, label, target, todo)
      PROVE  FALSE
    BY <1>3, ContinueKnows DEF Ends
<1>4. ~NotFound(p)
    BY <1>2 DEF NotFound
<1>5. ASSUME NEW v PROVE ~Found(p, v)
    BY <1>2, <1>3 DEF Found
<1>6. ~Resolve(p) /\ ~CheckName(p) /\ ~ReadSummary(p) /\ ~Refused(p)
    BY <1>2, <1>3, <1>4, <1>5 DEF Resolve, CheckName, ReadSummary, Refused
<1>7. ReadConfig(p)
    BY <1>1, <1>6
       DEF Step, NextID, NoNextID, Create, FindSource, Clone, PostClone, ReadPower,
           UpdateConfig, ResizeDisk, SwitchPower, Reads, Creating, Writing
<1>8. Reaches(guests, ref[p].vmid, ref[p].node) /\ Decide(p, g, m)
    BY <1>2, <1>7 DEF ReadConfig
<1>9. InSync(g, m)
    BY <1>2, <1>8 DEF Decide
<1>10. ref[p] \in GuestRef /\ m.vmid \in {None, ref[p].vmid} /\ guests' = guests
    BY <1>7, Locals DEF ReadConfig, Reads, Aimed, PinsTarget, Standing
<1>11. QED
    BY <1>8, <1>9, <1>10 DEF SameShown, Reaches, GuestRef

\* A guest in sync has the manifest's name.
LEMMA InSyncName ==
    ASSUME NEW g, NEW m \in Manifest, InSync(g, m)
    PROVE  g.config["name"] = m.name
<1>1. "name" \in Keys \ {"cipassword"} /\ Config(m)["name"] = m.name
    BY DEF Keys, OwnKeys, Config
<1>2. m.name # None
    BY NoneAssumption DEF Manifest, Scalar
<1>3. QED
    BY <1>1, <1>2 DEF InSync, ChangedKeys

\* What is in sync needs no config, no disk and no growth.
LEMMA NothingPlanned ==
    ASSUME NEW g, NEW m, InSync(g, m)
    PROVE  /\ PlannedConfig(g, m) = NoParams /\ PlannedDisks(g, m) = NoWrites
           /\ PlannedSizes(g, m) = NoWrites /\ ~Unplannable(g, m)
BY DEF InSync, PlannedConfig, PlannedDisks, PlannedSizes, NoParams, NoWrites, Unplannable

LEMMA ResolveStaysSame ==
    ASSUME IInv, NEW p \in Procs, mode[p] = "apply", SameShown(guests, manifest[p]),
           Resolve(p)
    PROVE  StillSame(guests', pc'[p], manifest'[p], ref'[p])
<1> DEFINE m == manifest[p]
           Same == StillSame(guests', pc'[p], manifest'[p], ref'[p])
<1>1. PICK v \in VMIDs : /\ guests[v] # None /\ guests[v].type = "qemu"
                         /\ InSync(guests[v], m) /\ m.vmid \in {None, v}
    BY DEF SameShown
<1>2. m \in Manifest /\ guests' = guests /\ guests[v].config["name"] = m.name
    BY <1>1, Locals, InSyncName DEF Resolve, Reads
<1>3. v \in Named(guests, m.name) /\ v # None
    BY <1>1, <1>2, NoneAssumption DEF Named
<1>4. CASE \E outcome : Finish(p, outcome)
    BY <1>4, FinishKnows DEF StillSame
<1>5. ASSUME NEW label \in {"summary", "config"},
             Continue(p, label, [vmid |-> v, node |-> guests[v].node], NoPlan)
      PROVE  Same
    <2>1. pc'[p] = label /\ ref'[p].vmid = v /\ manifest'[p] = m
        BY <1>5, ContinueKnows
    <2>2. QED
        BY <1>1, <1>2, <2>1 DEF StillSame
<1>6. CASE Found(p, v)
    BY <1>1, <1>4, <1>5, <1>6 DEF Found
<1>7. CASE m.vmid # None
    <2>1. m.vmid = v
        BY <1>1, <1>7
    <2>2. QED
        BY <1>1, <1>6, <1>7, <2>1 DEF Resolve
<1>8. CASE m.vmid = None
    BY <1>3, <1>4, <1>6, <1>8 DEF Resolve
<1>9. QED
    BY <1>7, <1>8

LEMMA ConfigStaysSame ==
    ASSUME IInv, NEW p \in Procs, mode[p] = "apply", ReadConfig(p),
           StillSame(guests, pc[p], manifest[p], ref[p])
    PROVE  StillSame(guests', pc'[p], manifest'[p], ref'[p])
<1> DEFINE m == manifest[p]
           g == guests[ref[p].vmid]
<1>1. CASE \E outcome : Finish(p, outcome)
    BY <1>1, FinishKnows DEF StillSame
<1>2. CASE ~\E outcome : Finish(p, outcome)
    <2>1. pc[p] = "config" /\ Reaches(guests, ref[p].vmid, ref[p].node) /\ Decide(p, g, m)
        BY <1>2 DEF ReadConfig, Reads
    <2>2. InSync(g, m)
        BY <2>1 DEF StillSame, Reaches
    <2>3. Proceed(p, ref[p], Todo(p, g, m))
        BY <1>2, <2>1, <2>2, NothingPlanned DEF Decide
    <2>4. NextCall(Todo(p, g, m)) \in {"power", "idle"}
        BY <2>2, NothingPlanned DEF NextCall, Todo, HasWrites
    <2>5. Continue(p, "power", ref[p], Todo(p, g, m))
        BY <1>2, <2>3, <2>4 DEF Proceed
    <2>6. QED
        BY <2>5, ContinueKnows DEF StillSame
<1>3. QED
    BY <1>1, <1>2

LEMMA StepStaysSame ==
    ASSUME IInv, NEW p \in Procs, mode[p] = "apply", pc[p] # "idle",
           StillSame(guests, pc[p], manifest[p], ref[p]),
           Step(p) \/ Fail(p) \/ TimeOut(p)
    PROVE  StillSame(guests', pc'[p], manifest'[p], ref'[p])
<1>1. ASSUME NEW outcome, Finish(p, outcome)
      PROVE  StillSame(guests', pc'[p], manifest'[p], ref'[p])
    BY <1>1, FinishKnows DEF StillSame
<1>2. CASE Fail(p) \/ TimeOut(p) \/ Refused(p) \/ SwitchPower(p)
    BY <1>1, <1>2 DEF Fail, TimeOut, Refused, SwitchPower
<1>3. CASE Resolve(p)
    <2>1. SameShown(guests, manifest[p])
        BY <1>3 DEF Resolve, Reads, StillSame
    <2>2. QED
        BY <1>3, <2>1, ResolveStaysSame
<1>4. CASE ReadSummary(p)
    <2>1. CASE Finish(p, "failed")
        BY <1>1, <2>1
    <2>2. CASE ~Finish(p, "failed")
        <3>1. pc[p] = "summary" /\ guests' = guests
            BY <1>4 DEF ReadSummary, Reads
        <3>2. pc'[p] = "config" /\ ref'[p] = ref[p] /\ manifest'[p] = manifest[p]
            BY <1>4, <2>2, ContinueKnows DEF ReadSummary
        <3>3. QED
            BY <3>1, <3>2 DEF StillSame
    <2>3. QED
        BY <2>1, <2>2
<1>5. CASE ReadConfig(p)
    BY <1>5, ConfigStaysSame
<1>6. pc[p] \in {"resolve", "summary", "config", "power"}
    BY DEF StillSame
<1>7. QED
    BY <1>2, <1>3, <1>4, <1>5, <1>6
       DEF Step, CheckName, NextID, NoNextID, Create, FindSource, Clone, PostClone,
           ReadPower, UpdateConfig, ResizeDisk, Reads

LEMMA ToldStays == HSpec => []Told
<1>1. HInit => Told
    BY DEF HInit, Init, Told, PinsTarget, Standing, Heard
<1>2. IInv /\ Told /\ [HNext]_hvars => Told'
    <2> SUFFICES ASSUME IInv, Told, HNext PROVE Told'
        BY DEF hvars, vars, locals, Told, Heard
    <2>1. ASSUME NEW p \in Procs
          PROVE  PinsTarget(pc[p], manifest[p], ref[p])' /\ PinsTarget(pc[p], manifest[p], ref[p])
        BY StepsItself, StepPins DEF HNext, Told, PinsNext
    <2>2. ASSUME said' # None, said'.mode = "diff", said'.answer = "same"
          PROVE  SameShown(guests', said'.about)
        <3>1. CASE said' = said /\ guests' = guests
            BY <2>2, <3>1 DEF Told
        <3>2. ASSUME NEW p \in Procs, Ends(p), Untroubled,
                     said' = [about |-> manifest[p], mode |-> mode[p], answer |-> result'[p]]
              PROVE  SameShown(guests', said'.about)
            <4>1. Step(p) /\ mode[p] = "diff" /\ result'[p] = "same"
                BY <2>2, <3>2, EndsByStep DEF HNext
            <4>2. QED
                BY <2>1, <3>2, <4>1, SameIsShown
        <3>3. QED
            BY <2>2, <3>1, <3>2, SaidBefore DEF HNext
    <2>3. ASSUME NEW p \in Procs, mode'[p] = "apply", Heard(p, "diff", {"same"})'
          PROVE  StillSame(guests', pc'[p], manifest'[p], ref'[p])
        <3>1. heard'[p] # None /\ heard'[p].mode = "diff" /\ heard'[p].answer = "same"
            BY <2>3 DEF Heard
        <3>2. CASE pc[p] = "idle"
            <4>1. SameShown(guests, manifest'[p]) /\ pc'[p] # "idle"
                BY <3>1, <3>2, HeardBefore DEF HNext, Told
            <4>2. Start(p)
                BY <3>2, <4>1, StepsItself
                   DEF HNext, Step, Resolve, CheckName, NextID, NoNextID, Create,
                       FindSource, Clone, PostClone, ReadPower, ReadSummary, ReadConfig,
                       UpdateConfig, ResizeDisk, SwitchPower, Refused, Reads, Calls,
                       Fail, TimeOut
            <4>3. guests' = guests /\ pc'[p] = "resolve"
                BY <4>1, <4>2 DEF Start, Begin, Reject, Goto, IInv, LocalsOK
            <4>4. QED
                BY <4>1, <4>3 DEF StillSame
        <3>3. CASE pc[p] # "idle"
            <4>1. /\ heard[p] = heard'[p]
                  /\ guests' = guests \/ <<pc'[p], plan'[p]>> # <<pc[p], plan[p]>>
                BY <3>1, <3>3, HeardBefore DEF HNext
            <4>2. CASE Step(p) \/ Start(p) \/ Fail(p) \/ TimeOut(p)
                <5>1. ~Start(p)
                    BY <3>3 DEF Start, Begin, Reject
                <5>2. mode[p] = "apply"
                    BY <2>3, <4>2, <5>1, StepKeepsMode
                <5>3. StillSame(guests, pc[p], manifest[p], ref[p])
                    BY <3>1, <4>1, <5>2 DEF Told, Heard
                <5>4. QED
                    BY <3>3, <4>2, <5>1, <5>2, <5>3, StepStaysSame
            <4>3. CASE /\ pc'[p] = pc[p] /\ manifest'[p] = manifest[p] /\ mode'[p] = mode[p]
                       /\ ref'[p] = ref[p] /\ plan'[p] = plan[p]
                BY <2>3, <3>1, <4>1, <4>3 DEF Told, Heard
            <4>4. QED
                BY <4>2, <4>3, StepsItself DEF HNext
        <3>4. QED
            BY <3>2, <3>3
    <2>4. QED
        BY <2>1, <2>2, <2>3 DEF Told
<1>3. QED
    BY <1>1, <1>2, MemoryOnlyWatches, Invariance, PTL DEF HSpec

(***************************************************************************)
(* After diff said "same", apply sends neither a config nor a resize and   *)
(* creates nothing: whatever else runs, times out or is changed by hand in *)
(* between, as long as the cluster stays as it was between the two.        *)
(***************************************************************************)
THEOREM SameMeansNoWrites == HSpec => []DiffTellsTheWrites
<1>1. Told => DiffTellsTheWrites
    BY DEF Told, DiffTellsTheWrites, StillSame, Writing
<1>2. QED
    BY <1>1, ToldStays, PTL

-----------------------------------------------------------------------------
(***************************************************************************)
(* One run at a time, on a cluster nobody else works on.  Foretold is the  *)
(* answer a cluster has for a manifest: a run that only looks gives it,    *)
(* and a run that writes keeps to it after its first write.                *)
(***************************************************************************)
Verdict(g, m) ==
    IF g.type # "qemu" \/ m.node # g.node \/ PoolMoved(m, g) THEN "failed"
    ELSE IF InSync(g, m) /\ PlannedPower(m, g.power) = "none" THEN "unchanged"
    ELSE IF Unplannable(g, m) THEN "failed" ELSE "configured"

Foretold(gs, m, answer) ==
    LET found == Targets(gs, m) IN
    \/ found = {} /\ answer = IF Named(gs, m.name) = {} THEN "created" ELSE "failed"
    \/ \E v \in found : found = {v} /\ answer = Verdict(gs[v], m)
    \/ found # {} /\ (\A v \in found : found # {v}) /\ answer = "failed"

Looking == {"resolve", "checkname", "summary", "config"}
Making == {"nextid", "findsource", "create", "clone", "postclone", "readpower"}
Changing == {"update", "resize", "power"}

Follows(gs, label, m, todo, answer) ==
    /\ label \in Looking => Foretold(gs, m, answer)
    /\ label \in Making => answer = "created"
    /\ label \in Changing => answer = todo.report

FollowsNext(p, answer) ==
    /\ pc[p] \notin Looking => pc'[p] \notin Looking
    /\ Follows(guests', pc'[p], manifest'[p], plan'[p], answer)
    /\ pc'[p] = "idle" =>
        \/ result'[p] = answer
        \/ answer = "created" /\ result'[p] = "failed"
        \/ answer = "configured" /\ result'[p] = "failed" /\ Sizeless(p)

LEMMA OneAnswer ==
    ASSUME NEW gs, NEW m, NEW a, NEW b, Foretold(gs, m, a), Foretold(gs, m, b)
    PROVE  a = b
BY DEF Foretold

LEMMA AnswerOf ==
    ASSUME NEW gs, NEW m, NEW v, Targets(gs, m) = {v}, NEW a
    PROVE  Foretold(gs, m, a) <=> a = Verdict(gs[v], m)
BY DEF Foretold

\* A cluster that holds what a manifest declares answers "unchanged".
LEMMA ConvergedForetells ==
    ASSUME NEW gs \in Cluster, NEW m \in Manifest, Converged(gs, m)
    PROVE  Foretold(gs, m, "unchanged")
<1>1. PICK v \in Targets(gs, m) : Targets(gs, m) = {v} /\ Agrees(gs[v], m)
    BY DEF Converged
<1> DEFINE g == gs[v]
<1>2. InSync(g, m)
    BY <1>1 DEF Agrees, InSync, ChangedKeys, ChangedSlots, DiskDiffers
<1>3. PlannedPower(m, g.power) = "none"
    BY <1>1 DEF Agrees, PlannedPower
<1>4. Verdict(g, m) = "unchanged"
    BY <1>1, <1>2, <1>3 DEF Verdict, Agrees, PoolMoved
<1>5. QED
    BY <1>1, <1>4 DEF Foretold

(***************************************************************************)
(* A step that looks ends with the answer of the cluster, looks on, or     *)
(* begins to write what was answered.                                      *)
(***************************************************************************)
LooksOn(p) ==
    \/ pc'[p] = "idle" /\ Foretold(guests, manifest[p], result'[p])
    \/ pc'[p] \in Looking
    \/ pc'[p] \in Making /\ mode[p] = "apply" /\ Foretold(guests, manifest[p], "created")
    \/ /\ pc'[p] \in Changing /\ mode[p] = "apply"
       /\ plan'[p].report = "configured" /\ Foretold(guests, manifest[p], "configured")

LEMMA NotFoundLooksOn ==
    ASSUME IInv, NEW p \in Procs, mode[p] \in {"apply", "server"},
           Absent(guests, manifest[p]), NotFound(p)
    PROVE  LooksOn(p)
<1> DEFINE m == manifest[p]
<1>1. Foretold(guests, m, "created")
    BY DEF Foretold, Targets, Absent
<1>2. CASE mode[p] = "server"
    <2>1. Finish(p, "created")
        BY <1>2 DEF NotFound
    <2>2. QED
        BY <1>1, <2>1, FinishKnows DEF LooksOn
<1>3. CASE mode[p] = "apply"
    <2>1. PICK label, target : label \in Making /\ Continue(p, label, target, NoPlan)
        BY <1>3 DEF NotFound, Making
    <2>2. QED
        BY <1>1, <1>3, <2>1, ContinueKnows DEF LooksOn
<1>4. QED
    BY <1>2, <1>3

LEMMA FoundLooksOn ==
    ASSUME IInv, NEW p \in Procs, mode[p] \in {"apply", "server"},
           NEW v \in VMIDs, Targets(guests, manifest[p]) = {v}, Found(p, v)
    PROVE  LooksOn(p)
<1> DEFINE m == manifest[p]
<1>1. CASE guests[v].type # "qemu" \/ m.node # guests[v].node
    <2>1. Finish(p, "failed")
        BY <1>1 DEF Found
    <2>2. Foretold(guests, m, "failed")
        BY <1>1, AnswerOf DEF Verdict
    <2>3. QED
        BY <2>1, <2>2, FinishKnows DEF LooksOn
<1>2. CASE ~(guests[v].type # "qemu" \/ m.node # guests[v].node)
    <2>1. PICK label \in {"summary", "config"} :
             Continue(p, label, [vmid |-> v, node |-> guests[v].node], NoPlan)
        BY <1>2 DEF Found
    <2>2. QED
        BY <2>1, ContinueKnows DEF LooksOn, Looking
<1>3. QED
    BY <1>1, <1>2

LEMMA ResolveLooksOn ==
    ASSUME IInv, NEW p \in Procs, mode[p] \in {"apply", "server"}, Ready(p),
           Resolve(p) \/ CheckName(p)
    PROVE  LooksOn(p)
<1> DEFINE m == manifest[p]
           found == Named(guests, m.name)
<1>1. m \in Manifest
    BY Locals
<1>2. CASE CheckName(p)
    <2>1. m.vmid # None /\ guests[m.vmid] = None
        BY <1>2 DEF CheckName, Reads, Ready, Knows, Located
    <2>2. CASE found = {}
        BY <1>2, <2>1, <2>2, NotFoundLooksOn DEF CheckName, Absent
    <2>3. CASE found # {}
        <3>1. Finish(p, "failed")
            BY <1>2, <2>3 DEF CheckName
        <3>2. Foretold(guests, m, "failed")
            BY <2>1, <2>3 DEF Foretold, Targets
        <3>3. QED
            BY <3>1, <3>2, FinishKnows DEF LooksOn
    <2>4. QED
        BY <2>2, <2>3
<1>3. CASE Resolve(p) /\ m.vmid # None
    <2>1. CASE guests[m.vmid] # None
        <3>1. Targets(guests, m) = {m.vmid} /\ m.vmid \in VMIDs
            BY <1>1, <1>3, <2>1 DEF Targets, Manifest
        <3>2. QED
            BY <1>3, <2>1, <3>1, FoundLooksOn DEF Resolve
    <2>2. CASE guests[m.vmid] = None
        BY <1>3, <2>2, ContinueKnows DEF Resolve, LooksOn, Looking
    <2>3. QED
        BY <2>1, <2>2
<1>4. CASE Resolve(p) /\ m.vmid = None
    <2>1. Targets(guests, m) = found
        BY <1>4 DEF Targets
    <2>2. CASE found = {}
        BY <1>4, <2>2, NotFoundLooksOn DEF Resolve, Absent
    <2>3. ASSUME NEW v \in found, found = {v}
          PROVE  LooksOn(p)
        BY <1>4, <2>1, <2>3, FoundLooksOn DEF Resolve, Named
    <2>4. CASE found # {} /\ \A v \in found : found # {v}
        <3>1. Finish(p, "failed")
            BY <1>4, <2>4 DEF Resolve
        <3>2. Foretold(guests, m, "failed")
            BY <2>1, <2>4 DEF Foretold
        <3>3. QED
            BY <3>1, <3>2, FinishKnows DEF LooksOn
    <2>5. QED
        BY <2>2, <2>3, <2>4
<1>5. QED
    BY <1>2, <1>3, <1>4

LEMMA ReadLooksOn ==
    ASSUME IInv, NEW p \in Procs, mode[p] \in {"apply", "server"}, Ready(p),
           ReadSummary(p) \/ ReadConfig(p)
    PROVE  LooksOn(p)
<1> DEFINE m == manifest[p]
           g == guests[ref[p].vmid]
<1>1. /\ Stands(guests, ref[p], m) /\ ref[p].node = m.node
      /\ ref[p] \in GuestRef /\ m \in Manifest
    BY Locals DEF ReadSummary, ReadConfig, Reads, Ready, Knows, Located, Standing, Aimed
<1>2. /\ Targets(guests, m) = {ref[p].vmid} /\ g # None /\ g.type = "qemu" /\ g.node = m.node
    BY <1>1 DEF Stands, Reaches
<1>3. CASE ReadSummary(p)
    <2>1. CASE PoolMoved(m, g)
        <3>1. Finish(p, "failed")
            BY <1>2, <1>3, <2>1 DEF ReadSummary
        <3>2. Foretold(guests, m, "failed")
            BY <1>2, <2>1, AnswerOf DEF Verdict
        <3>3. QED
            BY <3>1, <3>2, FinishKnows DEF LooksOn
    <2>2. CASE ~PoolMoved(m, g)
        <3>1. \E todo : Continue(p, "config", ref[p], todo)
            BY <1>2, <1>3, <2>2 DEF ReadSummary
        <3>2. QED
            BY <3>1, ContinueKnows DEF LooksOn, Looking
    <2>3. QED
        BY <2>1, <2>2
<1>4. CASE ReadConfig(p)
    <2>1. Decide(p, g, m)
        BY <1>1, <1>4 DEF ReadConfig, Stands
    <2>2. ~PoolMoved(m, g) /\ plan[p].power = PlannedPower(m, g.power)
        BY <1>4 DEF ReadConfig, Reads, Ready, Knows, Matched
    <2>3. ASSUME NEW outcome, Finish(p, outcome), outcome = Verdict(g, m)
          PROVE  LooksOn(p)
        <3>1. Foretold(guests, m, outcome)
            BY <1>2, <2>3, AnswerOf
        <3>2. QED
            BY <2>3, <3>1, FinishKnows DEF LooksOn
    <2>4. CASE InSync(g, m) /\ plan[p].power = "none"
        BY <1>2, <2>1, <2>2, <2>3, <2>4 DEF Decide, Verdict
    <2>5. CASE ~(InSync(g, m) /\ plan[p].power = "none") /\ Unplannable(g, m)
        BY <1>2, <2>1, <2>2, <2>3, <2>5 DEF Decide, Verdict
    <2>6. CASE ~(InSync(g, m) /\ plan[p].power = "none") /\ ~Unplannable(g, m)
        <3>1. Verdict(g, m) = "configured"
            BY <1>2, <2>2, <2>6 DEF Verdict
        <3>2. CASE mode[p] = "server"
            BY <2>1, <2>3, <2>6, <3>1, <3>2 DEF Decide
        <3>3. CASE mode[p] = "apply"
            <4> DEFINE todo == Todo(p, g, m)
            <4>1. Proceed(p, ref[p], todo) /\ todo.report = "configured"
                BY <2>1, <2>6, <3>3 DEF Decide, Todo
            <4>2. CASE NextCall(todo) = "idle"
                BY <2>3, <3>1, <4>1, <4>2 DEF Proceed
            <4>3. CASE NextCall(todo) # "idle"
                <5>1. NextCall(todo) \in Changing
                    BY <4>3 DEF NextCall, Changing
                <5>2. Continue(p, NextCall(todo), ref[p], todo)
                    BY <4>1, <4>3 DEF Proceed
                <5>3. Foretold(guests, m, "configured")
                    BY <1>2, <3>1, AnswerOf
                <5>4. QED
                    BY <3>3, <4>1, <5>1, <5>2, <5>3, ContinueKnows DEF LooksOn
            <4>4. QED
                BY <4>2, <4>3
        <3>4. QED
            BY <3>2, <3>3
    <2>7. QED
        BY <2>4, <2>5, <2>6
<1>5. QED
    BY <1>3, <1>4

LEMMA LooksAhead ==
    ASSUME IInv, NEW p \in Procs, mode[p] \in {"apply", "server"}, Ready(p),
           pc[p] \in Looking, Step(p)
    PROVE  guests' = guests /\ LooksOn(p)
<1>1. Calls(p) = {}
    BY DEF Looking, Calls
<1>2. Resolve(p) \/ CheckName(p) \/ ReadSummary(p) \/ ReadConfig(p)
    BY <1>1 DEF Looking, Step, NextID, NoNextID, Create, FindSource, Clone, PostClone,
                ReadPower, UpdateConfig, ResizeDisk, SwitchPower, Refused, Reads
<1>3. QED
    BY <1>2, ResolveLooksOn, ReadLooksOn
       DEF Resolve, CheckName, ReadSummary, ReadConfig, Reads

(***************************************************************************)
(* From its first write on, a run ends as it was foretold: nothing that    *)
(* is still in the plan can be refused, but the growth of a drive without  *)
(* a size.  A creation can be refused, too.                                *)
(***************************************************************************)
LEMMA RefusedSizeless ==
    ASSUME IInv, NEW p \in Procs, Ready(p), pc[p] \in Changing, Refused(p)
    PROVE  Sizeless(p)
<1> DEFINE m == manifest[p]
           r == ref[p]
           g == guests[r.vmid]
<1>1. /\ Stands(guests, r, m) /\ pc[p] = NextCall(plan[p]) /\ Awaits(g, m, plan[p])
      /\ r \in GuestRef /\ m \in Manifest /\ plan[p] \in Plan /\ guests \in Cluster
    BY Locals DEF Ready, Knows, Located, Matched, Standing, Changing, Aimed, Writing, IInv
<1>2. Reaches(guests, r.vmid, r.node) /\ g \in Guest
    BY <1>1, StandingGuest DEF Stands
<1>3. PICK c \in Calls(p) : ~Admits(c)
    BY DEF Refused
<1>4. CASE pc[p] = "update"
    <2>1. c.op = "update" /\ c.vmid = r.vmid /\ c.node = r.node
        BY <1>4 DEF Calls, Update
    <2>2. QED
        BY <1>2, <1>3, <2>1 DEF Admits, Accepts
<1>5. CASE pc[p] = "power"
    <2>1. plan[p].power \in {"start", "stop"}
        BY <1>1, <1>5 DEF NextCall, Plan
    <2>2. c.op = plan[p].power /\ c.vmid = r.vmid /\ c.node = r.node
        BY <1>5 DEF Calls, Switch
    <2>3. QED
        BY <1>2, <1>3, <2>1, <2>2 DEF Admits, Accepts
<1>6. CASE pc[p] = "resize"
    <2>1. PICK s \in NextSlot(plan[p]) : c = Resize(r, s, plan[p].sizes[s])
        BY <1>6 DEF Calls
    <2>2. ~HasWrites(plan[p]) /\ plan[p].sizes # NoWrites
        BY <1>1, <1>6 DEF NextCall
    <2>3. g.disks[s] # None /\ g.disks[s].size <= plan[p].sizes[s]
        BY <1>1, <1>2, <2>2 DEF Awaits, AwaitsSizes, NextSlot, Plan
    <2> DEFINE size == g.disks[s].size
    <2>0. s \in Slots /\ plan[p].sizes[s] \in Nat /\ size \in Nat
        BY <1>1, <1>2, <2>1, <2>3, SizesAssumption
           DEF NextSlot, Plan, Guest, Disks, Disk
    <2>4. /\ c.op = "resize" /\ c.vmid = r.vmid /\ c.node = r.node
          /\ c.slot = s /\ c.size = plan[p].sizes[s]
        BY <2>1 DEF Resize
    <2>5. size \notin 1..plan[p].sizes[s]
        BY <1>2, <1>3, <2>3, <2>4 DEF Admits, Accepts
    <2>6. size = 0
        BY <2>0, <2>3, <2>5
    <2>7. QED
        BY <1>6, <2>1, <2>6 DEF Sizeless
<1>7. QED
    BY <1>4, <1>5, <1>6 DEF Changing

LEMMA FinishFollows ==
    ASSUME IInv, NEW p \in Procs, NEW answer, NEW outcome, Finish(p, outcome),
           outcome = answer \/ (answer = "created" /\ outcome = "failed")
    PROVE  FollowsNext(p, answer)
BY FinishKnows DEF FollowsNext, Follows, Looking, Making, Changing

LEMMA ContinueFollows ==
    ASSUME IInv, NEW p \in Procs, NEW answer, NEW label \in Making \cup Changing,
           NEW target, NEW todo, Continue(p, label, target, todo),
           label \in Making => answer = "created",
           label \in Changing => answer = todo.report
    PROVE  FollowsNext(p, answer)
BY ContinueKnows DEF FollowsNext, Follows, Looking, Making, Changing

LEMMA ProceedFollows ==
    ASSUME IInv, NEW p \in Procs, NEW todo, Proceed(p, ref[p], todo)
    PROVE  FollowsNext(p, todo.report)
<1>1. CASE NextCall(todo) = "idle"
    BY <1>1, FinishFollows DEF Proceed
<1>2. CASE NextCall(todo) # "idle"
    <2>1. NextCall(todo) \in Changing
        BY <1>2 DEF NextCall, Changing
    <2>2. Continue(p, NextCall(todo), ref[p], todo) /\ NextCall(todo) \notin Making
        BY <1>2, <2>1 DEF Proceed, Changing, Making
    <2>3. QED
        BY <2>1, <2>2, ContinueFollows
<1>3. QED
    BY <1>1, <1>2

LEMMA SettleFollows ==
    ASSUME IInv, NEW p \in Procs, Settle(p)
    PROVE  FollowsNext(p, "created")
<1>1. CASE WantsPower(manifest[p])
    <2>1. "readpower" \in Making \ Changing /\ Continue(p, "readpower", ref[p], NoPlan)
        BY <1>1 DEF Settle, Making, Changing
    <2>2. QED
        BY <2>1, ContinueFollows
<1>2. CASE ~WantsPower(manifest[p])
    BY <1>2, FinishFollows DEF Settle
<1>3. QED
    BY <1>1, <1>2

LEMMA MakingFollows ==
    ASSUME IInv, NEW p \in Procs, pc[p] \in Making, Step(p)
    PROVE  FollowsNext(p, "created")
<1>1. CASE Refused(p) \/ NoNextID(p)
    BY <1>1, FinishFollows DEF Refused, NoNextID
<1>2. CASE NextID(p)
    <2> DEFINE label == IF manifest[p].clone = None THEN "create" ELSE "findsource"
    <2>1. PICK target : Continue(p, label, target, NoPlan)
        BY <1>2 DEF NextID
    <2>2. label \in Making \ Changing
        BY DEF Making, Changing
    <2>3. QED
        BY <2>1, <2>2, ContinueFollows
<1>3. CASE FindSource(p)
    <2>1. CASE Finish(p, "failed")
        BY <2>1, FinishFollows
    <2>2. CASE ~Finish(p, "failed")
        <3>1. pc'[p] = "clone"
            BY <1>3, <2>2 DEF FindSource, Goto, IInv, LocalsOK
        <3>2. QED
            BY <3>1 DEF FollowsNext, Follows, Looking, Making, Changing
    <2>3. QED
        BY <2>1, <2>2
<1>4. CASE Create(p) \/ PostClone(p)
    BY <1>4, SettleFollows DEF Create, PostClone
<1>5. CASE Clone(p)
    <2>1. "postclone" \in Making \ Changing /\ Continue(p, "postclone", ref[p], NoPlan)
        BY <1>5 DEF Clone, Making, Changing
    <2>2. QED
        BY <2>1, ContinueFollows
<1>6. CASE ReadPower(p)
    <2>1. CASE Finish(p, "failed")
        BY <2>1, FinishFollows
    <2>2. CASE ~Finish(p, "failed")
        <3> DEFINE todo == [NoPlan EXCEPT !.power =
                               PlannedPower(manifest[p], guests[ref[p].vmid].power)]
        <3>1. Proceed(p, ref[p], todo)
            BY <1>6, <2>2 DEF ReadPower
        <3>2. todo.report = "created"
            BY DEF NoPlan
        <3> HIDE DEF todo
        <3>3. FollowsNext(p, todo.report)
            BY <3>1, ProceedFollows
        <3>4. QED
            BY <3>2, <3>3
    <2>3. QED
        BY <2>1, <2>2
<1>7. QED
    BY <1>1, <1>2, <1>3, <1>4, <1>5, <1>6
       DEF Step, Making, Resolve, CheckName, ReadSummary, ReadConfig, UpdateConfig,
           ResizeDisk, SwitchPower, Reads

LEMMA ChangingFollows ==
    ASSUME IInv, NEW p \in Procs, Ready(p), pc[p] \in Changing, Step(p)
    PROVE  FollowsNext(p, plan[p].report)
<1>1. plan[p] \in Plan
    BY Locals
<1>2. CASE UpdateConfig(p)
    <2> DEFINE todo == [plan[p] EXCEPT !.config = NoParams, !.disks = NoWrites]
    <2>1. Proceed(p, ref[p], todo) /\ todo.report = plan[p].report
        BY <1>1, <1>2 DEF UpdateConfig, Plan
    <2> HIDE DEF todo
    <2>2. FollowsNext(p, todo.report)
        BY <2>1, ProceedFollows
    <2>3. QED
        BY <2>1, <2>2
<1>3. CASE ResizeDisk(p)
    <2>1. PICK s : Proceed(p, ref[p], [plan[p] EXCEPT !.sizes[s] = None])
        BY <1>3 DEF ResizeDisk
    <2> DEFINE todo == [plan[p] EXCEPT !.sizes[s] = None]
    <2>2. todo.report = plan[p].report
        BY <1>1 DEF Plan
    <2> HIDE DEF todo
    <2>3. FollowsNext(p, todo.report)
        BY <2>1, ProceedFollows DEF todo
    <2>4. QED
        BY <2>2, <2>3
<1>4. CASE SwitchPower(p)
    BY <1>4, FinishFollows DEF SwitchPower
<1>5. CASE Refused(p)
    <2>1. pc[p] = "resize" /\ Sizeless(p)
        BY <1>5, RefusedSizeless DEF Sizeless
    <2>2. plan[p].report \in {"created", "configured"} /\ Finish(p, "failed")
        BY <1>1, <1>5 DEF Refused, Plan
    <2>3. QED
        BY <2>1, <2>2, FinishKnows DEF FollowsNext, Follows, Looking, Making, Changing
<1>6. QED
    BY <1>2, <1>3, <1>4, <1>5
       DEF Step, Changing, Resolve, CheckName, NextID, NoNextID, Create, FindSource,
           Clone, PostClone, ReadPower, ReadSummary, ReadConfig, Reads

LEMMA StepFollows ==
    ASSUME IInv, NEW p \in Procs, Ready(p), mode[p] = "apply", pc[p] # "idle", Step(p),
           NEW answer, Follows(guests, pc[p], manifest[p], plan[p], answer)
    PROVE  FollowsNext(p, answer)
<1>1. CASE pc[p] \in Looking
    <2>1. /\ guests' = guests /\ LooksOn(p) /\ manifest'[p] = manifest[p]
          /\ Foretold(guests, manifest[p], answer)
        BY <1>1, LooksAhead, StepKeepsMode DEF Follows
    <2>2. \A other : Foretold(guests, manifest[p], other) => other = answer
        BY <2>1, OneAnswer
    <2>3. CASE pc'[p] = "idle"
        BY <1>1, <2>1, <2>2, <2>3 DEF LooksOn, FollowsNext, Follows, Looking, Making, Changing
    <2>4. CASE pc'[p] \in Looking
        BY <1>1, <2>1, <2>4 DEF FollowsNext, Follows, Looking, Making, Changing
    <2>5. CASE pc'[p] \in Making \cup Changing
        <3>1. /\ pc'[p] \in Making => Foretold(guests, manifest[p], "created")
              /\ pc'[p] \in Changing =>
                    plan'[p].report = "configured" /\ Foretold(guests, manifest[p], "configured")
            BY <2>1, <2>5 DEF LooksOn, Looking, Making, Changing
        <3>2. /\ pc'[p] \in Making => answer = "created"
              /\ pc'[p] \in Changing => answer = plan'[p].report
            BY <2>2, <3>1
        <3>3. pc'[p] \notin Looking /\ pc'[p] # "idle"
            BY <2>5 DEF Looking, Making, Changing
        <3>4. QED
            BY <1>1, <3>2, <3>3 DEF FollowsNext, Follows
    <2>6. QED
        BY <2>1, <2>3, <2>4, <2>5 DEF LooksOn
<1>2. CASE pc[p] \in Making
    BY <1>2, MakingFollows DEF Follows
<1>3. CASE pc[p] \in Changing
    BY <1>3, ChangingFollows DEF Follows
<1>4. QED
    BY <1>1, <1>2, <1>3 DEF Looking, Making, Changing, IInv, LocalsOK, Writing, Reading

-----------------------------------------------------------------------------
(***************************************************************************)
(* What was said holds of the cluster as long as it is remembered.         *)
(***************************************************************************)
Promises(h) ==
    /\ h # None
    /\ \/ h.mode = "server"
       \/ h.mode = "apply" /\ h.answer \in Successes /\ CreatesInFull

Promised(h) == IF h.mode = "server" THEN h.answer ELSE "unchanged"

SaidSo ==
    /\ Promises(said) => Foretold(guests, said.about, Promised(said))
    /\ said # None /\ said.mode = "diff" /\ said.answer = "differs" =>
        Differs(guests, said.about)

HeardSo(p) ==
    /\ Promises(heard[p]) =>
        Follows(guests, pc[p], manifest[p], plan[p], Promised(heard[p]))
    /\ Heard(p, "diff", {"differs"}) /\ pc[p] \in Looking =>
        Differs(guests, manifest[p])

Foreseen == SaidSo /\ \A p \in Procs : mode[p] = "apply" => HeardSo(p)

LEMMA EndsSaySo ==
    ASSUME IInv, IInv', NEW p \in Procs, Ready(p), Step(p), Ends(p),
           said' = [about |-> manifest[p], mode |-> mode[p], answer |-> result'[p]]
    PROVE  SaidSo'
<1> DEFINE m == manifest[p]
<1>1. said'.about = m /\ said'.mode = mode[p] /\ said'.answer = result'[p]
    OBVIOUS
<1>2. ASSUME mode[p] = "server"
      PROVE  Foretold(guests', m, result'[p])
    <2>1. pc[p] \notin Creating
        BY <1>2, Locals
    <2>2. pc[p] \in Looking
        BY <2>1 DEF Creating, Ends, Looking, IInv, LocalsOK, Writing, Reading
    <2>3. guests' = guests /\ LooksOn(p) /\ pc'[p] = "idle"
        BY <1>2, <2>2, LooksAhead DEF Ends
    <2>4. QED
        BY <2>3 DEF LooksOn, Looking, Making, Changing
<1>3. ASSUME mode[p] = "apply", result'[p] \in Successes, CreatesInFull
      PROVE  Foretold(guests', m, "unchanged")
    <2>1. Converged(guests', m)
        BY <1>3, StepArrives DEF Arrives, Succeeds
    <2>2. QED
        BY <2>1, Locals, ConvergedForetells DEF IInv
<1>4. ASSUME mode[p] = "diff", result'[p] = "differs"
      PROVE  Differs(guests', m)
    BY <1>4, DiffAnswers
<1>5. QED
    BY <1>1, <1>2, <1>3, <1>4 DEF SaidSo, Promises, Promised

LEMMA BeginsSo ==
    ASSUME SaidSo, NEW p \in Procs, heard'[p] = said, said.about = manifest'[p],
           guests' = guests, pc'[p] = "resolve"
    PROVE  HeardSo(p)'
BY DEF SaidSo, HeardSo, Heard, Promises, Promised, Follows, Looking, Making, Changing

LEMMA GoesOnSo ==
    ASSUME IInv, NEW p \in Procs, Ready(p), Step(p), pc[p] # "idle",
           mode[p] = "apply", HeardSo(p), heard'[p] = heard[p]
    PROVE  HeardSo(p)'
<1>1. ASSUME Promises(heard[p])
      PROVE  Follows(guests', pc'[p], manifest'[p], plan'[p], Promised(heard[p]))
    BY <1>1, StepFollows DEF HeardSo, FollowsNext
<1>2. ASSUME Heard(p, "diff", {"differs"}), pc'[p] \in Looking
      PROVE  Differs(guests', manifest'[p])
    <2>1. CASE pc[p] \in Looking
        BY <1>2, <2>1, LooksAhead, StepKeepsMode DEF HeardSo
    <2>2. CASE pc[p] \notin Looking
        BY <1>2, <2>2, MakingFollows, ChangingFollows
           DEF FollowsNext, IInv, LocalsOK, Writing, Reading, Looking, Making, Changing
    <2>3. QED
        BY <2>1, <2>2
<1>3. QED
    BY <1>1, <1>2 DEF HeardSo, Heard, Promises, Promised

LEMMA ForeseenStays ==
    ASSUME OneAtATime, MaxMoves = 0
    PROVE  HSpec => []Foreseen
<1>1. HInit => Foreseen
    BY DEF HInit, Foreseen, SaidSo, HeardSo, Heard, Promises
<1>2. IInv /\ IInv' /\ Aware /\ Foreseen /\ [HNext]_hvars => Foreseen'
    <2> SUFFICES ASSUME IInv, IInv', Aware, Foreseen, HNext PROVE Foreseen'
        BY DEF hvars, vars, locals, Foreseen, SaidSo, HeardSo, Heard
    <2>1. \A p \in Procs : Ready(p)
        BY DEF Aware, IInv, BudgetsOK
    <2>2. SaidSo'
        <3>1. CASE said' = None
            BY <3>1 DEF SaidSo, Promises
        <3>2. CASE said' = said /\ guests' = guests
            BY <3>2 DEF Foreseen, SaidSo, Promises, Promised
        <3>3. ASSUME NEW p \in Procs, Ends(p), Untroubled,
                     said' = [about |-> manifest[p], mode |-> mode[p], answer |-> result'[p]]
              PROVE  SaidSo'
            BY <2>1, <3>3, EndsByStep, EndsSaySo DEF HNext
        <3>4. QED
            BY <3>1, <3>2, <3>3, SaidBefore DEF HNext
    <2>3. ASSUME NEW p \in Procs, mode'[p] = "apply"
          PROVE  HeardSo(p)'
        <3>1. CASE heard'[p] = None
            BY <3>1 DEF HeardSo, Heard, Promises
        <3>2. CASE heard'[p] # None /\ pc[p] = "idle"
            <4>1. /\ heard'[p] = said /\ said.about = manifest'[p] /\ pc'[p] # "idle"
                BY <3>2, HeardBefore DEF HNext
            <4>2. Start(p)
                BY <3>2, <4>1, StepsItself
                   DEF HNext, Step, Resolve, CheckName, NextID, NoNextID, Create,
                       FindSource, Clone, PostClone, ReadPower, ReadSummary, ReadConfig,
                       UpdateConfig, ResizeDisk, SwitchPower, Refused, Reads, Calls,
                       Fail, TimeOut
            <4>3. guests' = guests /\ pc'[p] = "resolve"
                BY <4>1, <4>2 DEF Start, Begin, Reject, Goto, IInv, LocalsOK
            <4>4. QED
                BY <4>1, <4>3, BeginsSo DEF Foreseen
        <3>3. CASE heard'[p] # None /\ pc[p] # "idle"
            <4>1. /\ heard'[p] = heard[p] /\ pc'[p] # "idle"
                  /\ guests' = guests \/ <<pc'[p], plan'[p]>> # <<pc[p], plan[p]>>
                BY <3>3, HeardBefore DEF HNext
            <4>2. CASE Step(p) \/ Start(p) \/ Fail(p) \/ TimeOut(p)
                <5>1. ~Start(p)
                    BY <3>3 DEF Start, Begin, Reject
                <5>2. ~Fail(p) /\ ~TimeOut(p)
                    BY <4>1, FinishKnows DEF Fail, TimeOut
                <5>3. mode[p] = "apply"
                    BY <2>3, <4>2, <5>1, StepKeepsMode
                <5>4. QED
                    BY <2>1, <3>3, <4>1, <4>2, <5>1, <5>2, <5>3, GoesOnSo DEF Foreseen
            <4>3. CASE /\ pc'[p] = pc[p] /\ manifest'[p] = manifest[p] /\ mode'[p] = mode[p]
                       /\ ref'[p] = ref[p] /\ plan'[p] = plan[p]
                BY <2>3, <3>3, <4>1, <4>3 DEF Foreseen, HeardSo, Heard, Promises, Promised
            <4>4. QED
                BY <4>2, <4>3, StepsItself DEF HNext
        <3>4. QED
            BY <3>1, <3>2, <3>3
    <2>4. QED
        BY <2>2, <2>3 DEF Foreseen
<1>3. QED
    BY <1>1, <1>2, MemoryOnlyWatches, AwareStays, Invariance, PTL DEF HSpec

(***************************************************************************)
(* Applied again to a cluster nobody touched since it succeeded, a         *)
(* manifest that declares nothing creation leaves out is reported          *)
(* unchanged, whichever way its guest had come into being.                 *)
(***************************************************************************)
THEOREM ReapplyingChangesNothing ==
    ASSUME OneAtATime, MaxMoves = 0, CreatesInFull
    PROVE  HSpec => ReapplyIsNoop
<1> DEFINE Noop == \A p \in Procs :
              AppliesTo(p) /\ Heard(p, "apply", Successes) => result'[p] = "unchanged"
<1>1. IInv /\ Aware /\ Foreseen /\ [HNext]_hvars => [Noop]_hvars
    <2> SUFFICES ASSUME IInv, Aware, Foreseen, HNext, NEW p \in Procs,
                        AppliesTo(p), Heard(p, "apply", Successes)
                 PROVE  result'[p] = "unchanged"
        OBVIOUS
    <2>1. Ready(p) /\ Step(p) /\ pc[p] # "idle" /\ pc'[p] = "idle" /\ mode[p] = "apply"
        BY EndsByStep DEF AppliesTo, HNext, Aware, IInv, BudgetsOK, Ends
    <2>2. Follows(guests, pc[p], manifest[p], plan[p], "unchanged")
        BY <2>1 DEF Foreseen, HeardSo, Heard, Promises, Promised
    <2>3. FollowsNext(p, "unchanged")
        BY <2>1, <2>2, StepFollows
    <2>4. QED
        BY <2>1, <2>3 DEF FollowsNext
<1>2. QED
    BY <1>1, ForeseenStays, MemoryOnlyWatches, AwareStays, Invariance, PTL
       DEF HSpec, ReapplyIsNoop

(***************************************************************************)
(* A server dry run foretells the answer of the apply that follows it on   *)
(* the same cluster; only a creation it announced, or the growth of a      *)
(* drive without a size, may still be refused.                             *)
(***************************************************************************)
THEOREM ForecastsHold ==
    ASSUME OneAtATime, MaxMoves = 0
    PROVE  HSpec => ForecastHolds
<1> DEFINE Holds == \A p \in Procs : AppliesTo(p) /\ Heard(p, "server", Results) =>
              \/ result'[p] = heard[p].answer
              \/ heard[p].answer = "created" /\ result'[p] = "failed"
              \/ heard[p].answer = "configured" /\ result'[p] = "failed" /\ Sizeless(p)
<1>1. IInv /\ Aware /\ Foreseen /\ [HNext]_hvars => [Holds]_hvars
    <2> SUFFICES ASSUME IInv, Aware, Foreseen, HNext, NEW p \in Procs,
                        AppliesTo(p), Heard(p, "server", Results)
                 PROVE  \/ result'[p] = heard[p].answer
                        \/ heard[p].answer = "created" /\ result'[p] = "failed"
                        \/ /\ heard[p].answer = "configured"
                           /\ result'[p] = "failed" /\ Sizeless(p)
        OBVIOUS
    <2>1. Ready(p) /\ Step(p) /\ pc[p] # "idle" /\ pc'[p] = "idle" /\ mode[p] = "apply"
        BY EndsByStep DEF AppliesTo, HNext, Aware, IInv, BudgetsOK, Ends
    <2>2. Follows(guests, pc[p], manifest[p], plan[p], heard[p].answer)
        BY <2>1 DEF Foreseen, HeardSo, Heard, Promises, Promised
    <2>3. FollowsNext(p, heard[p].answer)
        BY <2>1, <2>2, StepFollows
    <2>4. QED
        BY <2>1, <2>3 DEF FollowsNext
<1>2. QED
    BY <1>1, ForeseenStays, MemoryOnlyWatches, AwareStays, Invariance, PTL
       DEF HSpec, ForecastHolds

(***************************************************************************)
(* After diff reported a difference on the same cluster, apply does not    *)
(* report unchanged: the two commands read and compare alike.              *)
(***************************************************************************)
THEOREM DifferencesAreActedOn ==
    ASSUME OneAtATime, MaxMoves = 0
    PROVE  HSpec => DifferenceIsActedOn
<1> DEFINE Acts == \A p \in Procs :
              AppliesTo(p) /\ Heard(p, "diff", {"differs"}) => result'[p] # "unchanged"
<1>1. IInv /\ Aware /\ Foreseen /\ [HNext]_hvars => [Acts]_hvars
    <2> SUFFICES ASSUME IInv, Aware, Foreseen, HNext, NEW p \in Procs,
                        AppliesTo(p), Heard(p, "diff", {"differs"})
                 PROVE  result'[p] # "unchanged"
        OBVIOUS
    <2>1. Ready(p) /\ Step(p) /\ pc[p] # "idle" /\ pc'[p] = "idle" /\ mode[p] = "apply"
        BY EndsByStep DEF AppliesTo, HNext, Aware, IInv, BudgetsOK, Ends
    <2>2. CASE pc[p] \in Looking
        <3>1. Foretold(guests, manifest[p], result'[p])
            BY <2>1, <2>2, LooksAhead DEF LooksOn, Looking, Making, Changing
        <3>2. Differs(guests, manifest[p])
            BY <2>1, <2>2 DEF Foreseen, HeardSo
        <3>3. QED
            BY <3>1, <3>2 DEF Foretold, Differs, Verdict
    <2>3. CASE pc[p] \in Making
        BY <2>1, <2>3, MakingFollows DEF FollowsNext
    <2>4. CASE pc[p] \in Changing
        <3>1. plan[p].report \in {"created", "configured"}
            BY Locals DEF Plan
        <3>2. QED
            BY <2>1, <2>4, <3>1, ChangingFollows DEF FollowsNext
    <2>5. QED
        BY <2>1, <2>2, <2>3, <2>4 DEF Looking, Making, Changing, IInv, LocalsOK, Writing, Reading
<1>2. QED
    BY <1>1, ForeseenStays, MemoryOnlyWatches, AwareStays, Invariance, PTL
       DEF HSpec, DifferenceIsActedOn
=============================================================================
