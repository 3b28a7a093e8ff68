---------------------------- MODULE Batch_proofs ----------------------------
(***************************************************************************)
(* Theorems of Batch, for every registry and every input: a command over   *)
(* several documents implements VMApply, so what is proved of single runs  *)
(* holds of all the runs of a command; the lookups of a registry agree;    *)
(* and one command at a time counts every failure and exits with a status  *)
(* that tells of the cluster.                                              *)
(***************************************************************************)
EXTENDS BatchProperties, VMApply_proofs, FiniteSetTheorems

BIInv == IInv /\ BTypeOK

LEMMA DocumentType ==
    ASSUME BTypeOK, NEW p \in Procs, at[p] <= Len(objs[p])
    PROVE  /\ objs[p][at[p]].manifest \in Manifests
           /\ command[p] \in Modes
<1>1. objs[p] \in Seq(Decoded) /\ at[p] \in 1..Len(objs[p])
    BY DEF BTypeOK
<1>2. objs[p][at[p]] \in Decoded
    BY <1>1
<1>3. QED
    BY <1>2 DEF BTypeOK, Decoded

\* Only a process with a run under way takes a step of one.
LEMMA StepsAreBusy ==
    ASSUME NEW p \in Procs, Step(p) \/ Fail(p) \/ TimeOut(p)
    PROVE  pc[p] # "idle"
<1>1. Calls(p) # {} => pc[p] # "idle"
    BY DEF Calls
<1>2. Step(p) => pc[p] # "idle"
    BY <1>1 DEF Step, Resolve, CheckName, NextID, NoNextID, Create, FindSource,
       Clone, PostClone, ReadPower, ReadSummary, ReadConfig, UpdateConfig,
       ResizeDisk, SwitchPower, Refused, Reads
<1>3. TimeOut(p) => pc[p] # "idle"
    BY <1>1 DEF TimeOut
<1>4. QED
    BY <1>2, <1>3 DEF Fail

LEMMA EndsIdle ==
    ASSUME IInv, NEW p \in Procs, Fail(p) \/ TimeOut(p)
    PROVE  pc'[p] = "idle"
BY DEF Fail, TimeOut, Finish, Goto, IInv, LocalsOK

-----------------------------------------------------------------------------
(***************************************************************************)
(* Every step of a command is a step of its current document's run, or     *)
(* leaves the variables of VMApply alone.                                  *)
(***************************************************************************)
LEMMA CommandSteps ==
    ASSUME BTypeOK, NEW p \in Procs, Command(p)
    PROVE  Start(p) \/ Step(p) \/ Fail(p) \/ TimeOut(p) \/ UNCHANGED vars
<1>1. CASE \E md \in Modes, paths \in Inputs : Launch(p, md, paths)
    BY <1>1 DEF Launch
<1>2. CASE NoClient(p) \/ End(p) \/ Unsupported(p)
    BY <1>2 DEF NoClient, End, Unsupported, vars
<1>3. CASE BeginDocument(p) \/ RejectDocument(p)
    BY <1>3, DocumentType DEF BeginDocument, RejectDocument, Waiting, Start
<1>4. CASE Work(p) \/ FailDocument(p) \/ Killed(p)
    BY <1>4 DEF Work, FailDocument, Killed
<1>5. QED
    BY <1>1, <1>2, <1>3, <1>4 DEF Command

LEMMA BatchSteps == BTypeOK /\ [BNext]_bvars => [Next]_vars
<1> SUFFICES ASSUME BTypeOK, [BNext]_bvars PROVE [Next]_vars
    OBVIOUS
<1>1. CASE UNCHANGED bvars
    BY <1>1 DEF bvars
<1>2. CASE LateTask
    BY <1>2 DEF LateTask, Next
<1>3. CASE SomebodyElse
    BY <1>3 DEF SomebodyElse, Next
<1>4. CASE \E p \in Procs : Command(p)
    BY <1>4, CommandSteps DEF Next
<1>5. QED
    BY <1>1, <1>2, <1>3, <1>4 DEF BNext

-----------------------------------------------------------------------------
(***************************************************************************)
(* The types: what a document's end, or the command's, does to the loop.   *)
(***************************************************************************)
OthersKeepPC(p) == \A q \in Procs \ {p} : pc'[q] = pc[q]

LEMMA RunsKeepPC ==
    ASSUME IInv, NEW p \in Procs, Start(p) \/ Step(p) \/ Fail(p) \/ TimeOut(p)
    PROVE  OthersKeepPC(p)
BY OthersStay DEF OthersKeepPC

LEMMA AccountKeeps ==
    ASSUME BTypeOK, NEW p \in Procs, running[p], at[p] <= Len(objs[p]),
           NEW outcome, Account(p, outcome),
           pc'[p] = "idle", OthersKeepPC(p)
    PROVE  BTypeOK'
<1>1. CASE command[p] = "diff" /\ outcome = "failed"
    BY <1>1 DEF Account, Exit, BTypeOK, OthersKeepPC
<1>2. CASE ~(command[p] = "diff" /\ outcome = "failed")
    <2>1. /\ at' = [at EXCEPT ![p] = at[p] + 1]
          /\ failed' = [failed EXCEPT ![p] =
                            failed[p] + IF outcome = "failed" THEN 1 ELSE 0]
          /\ found' = [found EXCEPT ![p] = found[p] \/ outcome = "differs"]
          /\ UNCHANGED <<registry, command, running, objs, code, outages>>
        BY <1>2 DEF Account
    <2>2. at' \in [Procs -> Nat] /\ failed' \in [Procs -> Nat]
        BY <2>1 DEF BTypeOK
    <2>3. found' \in [Procs -> BOOLEAN]
        BY <2>1 DEF BTypeOK
    <2>4. /\ at'[p] \in 1..Len(objs[p]) + 1
          /\ failed'[p] <= at'[p] - 1
        BY <2>1 DEF BTypeOK
    <2>5. \A q \in Procs \ {p} : at'[q] = at[q] /\ failed'[q] = failed[q]
        BY <2>1 DEF BTypeOK
    <2>6. QED
        BY <2>1, <2>2, <2>3, <2>4, <2>5 DEF BTypeOK, OthersKeepPC
<1>3. QED
    BY <1>1, <1>2

LEMMA AlongKeeps ==
    ASSUME BTypeOK, NEW p \in Procs, running[p], at[p] <= Len(objs[p]),
           Along(p), OthersKeepPC(p)
    PROVE  BTypeOK'
<1>1. CASE pc'[p] = "idle"
    BY <1>1, AccountKeeps DEF Along
<1>2. CASE pc'[p] # "idle"
    BY <1>2 DEF Along, loop, BTypeOK, OthersKeepPC
<1>3. QED
    BY <1>1, <1>2

LEMMA LaunchKeeps ==
    ASSUME BTypeOK, NEW p \in Procs, NEW md \in Modes, NEW paths \in Inputs,
           Launch(p, md, paths)
    PROVE  BTypeOK'
<1> DEFINE documents == DocumentsIn[paths]
<1>1. documents \in Seq(Decoded) \cup {Undecodable}
    BY InputsAssumption
<1>2. PICK docs \in Seq(Decoded) :
        /\ Load(p, md, docs)
        /\ running' \in [Procs -> BOOLEAN]
        /\ code' \in [Procs -> {0, 1, 2} \cup {None}]
    <2>1. CASE Refuses(md, documents)
        <3>1. Load(p, md, <<>>) /\ Exit(p, ErrorCode(md))
            BY <2>1 DEF Launch
        <3>2. <<>> \in Seq(Decoded)
            OBVIOUS
        <3>3. QED
            BY <3>1, <3>2 DEF Exit, ErrorCode, BTypeOK
    <2>2. CASE ~Refuses(md, documents)
        <3>1. documents \in Seq(Decoded)
            BY <2>2, <1>1 DEF Refuses
        <3>2. QED
            BY <2>2, <3>1 DEF Launch, BTypeOK
    <2>3. QED
        BY <2>1, <2>2
<1>3. pc' = pc /\ pc[p] = "idle" /\ ~running[p]
    BY DEF Launch, vars, locals
<1>4. Len(docs) \in Nat
    OBVIOUS
<1>5. \A q \in Procs \ {p} : running'[q] = running[q]
    BY DEF Launch, Exit, BTypeOK
<1>6. QED
    BY <1>2, <1>3, <1>4, <1>5 DEF Load, BTypeOK

LEMMA CommandKeeps ==
    ASSUME IInv, BTypeOK, NEW p \in Procs, Command(p)
    PROVE  BTypeOK'
<1>1. CASE \E md \in Modes, paths \in Inputs : Launch(p, md, paths)
    BY <1>1, LaunchKeeps
<1>2. CASE NoClient(p)
    BY <1>2, OutagesAssumption DEF NoClient, Exit, ErrorCode, BTypeOK, vars, locals
<1>3. CASE End(p)
    <2>1. ExitStatus(p) \in {0, 1}
        BY DEF ExitStatus
    <2>2. pc[p] = "idle"
        BY <1>3 DEF End, BTypeOK
    <2>3. /\ running' = [running EXCEPT ![p] = FALSE]
          /\ code' \in [Procs -> {0, 1, 2} \cup {None}]
          /\ UNCHANGED <<pc, registry, command, objs, at, failed, found, outages>>
        BY <1>3, <2>1 DEF End, Exit, BTypeOK, vars, locals
    <2>4. QED
        BY <2>2, <2>3 DEF BTypeOK
<1>4. CASE Unsupported(p)
    <2>1. OthersKeepPC(p) /\ pc'[p] = "idle"
        BY <1>4 DEF Unsupported, Waiting, OthersKeepPC, vars, locals
    <2>2. QED
        BY <1>4, <2>1, AccountKeeps DEF Unsupported, Waiting
<1>5. CASE BeginDocument(p) \/ RejectDocument(p)
    <2>1. Start(p)
        BY <1>5, DocumentType DEF BeginDocument, RejectDocument, Waiting, Start
    <2>2. OthersKeepPC(p)
        BY <2>1, RunsKeepPC
    <2>3. QED
        BY <1>5, <2>2, AlongKeeps DEF BeginDocument, RejectDocument, Waiting
<1>6. CASE Work(p) \/ FailDocument(p) \/ Killed(p)
    <2>1. Step(p) \/ Fail(p) \/ TimeOut(p)
        BY <1>6 DEF Work, FailDocument, Killed
    <2>2. OthersKeepPC(p) /\ running[p] /\ at[p] <= Len(objs[p])
        BY <2>1, RunsKeepPC, StepsAreBusy DEF BTypeOK
    <2>3. CASE Work(p) \/ FailDocument(p)
        BY <2>2, <2>3, AlongKeeps DEF Work, FailDocument
    <2>4. CASE Killed(p)
        <3>1. pc'[p] = "idle"
            BY <2>4, EndsIdle DEF Killed
        <3>2. QED
            BY <2>2, <2>4, <3>1 DEF Killed, BTypeOK, OthersKeepPC
    <2>5. QED
        BY <1>6, <2>3, <2>4
<1>7. QED
    BY <1>1, <1>2, <1>3, <1>4, <1>5, <1>6 DEF Command

LEMMA BatchInit == BInit => BIInv
<1> SUFFICES ASSUME BInit PROVE BIInv
    OBVIOUS
<1>1. Init /\ IInv
    BY InitInv DEF BInit
<1>2. command \in [Procs -> Modes]
    BY <1>1 DEF BInit, Init
<1>3. <<>> \in Seq(Decoded) /\ Len(<<>>) = 0
    OBVIOUS
<1>4. objs \in [Procs -> Seq(Decoded)] /\ \A p \in Procs : Len(objs[p]) = 0
    BY <1>3 DEF BInit
<1>5. QED
    BY <1>1, <1>2, <1>4, OutagesAssumption DEF BInit, Init, BIInv, BTypeOK

LEMMA BatchNext == BIInv /\ [BNext]_bvars => BIInv'
<1> SUFFICES ASSUME BIInv, [BNext]_bvars PROVE BIInv'
    OBVIOUS
<1>1. IInv'
    BY BatchSteps, NextInv DEF BIInv
<1>2. CASE UNCHANGED bvars
    BY <1>1, <1>2 DEF bvars, vars, locals, loop, BIInv, BTypeOK
<1>3. CASE LateTask \/ SomebodyElse
    <2>1. UNCHANGED pc /\ UNCHANGED loop
        BY <1>3 DEF LateTask, SomebodyElse, TaskEnds, Operator, locals
    <2>2. QED
        BY <1>1, <2>1 DEF loop, BIInv, BTypeOK
<1>4. CASE \E p \in Procs : Command(p)
    BY <1>1, <1>4, CommandKeeps DEF BIInv
<1>5. QED
    BY <1>2, <1>3, <1>4 DEF BNext

THEOREM BatchInvariance == BSpec => []BIInv
<1>1. QED
    BY BatchInit, BatchNext, PTL DEF BSpec

-----------------------------------------------------------------------------
(***************************************************************************)
(* A command is within the documents it decoded, has counted no more       *)
(* failures than documents, and has a run under way only while it runs and *)
(* at one of its documents.  (runApply, runDiff.)                          *)
(***************************************************************************)
THEOREM BatchTypeCorrect == BSpec => []BTypeOK
<1>1. BIInv => BTypeOK
    BY DEF BIInv
<1>2. QED
    BY <1>1, BatchInvariance, PTL

(***************************************************************************)
(* A command over several documents makes, document by document, runs of   *)
(* VMApply and nothing else.  (runApply and runDiff touch the cluster only *)
(* through the handler.)                                                   *)
(***************************************************************************)
THEOREM BatchRefines == BSpec => Spec
<1>1. BInit => Init
    BY DEF BInit
<1>2. BIInv /\ [BNext]_bvars => [Next]_vars
    BY BatchSteps DEF BIInv
<1>3. QED
    BY <1>1, <1>2, BatchInvariance, PTL DEF BSpec, Spec

(***************************************************************************)
(* However many documents a command is given and however they fail, every  *)
(* call it makes or leaves running is declared by a manifest, and a diff   *)
(* or a dry run writes nothing.                                            *)
(***************************************************************************)
THEOREM BatchWritesAreDeclared == BSpec => []OnlyDeclaredWrites /\ DryRunsWriteNothing
<1>1. QED
    BY BatchRefines, WritesAreDeclared, DryRunsAreDry, PTL

-----------------------------------------------------------------------------
(***************************************************************************)
(* The registry.                                                           *)
(***************************************************************************)
LEMMA LastIndex ==
    ASSUME NEW n \in Nat, NEW S \in SUBSET (1..n), S # {}
    PROVE  \E i \in S : \A j \in S : j <= i
<1> DEFINE after(i) == {j \in S : j > i}
           afters == {after(i) : i \in S}
<1>1. IsFiniteSet(1..n)
    BY FS_Interval
<1>2. IsFiniteSet(S)
    BY <1>1, FS_Subset
<1>3. FiniteSubsetsOf(S) = SUBSET S
    BY <1>2, FS_FiniteSubsetsOfFinite
<1>4. afters \subseteq FiniteSubsetsOf(S) /\ afters # {}
    <2>1. afters \subseteq SUBSET S
        OBVIOUS
    <2>2. \E i \in S : after(i) \in afters
        OBVIOUS
    <2> HIDE DEF afters
    <2>3. QED
        BY <1>3, <2>1, <2>2
<1>5. \E x \in afters : \A y \in afters : <<y, x>> \notin StrictSubsetOrdering(S)
    BY <1>4, WFMin, FS_StrictSubsetOrderingWellFounded
<1>6. PICK i \in S : \A k \in S : <<after(k), after(i)>> \notin StrictSubsetOrdering(S)
    BY <1>5
<1>7. ASSUME NEW j \in S, j > i
      PROVE  FALSE
    <2>1. i \in Nat /\ j \in Nat /\ \A k \in S : k \in Nat
        OBVIOUS
    <2>2. \A k \in S : k > j => k > i
        BY <1>7, <2>1
    <2>3. after(j) \subseteq after(i)
        BY <2>2
    <2>4. j \in after(i) /\ j \notin after(j)
        BY <1>7, <2>1
    <2>5. <<after(j), after(i)>> \in StrictSubsetOrdering(S)
        BY <2>3, <2>4 DEF StrictSubsetOrdering
    <2>6. QED
        BY <1>6, <2>5
<1>8. QED
    BY <1>6, <1>7

\* A type that was registered is served, by a handler of that type.
LEMMA Served ==
    ASSUME NEW handlers \in Registries, NEW k \in DOMAIN handlers
    PROVE  ByGVK(handlers, handlers[k].gvk) \in Handler
<1> DEFINE of == {i \in DOMAIN handlers : handlers[i].gvk = handlers[k].gvk}
<1>1. Len(handlers) \in Nat /\ of \in SUBSET (1..Len(handlers)) /\ k \in of
    BY DEF Registries
<1>2. \E i \in of : \A j \in of : j <= i
    BY <1>1, LastIndex
<1>3. (CHOOSE i \in of : \A j \in of : j <= i) \in of
    BY <1>2
<1>4. \A i \in of : handlers[i] \in Handler
    BY DEF Registries
<1>5. QED
    BY <1>1, <1>3, <1>4 DEF ByGVK

\* A word is known when it stands for one type.
LEMMA KnownWords ==
    ASSUME NEW handlers \in Registries, NEW w \in Words
    PROVE  Lookup(handlers, w) # Unknown <=>
               Cardinality(ByName(handlers, LowerCase[w])) = 1
<1> DEFINE name == LowerCase[w]
<1>1. CASE Cardinality(ByName(handlers, name)) = 1
    <2>1. ByName(handlers, name) # {}
        BY <1>1, FS_EmptySet
    <2>2. Entries(handlers, name) # {}
        BY <2>1 DEF ByName
    <2>3. PICK k \in DOMAIN handlers : k = CHOOSE i \in Entries(handlers, name) : TRUE
        BY <2>2 DEF Entries
    <2>4. Lookup(handlers, w) \in Handler
        BY <1>1, <2>3, Served DEF Lookup
    <2>5. QED
        BY <1>1, <2>4, UnknownAssumption
<1>2. CASE Cardinality(ByName(handlers, name)) # 1
    BY <1>2 DEF Lookup
<1>3. QED
    BY <1>1, <1>2

LEMMA RegisteredTwice ==
    ASSUME NEW handlers \in Registries, NEW i \in DOMAIN handlers, NEW name
    PROVE  ByName(Append(handlers, handlers[i]), name) = ByName(handlers, name)
<1> DEFINE more == Append(handlers, handlers[i])
           last == Len(handlers) + 1
<1>1. /\ Len(handlers) \in Nat /\ DOMAIN handlers = 1..Len(handlers)
      /\ handlers[i] \in Handler
    BY DEF Registries
<1>2. /\ DOMAIN more = 1..last /\ more[last] = handlers[i]
      /\ \A j \in DOMAIN handlers : more[j] = handlers[j]
    BY <1>1 DEF Registries
<1>3. Entries(more, name) =
          Entries(handlers, name) \cup (IF i \in Entries(handlers, name) THEN {last} ELSE {})
    BY <1>1, <1>2 DEF Entries
<1>4. Entries(handlers, name) \subseteq DOMAIN handlers
    BY DEF Entries
<1>5. QED
    BY <1>1, <1>2, <1>3, <1>4 DEF ByName

(***************************************************************************)
(* Whatever handlers are registered, in whatever order and however often:  *)
(* registering one again changes no lookup, and a word that stands for one *)
(* type leads to the handler its documents are dispatched to.              *)
(***************************************************************************)
THEOREM LookupsAlwaysAgree == BSpec => []LookupsAgree
<1>1. BTypeOK => LookupsAgree
    <2> SUFFICES ASSUME BTypeOK, NEW i \in DOMAIN registry PROVE
            LET h == registry[i] IN
            /\ \A w \in Words : Lookup(Append(registry, registry[i]), w) # Unknown
                                <=> Lookup(registry, w) # Unknown
            /\ \A w \in {h.gvk.kind} \cup h.aliases :
                \/ Lookup(registry, w) = ByGVK(registry, h.gvk)
                \/ \E j \in DOMAIN registry : /\ registry[j].gvk # h.gvk
                                              /\ LowerCase[w] \in NamesOf(registry[j])
        BY DEF LookupsAgree
    <2> DEFINE h == registry[i]
    <2>1. registry \in Registries /\ h \in Handler
        BY HandlersAssumption DEF BTypeOK, Registries
    <2>2. Append(registry, h) \in Registries
        BY <2>1 DEF Registries
    <2>3. ASSUME NEW w \in Words
          PROVE  Lookup(Append(registry, h), w) # Unknown <=> Lookup(registry, w) # Unknown
        BY <2>1, <2>2, KnownWords, RegisteredTwice
    <2>4. ASSUME NEW w \in {h.gvk.kind} \cup h.aliases,
                 \A j \in DOMAIN registry : LowerCase[w] \in NamesOf(registry[j])
                                            => registry[j].gvk = h.gvk
          PROVE  Lookup(registry, w) = ByGVK(registry, h.gvk)
        <3> DEFINE name == LowerCase[w]
        <3>1. i \in Entries(registry, name)
            BY DEF Entries, NamesOf
        <3>2. \A j \in Entries(registry, name) : registry[j].gvk = h.gvk
            BY <2>4 DEF Entries
        <3>3. ByName(registry, name) = {h.gvk}
            BY <3>1, <3>2 DEF ByName
        <3>4. Cardinality(ByName(registry, name)) = 1
            BY <3>3, FS_Singleton
        <3>5. (CHOOSE j \in Entries(registry, name) : TRUE) \in Entries(registry, name)
            BY <3>1
        <3>6. QED
            BY <3>2, <3>4, <3>5 DEF Lookup
    <2>5. QED
        BY <2>3, <2>4
<1>2. QED
    BY <1>1, BatchTypeCorrect, PTL

-----------------------------------------------------------------------------
(***************************************************************************)
(* One command at a time, over documents that are about different guests:  *)
(* what the command has counted, found and will say of the documents it is *)
(* past, and that the run under way is of the document it is at.           *)
(***************************************************************************)
Servable(doc) == \E handlers \in Handlers : Supports(handlers, doc, "apply")

\* Two documents that can be applied are never about one guest.
DocumentsApart ==
    \A paths \in Inputs : DocumentsIn[paths] # Undecodable =>
        \A i, j \in 1..Len(DocumentsIn[paths]) :
            LET d == DocumentsIn[paths][i]
                e == DocumentsIn[paths][j]
            IN  i # j /\ Servable(d) /\ Servable(e) => Apart(d.manifest, e.manifest)

AtDocument(p) ==
    pc[p] # "idle" => /\ mode[p] = command[p] /\ manifest[p] = Manifested(p, at[p])
                      /\ Supports(registry, objs[p][at[p]], "apply")

AllApart(p) ==
    \A i, j \in Documents(p) :
        i # j /\ Servable(objs[p][i]) /\ Servable(objs[p][j])
            => Apart(Manifested(p, i), Manifested(p, j))

Failing(p) == {i \in 1..at[p] - 1 : ~DocumentHolds(p, i)}

Counted(p) ==
    moves = 0 /\ command[p] = "apply" => Cardinality(Failing(p)) <= failed[p]

Seen(p) ==
    moves = 0 /\ command[p] = "diff" =>
        (found[p] <=> \E i \in 1..at[p] - 1 : ~NoDifference(p, i))

Exited(p) ==
    /\ running[p] => code[p] = None
    /\ ~running[p] /\ code[p] = 0 =>
        /\ at[p] > Len(objs[p])
        /\ IF command[p] = "diff" THEN ~found[p] ELSE failed[p] = 0
    /\ ~running[p] /\ code[p] = 1 /\ command[p] = "diff" => found[p]

KnownOf(p) == AtDocument(p) /\ AllApart(p) /\ Counted(p) /\ Seen(p) /\ Exited(p)

LEMMA FailingFinite ==
    ASSUME BTypeOK, NEW p \in Procs
    PROVE  IsFiniteSet(Failing(p)) /\ Cardinality(Failing(p)) \in Nat
<1>1. at[p] - 1 \in Int /\ Failing(p) \in SUBSET (1..at[p] - 1)
    BY DEF BTypeOK, Failing
<1>2. IsFiniteSet(1..at[p] - 1)
    BY <1>1, FS_Interval
<1>3. IsFiniteSet(Failing(p))
    BY <1>1, <1>2, FS_Subset
<1>4. QED
    BY <1>3, FS_CardinalityType

\* What held before and was not the guest of this run holds after its step.
Spares(p) ==
    moves = 0 /\ command[p] = "apply" =>
        \A i \in 1..at[p] - 1 : DocumentHolds(p, i) => Converged(guests', Manifested(p, i))

LooksOnly(p) == command[p] = "diff" => guests' = guests

LEMMA SameDocument ==
    ASSUME BTypeOK, NEW p \in Procs, AllApart(p), Counted(p), Seen(p),
           moves' = moves, Spares(p), LooksOnly(p),
           registry' = registry, command'[p] = command[p], objs'[p] = objs[p],
           at'[p] = at[p], failed'[p] = failed[p], found'[p] = found[p]
    PROVE  AllApart(p)' /\ Counted(p)' /\ Seen(p)'
<1>1. AllApart(p)'
    BY DEF AllApart, Documents, Manifested
<1>2. Counted(p)'
    <2> SUFFICES ASSUME moves = 0, command[p] = "apply"
                 PROVE  Cardinality(Failing(p)') <= failed[p]
        BY DEF Counted
    <2>1. Failing(p)' \subseteq Failing(p)
        BY DEF Failing, DocumentHolds, Manifested, Spares
    <2>2. Cardinality(Failing(p)') <= Cardinality(Failing(p))
        BY <2>1, FailingFinite, FS_Subset
    <2>3. /\ Cardinality(Failing(p)) \in Nat /\ failed[p] \in Nat
          /\ Cardinality(Failing(p)') \in Nat
        BY <2>1, FailingFinite, FS_Subset, FS_CardinalityType DEF BTypeOK
    <2>4. QED
        BY <2>2, <2>3 DEF Counted
<1>3. Seen(p)'
    BY DEF Seen, LooksOnly, NoDifference, Manifested
<1>4. QED
    BY <1>1, <1>2, <1>3

LEMMA AccountCounts ==
    ASSUME BTypeOK, NEW p \in Procs, KnownOf(p), running[p], at[p] <= Len(objs[p]),
           moves' = moves, pc'[p] = "idle", Spares(p), LooksOnly(p),
           NEW outcome, Account(p, outcome),
           moves = 0 /\ command[p] = "apply" /\ outcome # "failed" =>
               /\ Supports(registry, objs[p][at[p]], "apply")
               /\ Converged(guests', Manifested(p, at[p])),
           moves = 0 /\ command[p] = "diff" /\ outcome # "failed" =>
               (outcome = "differs" <=> ~NoDifference(p, at[p]))
    PROVE  KnownOf(p)'
<1>1. CASE command[p] = "diff" /\ outcome = "failed"
    <2>1. /\ running'[p] = FALSE /\ code'[p] = 2
          /\ UNCHANGED <<registry, command, objs, at, failed, found>>
        BY <1>1 DEF Account, Exit, BTypeOK
    <2>2. AllApart(p)' /\ Counted(p)' /\ Seen(p)'
        BY <2>1, SameDocument DEF KnownOf
    <2>3. QED
        BY <2>1, <2>2 DEF KnownOf, AtDocument, Exited
<1>2. CASE ~(command[p] = "diff" /\ outcome = "failed")
    <2> DEFINE n == at[p]
    <2>1. /\ at'[p] = n + 1 /\ n \in Nat /\ n > 0 /\ failed[p] \in Nat
          /\ failed'[p] = failed[p] + IF outcome = "failed" THEN 1 ELSE 0
          /\ found'[p] = (found[p] \/ outcome = "differs") /\ found[p] \in BOOLEAN
          /\ UNCHANGED <<registry, command, running, objs, code>>
        BY <1>2 DEF Account, BTypeOK
    <2>2. AllApart(p)' /\ AtDocument(p)' /\ Exited(p)'
        BY <2>1 DEF KnownOf, AtDocument, AllApart, Documents, Manifested, Exited
    <2>3. \A i \in 1..n : i < n \/ i = n
        BY <2>1
    <2>4. Counted(p)'
        <3> SUFFICES ASSUME moves = 0, command[p] = "apply"
                     PROVE  Cardinality(Failing(p)') <= failed'[p]
            BY <2>1 DEF Counted
        <3>1. Failing(p)' \subseteq Failing(p) \cup {n}
            BY <2>1, <2>3 DEF Failing, DocumentHolds, Manifested, Spares
        <3>2. outcome # "failed" => Failing(p)' \subseteq Failing(p)
            BY <2>1, <2>3 DEF Failing, DocumentHolds, Manifested, Spares
        <3>3. /\ IsFiniteSet(Failing(p) \cup {n})
              /\ Cardinality(Failing(p) \cup {n}) \in Nat
              /\ Cardinality(Failing(p) \cup {n}) <= Cardinality(Failing(p)) + 1
            <4>1. IsFiniteSet(Failing(p)) /\ Cardinality(Failing(p)) \in Nat
                BY FailingFinite
            <4>2. /\ IsFiniteSet(Failing(p) \cup {n})
                  /\ Cardinality(Failing(p) \cup {n}) =
                        IF n \in Failing(p) THEN Cardinality(Failing(p))
                        ELSE Cardinality(Failing(p)) + 1
                BY <4>1, FS_AddElement
            <4>3. QED
                BY <4>1, <4>2
        <3>4. /\ Cardinality(Failing(p)') \in Nat
              /\ Cardinality(Failing(p)') <= Cardinality(Failing(p) \cup {n})
            BY <3>1, <3>3, FS_Subset, FS_CardinalityType
        <3>5. outcome # "failed" => Cardinality(Failing(p)') <= Cardinality(Failing(p))
            BY <3>2, FailingFinite, FS_Subset
        <3>6. Cardinality(Failing(p)) <= failed[p] /\ Cardinality(Failing(p)) \in Nat
            BY FailingFinite DEF KnownOf, Counted
        <3>7. QED
            BY <2>1, <3>3, <3>4, <3>5, <3>6
    <2>5. Seen(p)'
        <3> SUFFICES ASSUME moves = 0, command[p] = "diff"
                     PROVE  found'[p] <=> \E i \in 1..n : ~NoDifference(p, i)
            <4>1. 1..at'[p] - 1 = 1..n
                BY <2>1
            <4>2. command[p] = "diff" =>
                      \A i \in 1..n : NoDifference(p, i)' <=> NoDifference(p, i)
                BY <2>1 DEF LooksOnly, NoDifference, Manifested
            <4>3. QED
                BY <2>1, <4>1, <4>2 DEF Seen
        <3>1. found[p] <=> \E i \in 1..n - 1 : ~NoDifference(p, i)
            BY DEF KnownOf, Seen
        <3>2. found'[p] <=> found[p] \/ ~NoDifference(p, n)
            BY <1>2, <2>1
        <3>3. QED
            BY <2>1, <2>3, <3>1, <3>2
    <2>6. QED
        BY <2>2, <2>4, <2>5 DEF KnownOf
<1>3. QED
    BY <1>1, <1>2

LEMMA StartsAndExits ==
    ASSUME DocumentsApart, BTypeOK, NEW p \in Procs, KnownOf(p),
           (\E md \in Modes, paths \in Inputs : Launch(p, md, paths)) \/ NoClient(p) \/ End(p)
    PROVE  KnownOf(p)'
<1>1. UNCHANGED <<guests, pc, mode, manifest, moves, registry>> /\ pc[p] = "idle"
    BY DEF Launch, Load, NoClient, End, vars, locals, budgets, BTypeOK
<1>2. AtDocument(p)'
    BY <1>1 DEF AtDocument
<1>3. Spares(p) /\ LooksOnly(p)
    BY <1>1 DEF Spares, LooksOnly, DocumentHolds
<1>4. ASSUME NEW md \in Modes, NEW paths \in Inputs, Launch(p, md, paths)
      PROVE  KnownOf(p)'
    <2> DEFINE documents == DocumentsIn[paths]
               docs == IF Refuses(md, documents) THEN <<>> ELSE documents
    <2>1. /\ command'[p] = md /\ objs'[p] = docs /\ at'[p] = 1
          /\ failed'[p] = 0 /\ found'[p] = FALSE
        BY <1>4 DEF Launch, Load, BTypeOK
    <2>2. IF Refuses(md, documents)
          THEN running'[p] = FALSE /\ code'[p] = ErrorCode(md)
          ELSE running'[p] = TRUE /\ code'[p] = None
        BY <1>4 DEF Launch, Exit, BTypeOK
    <2>3. Exited(p)'
        BY <2>1, <2>2 DEF Exited, ErrorCode
    <2>4. AllApart(p)'
        BY <2>1 DEF AllApart, Documents, Manifested, DocumentsApart, Refuses, Servable
    <2>5. Counted(p)' /\ Seen(p)'
        <3>1. 1..at'[p] - 1 = {}
            BY <2>1
        <3>2. Failing(p)' = {}
            BY <3>1 DEF Failing
        <3>3. QED
            BY <2>1, <3>1, <3>2, FS_EmptySet DEF Counted, Seen
    <2>6. QED
        BY <1>2, <2>3, <2>4, <2>5 DEF KnownOf
<1>5. ASSUME UNCHANGED <<command, objs, at, failed, found>>
      PROVE  AllApart(p)' /\ Counted(p)' /\ Seen(p)'
    BY <1>1, <1>3, <1>5, SameDocument DEF KnownOf
<1>6. CASE NoClient(p)
    <2>1. /\ running'[p] = FALSE /\ code'[p] = ErrorCode(command[p])
          /\ UNCHANGED <<command, objs, at, failed, found>>
        BY <1>6 DEF NoClient, Exit, BTypeOK
    <2>2. Exited(p)'
        BY <2>1 DEF Exited, ErrorCode
    <2>3. QED
        BY <1>2, <1>5, <2>1, <2>2 DEF KnownOf
<1>7. CASE End(p)
    <2>1. /\ running'[p] = FALSE /\ code'[p] = ExitStatus(p) /\ at[p] > Len(objs[p])
          /\ UNCHANGED <<command, objs, at, failed, found>>
        BY <1>7 DEF End, Exit, BTypeOK
    <2>2. failed[p] \in Nat /\ found[p] \in BOOLEAN
        BY DEF BTypeOK
    <2>3. Exited(p)'
        BY <2>1, <2>2 DEF Exited, ExitStatus
    <2>4. QED
        BY <1>2, <1>5, <2>1, <2>3 DEF KnownOf
<1>8. QED
    BY <1>4, <1>6, <1>7

LEMMA UnsupportedCounts ==
    ASSUME BTypeOK, NEW p \in Procs, KnownOf(p), Unsupported(p)
    PROVE  KnownOf(p)'
<1>1. /\ UNCHANGED <<guests, pc, moves>> /\ pc'[p] = "idle" /\ running[p]
      /\ at[p] <= Len(objs[p]) /\ Account(p, "failed")
    BY DEF Unsupported, Waiting, vars, locals, budgets
<1>2. Spares(p) /\ LooksOnly(p)
    BY <1>1 DEF Spares, LooksOnly, DocumentHolds
<1>3. QED
    BY <1>1, <1>2, AccountCounts

\* The run of a document is begun, or refused before its first call.
LEMMA DocumentBegins ==
    ASSUME IInv, BTypeOK, NEW p \in Procs, KnownOf(p), BeginDocument(p) \/ RejectDocument(p)
    PROVE  KnownOf(p)'
<1> DEFINE m == objs[p][at[p]].manifest
           md == command[p]
<1>1. /\ running[p] /\ pc[p] = "idle" /\ at[p] <= Len(objs[p])
      /\ Supports(registry, objs[p][at[p]], "apply")
      /\ Begin(p, m, md) \/ Reject(p, m, md)
      /\ Along(p)
    BY DEF BeginDocument, RejectDocument, Waiting
<1>2. /\ guests' = guests /\ moves' = moves /\ manifest'[p] = m /\ mode'[p] = md
      /\ \/ pc'[p] = "idle" /\ result'[p] = "validated" /\ md = "client"
         \/ pc'[p] = "idle" /\ result'[p] = "failed"
         \/ pc'[p] = "resolve"
    BY <1>1 DEF Begin, Reject, Goto, budgets, IInv, LocalsOK
<1>3. Spares(p) /\ LooksOnly(p)
    BY <1>2 DEF Spares, LooksOnly, DocumentHolds
<1>4. CASE pc'[p] = "idle"
    <2>1. Account(p, result'[p])
        BY <1>1, <1>4 DEF Along
    <2>2. QED
        BY <1>1, <1>2, <1>3, <1>4, <2>1, AccountCounts
<1>5. CASE pc'[p] # "idle"
    <2>1. UNCHANGED loop
        BY <1>1, <1>5 DEF Along
    <2>2. AtDocument(p)'
        BY <1>1, <1>2, <1>5, <2>1 DEF AtDocument, Manifested, loop
    <2>3. AllApart(p)' /\ Counted(p)' /\ Seen(p)'
        BY <1>2, <1>3, <2>1, SameDocument DEF KnownOf, loop
    <2>4. Exited(p)'
        BY <2>1 DEF KnownOf, Exited, loop
    <2>5. QED
        BY <2>2, <2>3, <2>4 DEF KnownOf
<1>6. QED
    BY <1>4, <1>5

\* What a step of the document's run does to the other documents, and says.
LEMMA RunSpares ==
    ASSUME IInv, BTypeOK, NEW p \in Procs, AtDocument(p), AllApart(p), pc[p] # "idle",
           moves = 0 => Ready(p), Step(p) \/ Fail(p)
    PROVE  Spares(p) /\ LooksOnly(p)
<1>1. /\ at[p] <= Len(objs[p]) /\ at[p] \in Nat /\ registry \in Handlers
      /\ manifest[p] = Manifested(p, at[p]) /\ Servable(objs[p][at[p]])
      /\ mode[p] = command[p] /\ Len(objs[p]) \in Nat
    BY DEF BTypeOK, AtDocument, Servable
<1>2. ASSUME moves = 0, NEW i \in 1..at[p] - 1, DocumentHolds(p, i)
      PROVE  Converged(guests', Manifested(p, i))
    <2>1. i \in Documents(p) /\ at[p] \in Documents(p) /\ i # at[p]
        BY <1>1 DEF Documents, BTypeOK
    <2>2. Servable(objs[p][i])
        BY <1>1, <1>2 DEF Servable, DocumentHolds
    <2>3. Apart(manifest[p], Manifested(p, i))
        BY <1>1, <2>1, <2>2 DEF AllApart
    <2>4. Manifested(p, i) \in Manifests
        <3>1. objs[p] \in Seq(Decoded) /\ i \in 1..Len(objs[p])
            BY <2>1 DEF BTypeOK, Documents
        <3>2. objs[p][i] \in Decoded
            BY <3>1
        <3>3. QED
            BY <3>2 DEF Manifested, Decoded
    <2>5. QED
        BY <1>2, <2>3, <2>4, ApartSpares DEF DocumentHolds
<1>3. ASSUME command[p] = "diff"
      PROVE  guests' = guests
    BY <1>1, <1>3, OnlyCallsChange, Locals DEF Creating, Writing
<1>4. QED
    BY <1>2, <1>3 DEF Spares, LooksOnly

LEMMA RunKnown ==
    ASSUME CreatesInFull, IInv, BTypeOK, tasks = {}, NEW p \in Procs, KnownOf(p),
           moves = 0 => Ready(p), Step(p) \/ Fail(p), Along(p), running[p]
    PROVE  KnownOf(p)'
<1>1. /\ pc[p] # "idle" /\ at[p] <= Len(objs[p])
      /\ mode[p] = command[p] /\ manifest[p] = Manifested(p, at[p])
      /\ Supports(registry, objs[p][at[p]], "apply")
    BY StepsAreBusy DEF KnownOf, AtDocument, BTypeOK
<1>2. moves' = moves /\ mode'[p] = mode[p] /\ manifest'[p] = manifest[p]
    BY NoTasksStay, StepKeepsMode
<1>3. Spares(p) /\ LooksOnly(p)
    BY <1>1, RunSpares DEF KnownOf
<1>4. CASE pc'[p] = "idle"
    <2>1. Account(p, result'[p]) /\ Ends(p)
        BY <1>1, <1>4 DEF Along, Ends
    <2>2. ASSUME moves = 0, command[p] = "apply", result'[p] # "failed"
          PROVE  Converged(guests', Manifested(p, at[p]))
        <3>1. Succeeds(p)
            BY <1>1, <2>1, <2>2, ApplyAnswers DEF Succeeds
        <3>2. QED
            BY <1>1, <2>2, <3>1, StepArrives DEF Arrives
    <2>3. ASSUME moves = 0, command[p] = "diff", result'[p] # "failed"
          PROVE  result'[p] = "differs" <=> ~NoDifference(p, at[p])
        <3>1. NoDifference(p, at[p]) <=> ~Differs(guests, manifest[p])
            BY <1>1 DEF NoDifference, Differs
        <3>2. QED
            BY <1>1, <2>1, <2>3, <3>1, DiffAnswers
    <2>4. QED
        BY <1>1, <1>2, <1>3, <1>4, <2>1, <2>2, <2>3, AccountCounts
<1>5. CASE pc'[p] # "idle"
    <2>1. UNCHANGED loop
        BY <1>5 DEF Along
    <2>2. AtDocument(p)'
        BY <1>1, <1>2, <2>1 DEF AtDocument, Manifested, loop
    <2>3. AllApart(p)' /\ Counted(p)' /\ Seen(p)'
        BY <1>2, <1>3, <2>1, SameDocument DEF KnownOf, loop
    <2>4. Exited(p)'
        BY <2>1 DEF KnownOf, Exited, loop
    <2>5. QED
        BY <2>2, <2>3, <2>4 DEF KnownOf
<1>6. QED
    BY <1>4, <1>5

LEMMA KilledKnown ==
    ASSUME IInv, BTypeOK, tasks = {}, NEW p \in Procs, KnownOf(p),
           moves = 0 => Ready(p), Fail(p), Killed(p)
    PROVE  KnownOf(p)'
<1>1. pc[p] # "idle" /\ pc'[p] = "idle" /\ moves' = moves
    BY EndsIdle, StepsAreBusy, NoTasksStay
<1>2. Spares(p) /\ LooksOnly(p)
    BY <1>1, RunSpares DEF KnownOf
<1>3. /\ running[p] /\ running'[p] = FALSE
      /\ UNCHANGED <<registry, command, objs, at, failed, found, code>>
    BY DEF Killed, BTypeOK
<1>4. AllApart(p)' /\ Counted(p)' /\ Seen(p)'
    BY <1>1, <1>2, <1>3, SameDocument DEF KnownOf
<1>5. Exited(p)'
    BY <1>3, StatusAssumption DEF KnownOf, Exited
<1>6. QED
    BY <1>1, <1>4, <1>5 DEF KnownOf, AtDocument

AllKnown == \A p \in Procs : KnownOf(p)

LEMMA KnownStays ==
    ASSUME OneAtATime, CreatesInFull, DocumentsApart
    PROVE  BSpec => []AllKnown
<1>1. BInit => AllKnown
    <2> SUFFICES ASSUME BInit, NEW p \in Procs PROVE KnownOf(p)
        BY DEF AllKnown
    <2>1. /\ pc[p] = "idle" /\ ~running[p] /\ objs[p] = <<>> /\ at[p] = 1
          /\ failed[p] = 0 /\ found[p] = FALSE /\ code[p] = None
        BY DEF BInit, Init
    <2>2. 1..at[p] - 1 = {} /\ 1..Len(objs[p]) = {}
        BY <2>1
    <2>3. Failing(p) = {}
        BY <2>2 DEF Failing
    <2>4. Counted(p) /\ Seen(p)
        BY <2>1, <2>2, <2>3, FS_EmptySet DEF Counted, Seen
    <2>5. QED
        BY <2>1, <2>2, <2>4, StatusAssumption
           DEF KnownOf, AtDocument, AllApart, Documents, Exited
<1>2. BIInv /\ Alone /\ Aware /\ AllKnown /\ [BNext]_bvars => AllKnown'
    <2> SUFFICES ASSUME BIInv, Alone, Aware, AllKnown, [BNext]_bvars, NEW p \in Procs
                 PROVE  KnownOf(p)'
        BY DEF AllKnown
    <2>1. /\ IInv /\ BTypeOK /\ tasks = {} /\ Procs = {p} /\ KnownOf(p)
          /\ moves = 0 => Ready(p)
        BY DEF BIInv, Alone, Aware, AllKnown, OneAtATime
    <2>2. ~TimeOut(p)
        BY <2>1 DEF TimeOut, OneAtATime, IInv, BudgetsOK
    <2>3. CASE UNCHANGED bvars
        BY <2>1, <2>3
           DEF bvars, vars, locals, budgets, loop, KnownOf, AtDocument, AllApart, Documents,
               Manifested, Counted, Failing, DocumentHolds, Seen, NoDifference, Exited
    <2>4. CASE SomebodyElse
        <3>1. moves' # 0 /\ UNCHANGED <<loop, locals>>
            BY <2>1, <2>4 DEF SomebodyElse, Operator, IInv, BudgetsOK
        <3>2. QED
            BY <2>1, <3>1
               DEF locals, loop, KnownOf, AtDocument, AllApart, Documents, Manifested,
                   Counted, Seen, Exited
    <2>5. CASE LateTask
        BY <2>1, <2>5 DEF LateTask
    <2>6. CASE Command(p)
        <3>1. CASE Work(p) \/ FailDocument(p)
            BY <2>1, <2>2, <3>1, RunKnown DEF Work, FailDocument
        <3>2. CASE Killed(p)
            BY <2>1, <2>2, <3>2, KilledKnown DEF Killed
        <3>3. QED
            BY <2>1, <2>6, <3>1, <3>2, StartsAndExits, UnsupportedCounts, DocumentBegins
               DEF Command
    <2>7. QED
        BY <2>1, <2>3, <2>4, <2>5, <2>6 DEF BNext
<1>3. BSpec => []Alone /\ []Aware
    BY BatchRefines, AloneStays, AwareStays, PTL
<1>4. QED
    BY <1>1, <1>2, <1>3, BatchInvariance, PTL DEF BSpec

(***************************************************************************)
(* One command at a time and nobody else at work: an apply over documents  *)
(* about different guests has counted a failure for each document it is    *)
(* past that is not as declared, whatever fails and whatever follows, for  *)
(* every input whose manifests creation carries out in full, registry and  *)
(* cluster.                                                                *)
(***************************************************************************)
THEOREM FailuresAreAllCounted ==
    ASSUME OneAtATime, CreatesInFull, DocumentsApart
    PROVE  BSpec => []FailuresAreCounted
<1>1. AllKnown => FailuresAreCounted
    BY DEF AllKnown, KnownOf, Counted, Failing, FailuresAreCounted, Undisturbed
<1>2. QED
    BY <1>1, KnownStays, PTL

(***************************************************************************)
(* Under the same conditions the exit status tells of the cluster: apply   *)
(* exits 0 only when every document is as declared, diff exits 0 only when *)
(* nothing differs and 1 only when something does.                         *)
(***************************************************************************)
THEOREM ExitStatusTellsTheCluster ==
    ASSUME OneAtATime, CreatesInFull, DocumentsApart
    PROVE  BSpec => []ExitTellsTheCluster
<1>1. BTypeOK /\ AllKnown => ExitTellsTheCluster
    <2> SUFFICES ASSUME BTypeOK, NEW p \in Procs, KnownOf(p), moves = 0, ~running[p]
                 PROVE  /\ command[p] = "apply" /\ code[p] = 0 =>
                            \A i \in Documents(p) : DocumentHolds(p, i)
                        /\ command[p] = "diff" /\ code[p] = 0 =>
                            \A i \in Documents(p) : NoDifference(p, i)
                        /\ command[p] = "diff" /\ code[p] = 1 =>
                            \E i \in Documents(p) : ~NoDifference(p, i)
        BY DEF AllKnown, ExitTellsTheCluster, Undisturbed
    <2>1. /\ at[p] \in Nat /\ Len(objs[p]) \in Nat /\ at[p] <= Len(objs[p]) + 1
          /\ failed[p] \in Nat
        BY DEF BTypeOK
    <2>2. 1..at[p] - 1 \subseteq Documents(p)
        BY <2>1 DEF Documents
    <2>3. at[p] > Len(objs[p]) => 1..at[p] - 1 = Documents(p)
        BY <2>1 DEF Documents
    <2>4. ASSUME command[p] = "apply", code[p] = 0
          PROVE  \A i \in Documents(p) : DocumentHolds(p, i)
        <3>1. at[p] > Len(objs[p]) /\ failed[p] = 0
            BY <2>4 DEF KnownOf, Exited
        <3>2. Cardinality(Failing(p)) = 0
            BY <2>4, <3>1, FailingFinite DEF KnownOf, Counted
        <3>3. Failing(p) = {}
            BY <3>2, FailingFinite, FS_EmptySet
        <3>4. QED
            BY <2>3, <3>1, <3>3 DEF Failing
    <2>5. ASSUME command[p] = "diff", code[p] = 0
          PROVE  \A i \in Documents(p) : NoDifference(p, i)
        BY <2>3, <2>5 DEF KnownOf, Exited, Seen
    <2>6. ASSUME command[p] = "diff", code[p] = 1
          PROVE  \E i \in Documents(p) : ~NoDifference(p, i)
        BY <2>2, <2>6 DEF KnownOf, Exited, Seen
    <2>7. QED
        BY <2>4, <2>5, <2>6
<1>2. QED
    BY <1>1, KnownStays, BatchTypeCorrect, PTL
=============================================================================
