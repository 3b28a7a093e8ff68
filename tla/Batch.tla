------------------------------- MODULE Batch -------------------------------
(***************************************************************************)
(* pvectl apply -f and pvectl diff -f over several documents (cmd/apply.go *)
(* and cmd/diff.go), down to the exit status (cmd/root.go).  Every         *)
(* document is a run of VMApply; this module adds the loop around them:    *)
(* apply counts the documents that fail and goes on, diff stops at the     *)
(* first error.                                                            *)
(***************************************************************************)
EXTENDS VMApplyProperties, Registry, Documents

CONSTANTS
    Inputs,       \* what -f names: sequences of paths
    Handlers,     \* the registries a pvectl may be built with
    MaxOutages    \* bound: commands that get no client

Decoded == [form : {"object"}, apiVersion : Seq(STRING), kind : STRING,
            manifest : Manifests]

\* What each input decodes to.
DocumentsIn == [paths \in Inputs |-> DecodeFiles(paths)]

ASSUME InputsAssumption ==
    \A paths \in Inputs : DocumentsIn[paths] \in Seq(Decoded) \cup {Undecodable}

ASSUME HandlersAssumption == Handlers \subseteq Registries
ASSUME OutagesAssumption == MaxOutages \in Nat
ASSUME StatusAssumption == None \notin {0, 1, 2}

VARIABLES
    registry,   \* the registry of this pvectl
    command,    \* process -> the command it runs: a mode of VMApply
    running,    \* process -> it has not exited
    objs,       \* process -> the documents it works through
    at,         \* process -> the document it is at
    failed,     \* process -> documents that failed
    found,      \* process -> diff found a difference
    code,       \* process -> exit status of its last command, if it exited
    outages     \* how much of the bound is used

loop == <<registry, command, running, objs, at, failed, found, code, outages>>
bvars == <<vars, loop>>

BTypeOK ==
    /\ registry \in Handlers
    /\ outages \in 0..MaxOutages
    /\ command \in [Procs -> Modes]
    /\ running \in [Procs -> BOOLEAN]
    /\ found \in [Procs -> BOOLEAN]
    /\ code \in [Procs -> {0, 1, 2} \cup {None}]
    /\ objs \in [Procs -> Seq(Decoded)]
    /\ at \in [Procs -> Nat]
    /\ failed \in [Procs -> Nat]
    /\ \A p \in Procs :
        /\ at[p] \in 1..Len(objs[p]) + 1
        /\ failed[p] <= at[p] - 1
        /\ pc[p] # "idle" => running[p] /\ at[p] <= Len(objs[p])

BInit ==
    /\ Init
    /\ registry \in Handlers
    /\ command = mode
    /\ running = [p \in Procs |-> FALSE]
    /\ objs = [p \in Procs |-> <<>>]
    /\ at = [p \in Procs |-> 1]
    /\ failed = [p \in Procs |-> 0]
    /\ found = [p \in Procs |-> FALSE]
    /\ code = [p \in Procs |-> None]
    /\ outages = 0

-----------------------------------------------------------------------------
(***************************************************************************)
(* Starting and leaving.                                                   *)
(***************************************************************************)
ErrorCode_AlwaysOne(md) == 1

\* An error that ends the command; diff keeps 1 for "differences found".
ErrorCode(md) == IF md = "diff" THEN 2 ELSE 1

Exit(p, status) ==
    /\ running' = [running EXCEPT ![p] = FALSE]
    /\ code' = [code EXCEPT ![p] = status]

Load_KeepsCount(p, md, documents) ==
    /\ command' = [command EXCEPT ![p] = md]
    /\ objs' = [objs EXCEPT ![p] = documents]
    /\ at' = [at EXCEPT ![p] = 1]
    /\ found' = [found EXCEPT ![p] = FALSE]
    /\ UNCHANGED <<registry, failed, outages>>

Load(p, md, documents) ==
    /\ command' = [command EXCEPT ![p] = md]
    /\ objs' = [objs EXCEPT ![p] = documents]
    /\ at' = [at EXCEPT ![p] = 1]
    /\ failed' = [failed EXCEPT ![p] = 0]
    /\ found' = [found EXCEPT ![p] = FALSE]
    /\ UNCHANGED <<registry, outages>>

\* Input that apply refuses as a whole; to diff, no documents are in sync.
Refuses(md, documents) ==
    documents = Undecodable \/ (documents # Undecodable /\ documents = <<>> /\ md # "diff")

Launch(p, md, paths) ==
    /\ ~running[p] /\ pc[p] = "idle"
    /\ LET documents == DocumentsIn[paths] IN
       IF Refuses(md, documents)
       THEN Load(p, md, <<>>) /\ Exit(p, ErrorCode(md))
       ELSE /\ Load(p, md, documents)
            /\ running' = [running EXCEPT ![p] = TRUE]
            /\ code' = [code EXCEPT ![p] = None]
    /\ UNCHANGED vars

\* No config, an unknown context, a login refused: nothing was sent.
NoClient(p) ==
    /\ running[p] /\ at[p] = 1 /\ pc[p] = "idle"
    /\ command[p] # "client"
    /\ outages < MaxOutages /\ outages' = outages + 1
    /\ Exit(p, ErrorCode(command[p]))
    /\ UNCHANGED <<vars, registry, command, objs, at, failed, found>>

ExitStatus(p) ==
    CASE command[p] # "diff" /\ failed[p] > 0 -> 1
      [] command[p] = "diff" /\ found[p] -> 1
      [] OTHER -> 0

End(p) ==
    /\ running[p] /\ at[p] > Len(objs[p])
    /\ Exit(p, ExitStatus(p))
    /\ UNCHANGED <<vars, registry, command, objs, at, failed, found, outages>>

-----------------------------------------------------------------------------
(***************************************************************************)
(* One document after the other.                                           *)
(***************************************************************************)
Account_LastOnly(p, outcome) ==
    CASE command[p] = "diff" /\ outcome = "failed" ->
            Exit(p, 2) /\ UNCHANGED <<registry, command, objs, at, failed, found, outages>>
      [] OTHER ->
            /\ at' = [at EXCEPT ![p] = at[p] + 1]
            /\ failed' = [failed EXCEPT ![p] = IF outcome = "failed" THEN 1 ELSE 0]
            /\ found' = [found EXCEPT ![p] = found[p] \/ outcome = "differs"]
            /\ UNCHANGED <<registry, command, running, objs, code, outages>>

Account_StopsAtFirst(p, outcome) ==
    CASE outcome = "failed" ->
            /\ Exit(p, ErrorCode(command[p]))
            /\ UNCHANGED <<registry, command, objs, at, failed, found, outages>>
      [] OTHER ->
            /\ at' = [at EXCEPT ![p] = at[p] + 1]
            /\ found' = [found EXCEPT ![p] = found[p] \/ outcome = "differs"]
            /\ UNCHANGED <<registry, command, running, objs, failed, code, outages>>

\* The document is done with; diff leaves at its first error.
Account(p, outcome) ==
    CASE command[p] = "diff" /\ outcome = "failed" ->
            Exit(p, 2) /\ UNCHANGED <<registry, command, objs, at, failed, found, outages>>
      [] OTHER ->
            /\ at' = [at EXCEPT ![p] = at[p] + 1]
            /\ failed' = [failed EXCEPT ![p] =
                            failed[p] + IF outcome = "failed" THEN 1 ELSE 0]
            /\ found' = [found EXCEPT ![p] = found[p] \/ outcome = "differs"]
            /\ UNCHANGED <<registry, command, running, objs, code, outages>>

\* A step of the document's run; at its end the command takes account of it.
Along(p) ==
    IF pc'[p] = "idle" THEN Account(p, result'[p]) ELSE UNCHANGED loop

Waiting(p) == running[p] /\ pc[p] = "idle" /\ at[p] <= Len(objs[p])

Unsupported(p) ==
    /\ Waiting(p)
    /\ ~Supports(registry, objs[p][at[p]], "apply")
    /\ Account(p, "failed")
    /\ UNCHANGED vars

BeginDocument(p) ==
    /\ Waiting(p)
    /\ Supports(registry, objs[p][at[p]], "apply")
    /\ Begin(p, objs[p][at[p]].manifest, command[p])
    /\ Along(p)

RejectDocument(p) ==
    /\ Waiting(p)
    /\ Supports(registry, objs[p][at[p]], "apply")
    /\ Reject(p, objs[p][at[p]].manifest, command[p])
    /\ Along(p)

Work(p) == running[p] /\ Step(p) /\ Along(p)

\* A call fails, or its task outlives --timeout: the document has failed and
\* the next one is begun while the task may still be running.
FailDocument(p) == running[p] /\ (Fail(p) \/ TimeOut(p)) /\ Along(p)

Killed_KeepsPlan(p) ==
    /\ running[p] /\ pc[p] # "idle"
    /\ pc' = [pc EXCEPT ![p] = "idle"]
    /\ result' = [result EXCEPT ![p] = "failed"]
    /\ running' = [running EXCEPT ![p] = FALSE]
    /\ UNCHANGED <<guests, tasks, manifest, mode, ref, source, plan, budgets>>
    /\ UNCHANGED <<registry, command, objs, at, failed, found, code, outages>>

\* The process is killed (nothing catches an interrupt): no exit status, and
\* a task under way goes on.
Killed(p) ==
    /\ running[p] /\ (Fail(p) \/ TimeOut(p))
    /\ running' = [running EXCEPT ![p] = FALSE]
    /\ UNCHANGED <<registry, command, objs, at, failed, found, code, outages>>

Command(p) ==
    \/ \E md \in Modes, paths \in Inputs : Launch(p, md, paths)
    \/ NoClient(p) \/ End(p)
    \/ Unsupported(p) \/ BeginDocument(p) \/ RejectDocument(p)
    \/ Work(p) \/ FailDocument(p) \/ Killed(p)

LateTask == (\E c \in tasks : TaskEnds(c)) /\ UNCHANGED loop

SomebodyElse == (\E v \in VMIDs : Operator(v)) /\ UNCHANGED loop

BNext == LateTask \/ SomebodyElse \/ \E p \in Procs : Command(p)

BSpec == BInit /\ [][BNext]_bvars

(***************************************************************************)
(* A command that runs goes on to its end, a task on the cluster ends, and *)
(* every input there is something to apply in is applied again and again.  *)
(***************************************************************************)
Applicable == {paths \in Inputs : ~Refuses("apply", DocumentsIn[paths])}

BFairness ==
    /\ \A p \in Procs : WF_bvars(Work(p) \/ BeginDocument(p) \/ Unsupported(p) \/ End(p))
    /\ \A paths \in Applicable : SF_bvars(\E p \in Procs : Launch(p, "apply", paths))
    /\ WF_bvars(LateTask)

BFairSpec == BSpec /\ BFairness
=============================================================================
