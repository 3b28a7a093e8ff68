----------------------------- MODULE Exec_proofs -----------------------------
(***************************************************************************)
(* Exec, for every set of exit codes and signals: it is well typed, its    *)
(* exit status never turns a failure into success, and it implements       *)
(* RemoteCommand.                                                          *)
(***************************************************************************)
EXTENDS Exec, TLAPS

(***************************************************************************)
(* What a goroutine holds or has sent about the end of the command is how  *)
(* it ended, and an exec that has not been served has started nothing.     *)
(***************************************************************************)
Truthful ==
    /\ reply \in Outcome => command = reply
    /\ channel \in Outcome => command = channel
    /\ result \in Outcome => command = result

OneStart == worker = "calling" /\ call = "exec" => command = Unsent

OneAnswer == pc # "done" => result = Pending

IInv == TypeOK /\ Truthful /\ OneStart /\ OneAnswer

LEMMA Initially == Init => IInv
  BY NoneAssumption DEF Init, IInv, TypeOK, Truthful, OneStart, OneAnswer, Results,
     Replies, Outcome, Fact, Unsent, Pending

LEMMA Inductive == IInv /\ [Next]_vars => IInv'
<1> SUFFICES ASSUME IInv, [Next]_vars
             PROVE  IInv'
  OBVIOUS
<1> USE NoneAssumption DEF IInv, TypeOK, Truthful, OneStart, OneAnswer, Results,
        Replies, Outcome, Fact, Unsent, Running, Pending, Pid, Error, Timeout,
        Deadline, Return, Spawn
<1>1. CASE CommandEnds
  BY <1>1 DEF CommandEnds
<1>2. CASE Expire
  BY <1>2 DEF Expire
<1>3. CASE ServeExec
  BY <1>3 DEF ServeExec
<1>4. CASE ServeStatus
  BY <1>4 DEF ServeStatus
<1>5. CASE CallReturns
  BY <1>5 DEF CallReturns
<1>6. CASE CallFails
  BY <1>6 DEF CallFails
<1>7. CASE Send
  BY <1>7 DEF Send
<1>8. CASE ReceivePid
  BY <1>8 DEF ReceivePid
<1>9. CASE Poll
  BY <1>9 DEF Poll
<1>10. CASE ReceiveStatus
  BY <1>10 DEF ReceiveStatus
<1>11. CASE Leaving
  BY <1>11 DEF Leaving, AbandonExec, AbandonStatus, GiveUp
<1>12. CASE UNCHANGED vars
  BY <1>12 DEF vars
<1> QED
  BY <1>1, <1>2, <1>3, <1>4, <1>5, <1>6, <1>7, <1>8, <1>9, <1>10, <1>11, <1>12
     DEF Next, Calling, Waiting

THEOREM ExecInvariance == Spec => []IInv
<1>1. Init => IInv
  BY Initially
<1>2. IInv /\ [Next]_vars => IInv'
  BY Inductive
<1> QED
  BY <1>1, <1>2, PTL DEF Spec

(***************************************************************************)
(* Every variable keeps its type: in particular ExecWait returns an error  *)
(* or the end of the command, never a status of a command that runs on.    *)
(***************************************************************************)
THEOREM ExecTypeCorrect == Spec => []TypeOK
<1>1. IInv => TypeOK
  BY DEF IInv
<1> QED
  BY <1>1, ExecInvariance, PTL

-----------------------------------------------------------------------------
(***************************************************************************)
(* The exit status.                                                        *)
(***************************************************************************)
LEMMA ExitCodeRange == ASSUME NEW c \in Int PROVE ExitCode(c) \in 1..255
  BY DEF ExitCode

LEMMA SignalNumber ==
  ASSUME NEW r \in [by : {"signal"}, number : Signals]
  PROVE  128 + r.number \in Int
<1>1. r.number \in Signals
  OBVIOUS
<1>2. r.number \in Nat
  BY <1>1, SignalsAssumption
<1> QED
  BY <1>2

LEMMA StatusRange == ASSUME NEW r \in Results PROVE ExitStatus(r) \in 0..255
<1>1. CASE r \in [by : {"signal"}, number : Signals]
  <2>1. r.by = "signal" /\ 128 + r.number \in Int
    BY <1>1, SignalNumber
  <2>2. ExitStatus(r) = ExitCode(128 + r.number)
    BY <1>1, <2>1 DEF ExitStatus, Outcome
  <2> QED
    BY <2>1, <2>2, ExitCodeRange
<1>2. CASE r \in [by : {"exit"}, number : Codes]
  <2>1. r.by = "exit" /\ r.number \in Int
    BY <1>2, CodesAssumption
  <2>2. ExitStatus(r) \in {0, ExitCode(r.number)}
    BY <1>2, <2>1 DEF ExitStatus, Outcome
  <2> QED
    BY <2>1, <2>2, ExitCodeRange
<1>3. CASE r \notin Outcome
  BY <1>3 DEF ExitStatus
<1> QED
  BY <1>1, <1>2, <1>3 DEF Outcome

LEMMA ZeroIsZero ==
  ASSUME NEW r \in Results, ExitStatus(r) = 0
  PROVE  r = [by |-> "exit", number |-> 0]
<1>1. r \in Outcome
  BY DEF ExitStatus
<1>2. r.by # "signal"
  <2> SUFFICES ASSUME r.by = "signal" PROVE FALSE
    OBVIOUS
  <2>1. r \in [by : {"signal"}, number : Signals]
    BY <1>1 DEF Outcome
  <2>2. ExitStatus(r) = ExitCode(128 + r.number)
    BY <1>1 DEF ExitStatus
  <2> QED
    BY <2>1, <2>2, SignalNumber, ExitCodeRange
<1>3. r \in [by : {"exit"}, number : Codes] /\ r.number \in Int
  BY <1>1, <1>2, CodesAssumption DEF Outcome
<1>4. r.number = 0
  BY <1>1, <1>3, ExitCodeRange DEF ExitStatus
<1> QED
  BY <1>3, <1>4

(***************************************************************************)
(* pvectl exits with 0 only if the command ended with 0, and always with   *)
(* a number a process can exit with, whatever codes and signals there are. *)
(***************************************************************************)
THEOREM SuccessIsSuccess == Spec => []SuccessIsTheCommands
<1>1. IInv => SuccessIsTheCommands
  <2> SUFFICES ASSUME IInv, pc = "done"
               PROVE  /\ ExitStatus(result) \in 0..255
                      /\ ExitStatus(result) = 0 =>
                            command = [by |-> "exit", number |-> 0]
    BY DEF SuccessIsTheCommands
  <2>1. result \in Results
    BY DEF IInv, TypeOK
  <2>2. ExitStatus(result) \in 0..255
    BY <2>1, StatusRange
  <2>3. ASSUME ExitStatus(result) = 0
        PROVE  command = [by |-> "exit", number |-> 0]
    <3>1. result \in Outcome
      BY <2>3 DEF ExitStatus
    <3> QED
      BY <2>1, <2>3, <3>1, ZeroIsZero DEF IInv, Truthful
  <2> QED
    BY <2>2, <2>3
<1> QED
  BY <1>1, ExecInvariance, PTL

-----------------------------------------------------------------------------
(***************************************************************************)
(* Refinement.                                                             *)
(***************************************************************************)
LEMMA PromiseStart == Init => Promise!Init
  BY DEF Init, Promise!Init, Verdict, Pending, Timeout, Deadline, Fact

LEMMA PromiseStep ==
  IInv /\ [Next]_vars => [Promise!Next]_<<command, Verdict>>
<1> SUFFICES ASSUME IInv, [Next]_vars
             PROVE  Promise!Next \/ UNCHANGED <<command, Verdict>>
  OBVIOUS
<1> USE DEF IInv, TypeOK, Truthful, OneStart, OneAnswer
<1>1. CASE CommandEnds
  BY <1>1 DEF CommandEnds, Verdict, Promise!Next, Promise!End
<1>2. CASE ServeExec
  BY <1>2 DEF ServeExec, Verdict, Promise!Next, Promise!Start
<1>3. ASSUME result' = result, command' = command
      PROVE  UNCHANGED <<command, Verdict>>
  BY <1>3 DEF Verdict
<1>4. CASE Expire \/ ServeStatus \/ CallReturns \/ CallFails \/ Send \/ Poll
           \/ UNCHANGED vars
  BY <1>3, <1>4 DEF Expire, ServeStatus, CallReturns, CallFails, Send, Poll, vars
<1>5. ASSUME pc # "done", command' = command,
             result' \in {Error, Timeout, Deadline}
      PROVE  Promise!GiveUp
  BY <1>5 DEF Promise!GiveUp, Verdict, Fact, Pending, Error, Timeout, Deadline
<1>6. ASSUME pc # "done", command' = command,
             result' \in Outcome, command = result'
      PROVE  Promise!Answer
  BY <1>6 DEF Promise!Answer, Verdict, Fact, Pending, Timeout, Deadline, Outcome
<1>7. CASE ReceivePid
  BY <1>3, <1>5, <1>7 DEF ReceivePid, Return, Promise!Next
<1>8. CASE ReceiveStatus
  <2>1. pc # "done" /\ command' = command
    BY <1>8 DEF ReceiveStatus
  <2>2. CASE channel = Error
    <3>1. result' \in {Error, Timeout}
      BY <1>8, <2>2 DEF ReceiveStatus, Return
    <3> QED
      BY <1>5, <2>1, <3>1 DEF Promise!Next
  <2>3. CASE channel # Error /\ channel \in Outcome
    <3>1. result' = channel /\ command = channel
      BY <1>8, <2>3 DEF ReceiveStatus, Return
    <3> QED
      BY <1>6, <2>1, <2>3, <3>1 DEF Promise!Next
  <2>4. CASE channel # Error /\ channel \notin Outcome
    <3>1. result' = result
      BY <1>8, <2>4 DEF ReceiveStatus
    <3> QED
      BY <1>3, <2>1, <3>1
  <2> QED
    BY <2>2, <2>3, <2>4
<1>9. CASE Leaving
  BY <1>5, <1>9 DEF Leaving, AbandonExec, AbandonStatus, GiveUp, Return, Promise!Next
<1> QED
  BY <1>1, <1>2, <1>4, <1>7, <1>8, <1>9 DEF Next, Calling, Waiting

(***************************************************************************)
(* ExecWait implements RemoteCommand: whatever is lost, late or abandoned, *)
(* the command is started at most once and what is reported as its end is  *)
(* how it ended.                                                           *)
(***************************************************************************)
THEOREM ExecRefines == Spec => KeepsPromise
<1>1. Init => Promise!Init
  BY PromiseStart
<1>2. IInv /\ [Next]_vars => [Promise!Next]_<<command, Verdict>>
  BY PromiseStep
<1> QED
  BY <1>1, <1>2, ExecInvariance, PTL DEF Spec, KeepsPromise, Promise!Spec
=============================================================================
