-------------------------------- MODULE Exec --------------------------------
(***************************************************************************)
(* pvectl exec once the guest is known: api.ExecWait over the client's     *)
(* GuestExec and GuestExecStatus, each of which runs the SDK's call on a   *)
(* goroutine of its own and leaves it behind when the deadline passes      *)
(* (withinCtx), and the exit status pvectl ends with (cmd/exec.go).        *)
(*                                                                         *)
(* The poll interval and the length of the deadline are left out: a read   *)
(* may come at any time, and the deadline may pass at any time.            *)
(***************************************************************************)
EXTENDS Integers

CONSTANTS
    Codes,    \* exit codes a command can end with
    Signals,  \* signals that can kill it
    None      \* nothing sent, nothing received

ASSUME CodesAssumption == Codes \subseteq Int
ASSUME SignalsAssumption == Signals \subseteq Nat \ {0}

\* How the command stands, as the agent reports it: not started, running,
\* or ended, with an exit code or a signal and never both.
Fact(by) == [by |-> by, number |-> 0]
Unsent == Fact("unsent")
Running == Fact("running")
Outcome == [by : {"exit"}, number : Codes] \cup [by : {"signal"}, number : Signals]

\* What a call comes back with: GuestExec a pid, GuestExecStatus the state
\* of the command, either of them an error.
Pid == Fact("pid")
Error == Fact("error")
Replies == Outcome \cup {Pid, Unsent, Running, Error}

\* What ExecWait returns: how the command ended, or an error, which may be
\* ErrExecTimeout or the context's own.
Pending == Fact("pending")
Timeout == Fact("timeout")
Deadline == Fact("deadline")
Results == Outcome \cup {Pending, Error, Timeout, Deadline}

ASSUME NoneAssumption == None \notin Replies

VARIABLES
    pc,       \* where ExecWait is: in one of its calls, or between two reads
    ctx,      \* its context: "live", or "expired" once --exec-timeout passed
    call,     \* the call the last goroutine was started for
    worker,   \* how far that goroutine is
    reply,    \* what its call came back with
    channel,  \* what it sent and ExecWait has not received
    command,  \* the command in the guest
    result    \* what ExecWait returned

vars == <<pc, ctx, call, worker, reply, channel, command, result>>

TypeOK ==
    /\ pc \in {"exec", "wait", "status", "done"}
    /\ ctx \in {"live", "expired"}
    /\ call \in {"exec", "status"}
    /\ worker \in {"calling", "answered", "sending", "ended"}
    /\ reply \in Replies \cup {None}
    /\ channel \in Replies \cup {None}
    /\ command \in Outcome \cup {Unsent, Running}
    /\ result \in Results

Init ==
    /\ pc = "exec"
    /\ ctx = "live"
    /\ call = "exec"
    /\ worker = "calling"
    /\ reply = None
    /\ channel = None
    /\ command = Unsent
    /\ result = Pending

-----------------------------------------------------------------------------
(***************************************************************************)
(* The guest and the clock.                                                *)
(***************************************************************************)
CommandEnds ==
    /\ command = Running
    /\ command' \in Outcome
    /\ UNCHANGED <<pc, ctx, call, worker, reply, channel, result>>

Expire ==
    /\ ctx = "live"
    /\ ctx' = "expired"
    /\ UNCHANGED <<pc, call, worker, reply, channel, command, result>>

-----------------------------------------------------------------------------
(***************************************************************************)
(* The goroutine of a call.  ExecWait may have left, before the request    *)
(* reaches the server or after.                                            *)
(***************************************************************************)
\* The agent starts what it is told to start.
ServeExec ==
    /\ worker = "calling" /\ call = "exec"
    /\ worker' = "answered"
    /\ reply' = Pid
    /\ command' = Running
    /\ UNCHANGED <<pc, ctx, call, channel, result>>

ServeStatus ==
    /\ worker = "calling" /\ call = "status"
    /\ worker' = "answered"
    /\ reply' = command
    /\ UNCHANGED <<pc, ctx, call, channel, command, result>>

CallReturns ==
    /\ worker = "answered"
    /\ worker' = "sending"
    /\ UNCHANGED <<pc, ctx, call, reply, channel, command, result>>

\* No connection, an HTTP error, no agent, a reply lost or malformed.
CallFails ==
    /\ worker \in {"calling", "answered"}
    /\ worker' = "sending"
    /\ reply' = Error
    /\ UNCHANGED <<pc, ctx, call, channel, command, result>>

Send_Unbuffered ==
    /\ worker = "sending"
    /\ pc = call
    /\ worker' = "ended"
    /\ channel' = reply
    /\ UNCHANGED <<pc, ctx, call, reply, command, result>>

\* The channel has room for one outcome: nobody need be there to receive.
Send ==
    /\ worker = "sending"
    /\ worker' = "ended"
    /\ channel' = reply
    /\ UNCHANGED <<pc, ctx, call, reply, command, result>>

-----------------------------------------------------------------------------
(***************************************************************************)
(* ExecWait.                                                               *)
(***************************************************************************)
Return(r) == pc' = "done" /\ result' = r

Spawn(c) == pc' = c /\ call' = c /\ worker' = "calling" /\ reply' = None

\* GuestExec's outcome.  An error once the deadline has passed is reported
\* as the deadline.
ReceivePid_Retries ==
    /\ pc = "exec" /\ channel # None
    /\ channel' = None
    /\ IF channel = Error
       THEN IF ctx = "live"
            THEN Spawn("exec") /\ UNCHANGED result
            ELSE Return(Deadline) /\ UNCHANGED <<call, worker, reply>>
       ELSE pc' = "wait" /\ UNCHANGED <<call, worker, reply, result>>
    /\ UNCHANGED <<ctx, command>>

ReceivePid ==
    /\ pc = "exec" /\ channel # None
    /\ channel' = None
    /\ IF channel = Error
       THEN Return(IF ctx = "live" THEN Error ELSE Deadline)
       ELSE pc' = "wait" /\ UNCHANGED result
    /\ UNCHANGED <<ctx, call, worker, reply, command>>

\* The timer fires: read the status.
Poll ==
    /\ pc = "wait"
    /\ Spawn("status")
    /\ UNCHANGED <<ctx, channel, command, result>>

ReceiveStatus_IgnoresExited ==
    /\ pc = "status" /\ channel # None
    /\ channel' = None
    /\ Return(IF channel # Error THEN channel
              ELSE IF ctx = "live" THEN Error ELSE Timeout)
    /\ UNCHANGED <<ctx, call, worker, reply, command>>

ReceiveStatus ==
    /\ pc = "status" /\ channel # None
    /\ channel' = None
    /\ CASE channel = Error ->
                Return(IF ctx = "live" THEN Error ELSE Timeout)
         [] channel \in Outcome -> Return(channel)
         [] OTHER -> pc' = "wait" /\ UNCHANGED result
    /\ UNCHANGED <<ctx, call, worker, reply, command>>

\* The deadline, in a call: withinCtx returns and the goroutine stays.
AbandonExec_Waits ==
    /\ pc = "exec" /\ ctx = "expired" /\ worker = "ended"
    /\ Return(Deadline)
    /\ UNCHANGED <<ctx, call, worker, reply, channel, command>>

AbandonExec ==
    /\ pc = "exec" /\ ctx = "expired"
    /\ Return(Deadline)
    /\ UNCHANGED <<ctx, call, worker, reply, channel, command>>

AbandonStatus ==
    /\ pc = "status" /\ ctx = "expired"
    /\ Return(Timeout)
    /\ UNCHANGED <<ctx, call, worker, reply, channel, command>>

\* The deadline, between two reads.
GiveUp ==
    /\ pc = "wait" /\ ctx = "expired"
    /\ Return(Timeout)
    /\ UNCHANGED <<ctx, call, worker, reply, channel, command>>

Waiting == ReceivePid \/ Poll \/ ReceiveStatus
Leaving == AbandonExec \/ AbandonStatus \/ GiveUp
Calling == ServeExec \/ ServeStatus \/ CallReturns \/ CallFails \/ Send

Next == CommandEnds \/ Expire \/ Calling \/ Waiting \/ Leaving

Spec == Init /\ [][Next]_vars

(***************************************************************************)
(* Time passes and a goroutine is scheduled.  Once the deadline has passed *)
(* it is ready at every select ExecWait comes to, and a select with        *)
(* several cases ready picks one at random: it is not passed over forever. *)
(* Nothing is assumed of the server or the command, and a call need never  *)
(* come back.                                                              *)
(***************************************************************************)
Fairness == WF_vars(Expire) /\ WF_vars(Send) /\ WF_vars(Leaving)

FairSpec == Spec /\ Fairness

-----------------------------------------------------------------------------
(***************************************************************************)
(* The exit status of pvectl.                                              *)
(***************************************************************************)
ExitCode(code) == IF code <= 0 \/ code > 255 THEN 1 ELSE code

ExitStatus_IgnoresSignal(r) ==
    IF r \in Outcome
    THEN IF r.by = "exit" /\ r.number # 0 THEN ExitCode(r.number) ELSE 0
    ELSE 1

ExitStatus(r) ==
    IF r \in Outcome
    THEN CASE r.by = "signal" -> ExitCode(128 + r.number)
           [] r.by = "exit" /\ r.number # 0 -> ExitCode(r.number)
           [] OTHER -> 0
    ELSE 1

(***************************************************************************)
(* pvectl exec exits with 0 only if the command ran and ended with 0, and  *)
(* with a number a process can exit with in every case: no signal, no wide *)
(* or negative code and no lost reply is ever mistaken for success.        *)
(***************************************************************************)
SuccessIsTheCommands ==
    pc = "done" =>
        /\ ExitStatus(result) \in 0..255
        /\ ExitStatus(result) = 0 => command = [by |-> "exit", number |-> 0]

(***************************************************************************)
(* ExecWait keeps the promise of RemoteCommand: one start, and the true    *)
(* end or an error.                                                        *)
(***************************************************************************)
Verdict == IF result \in {Timeout, Deadline} THEN Error ELSE result

Promise == INSTANCE RemoteCommand WITH Outcomes <- Outcome, verdict <- Verdict

KeepsPromise == Promise!Spec

(***************************************************************************)
(* ExecWait always returns, by the deadline at the latest, even if a call  *)
(* it makes never comes back.  (withinCtx: "returns as soon as ctx is      *)
(* done, whether or not call has noticed".)                                *)
(***************************************************************************)
AlwaysReturns == <>(pc = "done")

(***************************************************************************)
(* A goroutine whose call has come back ends, also when ExecWait has left: *)
(* none leaks.  (withinCtx: "the channel is buffered so its send never     *)
(* blocks on a receiver that has already left".)                           *)
(***************************************************************************)
NoLeak == (worker = "sending") ~> (worker = "ended")
=============================================================================
