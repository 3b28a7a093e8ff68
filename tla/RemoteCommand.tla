---------------------------- MODULE RemoteCommand ----------------------------
(***************************************************************************)
(* What pvectl exec promises: the command is started at most once, and     *)
(* what is reported as its end is how it ended.  The caller may be told of *)
(* a failure at any moment, and the command starts, runs on and ends       *)
(* without anybody listening.                                              *)
(***************************************************************************)
CONSTANTS
    Outcomes,         \* how a command can end
    Unsent, Running,  \* how it stands before
    Pending, Error    \* what the caller knows besides

VARIABLES
    command,  \* Unsent, Running, or how it ended
    verdict   \* Pending, Error, or the end the caller was told of

Init == command = Unsent /\ verdict = Pending

Start == command = Unsent /\ command' = Running /\ UNCHANGED verdict
End == command = Running /\ command' \in Outcomes /\ UNCHANGED verdict

Answer ==
    /\ verdict = Pending /\ command \in Outcomes
    /\ verdict' = command
    /\ UNCHANGED command

GiveUp == verdict = Pending /\ verdict' = Error /\ UNCHANGED command

Next == Start \/ End \/ Answer \/ GiveUp

Spec == Init /\ [][Next]_<<command, verdict>>
=============================================================================
