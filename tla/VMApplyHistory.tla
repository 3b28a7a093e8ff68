-------------------------- MODULE VMApplyHistory --------------------------
(***************************************************************************)
(* VMApply with a memory of the last answer a run gave, for the properties *)
(* that relate one run to the next: apply after apply, apply after a       *)
(* server dry run, apply after diff.  The variables added here only record *)
(* and never restrict a step.                                              *)
(***************************************************************************)
EXTENDS VMApplyProperties

VARIABLES
    said,   \* the last answer, forgotten when the cluster changes
    heard   \* process -> what had been said of its manifest when it began

hvars == <<vars, said, heard>>

HInit ==
    /\ Init
    /\ said = None
    /\ heard = [p \in Procs |-> None]

Untroubled == faults' = faults /\ timeouts' = timeouts

Ended == {p \in Procs : Ends(p) /\ Untroubled}

Remember ==
    /\ said' = IF \E p \in Procs : p \in Ended
               THEN LET p == CHOOSE q \in Procs : q \in Ended
                    IN  [about |-> manifest[p], mode |-> mode[p], answer |-> result'[p]]
               ELSE IF guests' = guests THEN said ELSE None
    /\ heard' = [p \in Procs |->
          CASE pc'[p] = "idle" -> None
            [] pc'[p] # "idle" /\ pc[p] = "idle" ->
                 IF said # None /\ said.about = manifest'[p] THEN said ELSE None
            [] OTHER ->
                 IF guests' = guests \/ <<pc'[p], plan'[p]>> # <<pc[p], plan[p]>>
                 THEN heard[p] ELSE None]

HNext == Next /\ Remember
HSpec == HInit /\ [][HNext]_hvars

\* Process p began on a cluster untouched since a run of this kind, on the
\* same manifest, gave one of these answers.
Heard(p, md, answers) ==
    /\ heard[p] # None
    /\ heard[p].mode = md
    /\ heard[p].answer \in answers

AppliesTo(p) == Ends(p) /\ mode[p] = "apply" /\ Untroubled

\* The drive that is to grow shows no size, as a cloud-init drive may.
Sizeless(p) ==
    /\ pc[p] = "resize"
    /\ \E s \in NextSlot(plan[p]) : guests[ref[p].vmid].disks[s].size = 0

(***************************************************************************)
(* Apply is idempotent: run again on a cluster nobody touched since it     *)
(* succeeded, it reports unchanged.  (planUpdate finds no difference in    *)
(* what applyCreate, the post-clone pass or applyUpdate wrote.)            *)
(***************************************************************************)
ReapplyIsNoop ==
    [][\A p \in Procs :
        AppliesTo(p) /\ Heard(p, "apply", Successes)
            => result'[p] = "unchanged"]_hvars

(***************************************************************************)
(* A server dry run reports what apply would: on a cluster nobody touched  *)
(* since, apply ends with the very answer, or is refused by the server in  *)
(* a creation (the dry run asks for no vmid and looks at no clone source)  *)
(* or when it resizes a drive that shows no size (planUpdate takes an      *)
(* absent size for a small one).                                           *)
(***************************************************************************)
ForecastHolds ==
    [][\A p \in Procs : AppliesTo(p) /\ Heard(p, "server", Results) =>
        \/ result'[p] = heard[p].answer
        \/ heard[p].answer = "created" /\ result'[p] = "failed"
        \/ heard[p].answer = "configured" /\ result'[p] = "failed" /\ Sizeless(p)]_hvars

(***************************************************************************)
(* Diff tells what apply would write: after "same" apply sends no config   *)
(* and no resize.  (Diff says nothing of the power state.)                 *)
(***************************************************************************)
DiffTellsTheWrites ==
    \A p \in Procs :
        pc[p] # "idle" /\ mode[p] = "apply" /\ Heard(p, "diff", {"same"}) =>
            pc[p] \notin Writing \ {"power"}

(***************************************************************************)
(* After diff reported a difference, apply does not report unchanged.      *)
(***************************************************************************)
DifferenceIsActedOn ==
    [][\A p \in Procs :
        AppliesTo(p) /\ Heard(p, "diff", {"differs"})
            => result'[p] # "unchanged"]_hvars
=============================================================================
