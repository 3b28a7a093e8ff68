-------------------------- MODULE ExportProperties --------------------------
(***************************************************************************)
(* What a manifest that get printed is good for, stated over Export.       *)
(***************************************************************************)
EXTENDS Export

\* A machine whose export says all that apply asks for.  Missing cores or
\* memory, a drive that is no volume of a storage, a NIC on no bridge and
\* cloud-init settings without a disk are refused by validateSpec.
Complete(g) == Valid(FromConfig(g))

\* And whose export says it exactly: sizes in whole KiB, ssh keys as apply
\* would escape them, started if it is to start on boot.
WholeSizes(drives) == \A s \in DriveSlots : drives[s] # None => drives[s].size % KiB = 0
Exact(g) ==
    /\ WholeSizes(g.drives)
    /\ ~g.sshkeys.newline /\ \A k \in g.sshkeys.keys : k.mark # "%2B"
    /\ g.onboot = 1 => g.power = "running"

(***************************************************************************)
(* A machine got, and applied as it was printed, is unchanged: apply       *)
(* accepts the manifest, finds nothing to write and says so.               *)
(* (Handler.Get: "The returned object round-trips".)                       *)
(***************************************************************************)
RoundTrip ==
    (Apply \/ ReadConfig) /\ origin = "get" /\ draft = FromConfig(guest) =>
        pc' \notin {"put", "resize", "power"} /\ result' \in {"none", "unchanged"}

RoundTripUnchanged == [][Complete(guest) /\ Exact(guest) => RoundTrip]_vars

(***************************************************************************)
(* The same with no condition on the machine, as the comment has it.       *)
(***************************************************************************)
EveryRoundTripUnchanged == [][RoundTrip]_vars

(***************************************************************************)
(* The user gets a machine, edits the manifest in some places and applies  *)
(* it, in as many calls and attempts as it takes: everything the edits did *)
(* not touch stays exactly as it was, also what a manifest cannot say (the *)
(* MAC and options of the other NICs, cpu flags, options of a volume), and *)
(* ssh keys keep what they stand for if no "+" is stored as it is.  The    *)
(* same for a manifest printed by the list, if the machine has one socket. *)
(* What an earlier apply of an edit changed is no longer as it was         *)
(* printed.  (The managed-key rule: normalizeNetRule, normalizeDiskRule,   *)
(* planUpdate, specFromConfig.)                                            *)
(***************************************************************************)
OneSocket(g) ==
    /\ None \notin {g.settings["cores"], g.settings["memory"]}
    /\ NumberOf(g, "sockets", 1) = 1

NoBarePlus(g) == \A k \in g.sshkeys.keys : k.mark # "+"

\* To the server a bare "+" is what %2B is: configParams relies on it.
MeantKeys(text) ==
    {[id |-> k.id, mark |-> IF k.mark = "+" THEN "%2B" ELSE k.mark] : k \in text.keys}

Untouched(printed, section, k) ==
    draft[section][k] = exported[section][k] /\ printed[section][k] = exported[section][k]

Spared(g, h, printed) ==
    /\ \A k \in Settings :
            Untouched(printed, "settings", k) => h.settings[k] = g.settings[k]
    /\ \A s \in NetSlots :
            Untouched(printed, "networks", s) => h.nets[s] = g.nets[s]
    /\ \A s \in DriveSlots :
            Untouched(printed, "disks", s) => h.drives[s] = g.drives[s]
    /\ {draft.sshkeys, printed.sshkeys} = {exported.sshkeys} /\ NoBarePlus(g) =>
            MeantKeys(h.sshkeys) = MeantKeys(g.sshkeys)

OnlyEditsAreApplied ==
    [][/\ guest' # guest
       /\ \/ origin' = "get"
          \/ origin' = "list" /\ OneSocket(guest)
       => Spared(guest, guest', IF origin' = "get" THEN FromConfig(guest)
                                ELSE FromSummary(guest))]_vars

(***************************************************************************)
(* Applied again, at whatever later time, a manifest get printed never     *)
(* stops a machine and never keeps it from starting on boot, unless the    *)
(* user edited that line.  (runStrategyFromOnboot: "export never asks      *)
(* apply to stop a VM the user did not ask to stop".)                      *)
(***************************************************************************)
ReplayNeverStops ==
    [][/\ moves' = moves
       /\ exported \notin Drafts \cup {None} /\ draft.run = exported.run
       => /\ guest.power = "running" => guest'.power = "running"
          /\ guest'.onboot \in {guest.onboot, 1}]_vars

(***************************************************************************)
(* After an apply that succeeded, printed or written and however edited,   *)
(* the machine is in sync with the manifest and in the power state it asks *)
(* for, so that applying it again is a no-op, as long as its sizes are     *)
(* whole KiB.  (NormalizeRules read back what configParams, planUpdate and *)
(* rebuildDiskValue wrote.)                                                *)
(***************************************************************************)
AppliedIsSettled ==
    /\ pc = "idle" /\ result \in {"configured", "unchanged"} /\ origin # "stale"
    /\ WholeSizes(draft.disks)
    => InSync(guest, draft) /\ PlannedPower(draft, guest.power) = "none"
=============================================================================
