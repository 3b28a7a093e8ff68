------------------------------- MODULE Export -------------------------------
(***************************************************************************)
(* get, the user's editor, and apply, on one virtual machine that others   *)
(* change too (Handler.Get and List, live.go, and applyUpdate in apply.go).*)
(* Two API calls make an export and up to five an apply; anything may      *)
(* happen to the machine between two of them.                              *)
(***************************************************************************)
EXTENDS GuestConfig

CONSTANTS
    Machines,     \* configs the machine may have, or be given by others
    Drafts,       \* manifests written by hand
    WantedNICs, WantedDisks, WantedKeys,   \* what an edit may put in
    MaxEdits, MaxFaults, MaxMoves   \* bounds: edits of the draft, calls that
                                    \* fail, moves of others

ASSUME MachinesAssumption == Machines \subseteq Live
ASSUME DraftsAssumption ==
    /\ Drafts \subseteq Manifest
    /\ WantedNICs \subseteq Network /\ WantedDisks \subseteq Disk /\ WantedKeys \subseteq Key
ASSUME ExportBounds == MaxEdits \in Nat /\ MaxFaults \in Nat /\ MaxMoves \in Nat

VARIABLES
    guest,     \* the machine
    pc,        \* the call pvectl makes next, or "idle"
    draft,     \* the manifest in the user's file, or None
    put,       \* what apply still has to send,
    resizes,   \*   to grow,
    power,     \*   and to switch
    result,    \* what the last apply reported
    exported,  \* record: the manifest as it was printed or written
    origin,    \* record: where it came from, until somebody else changes the machine
    edits, faults, moves   \* how much of each bound is used

plans == <<put, resizes, power>>
records == <<exported, origin>>
vars == <<guest, pc, draft, plans, result, records, edits, faults, moves>>

Puts == [settings : [Settings -> Numbers \cup {None}], onboot : {None, 0, 1},
         nets : [NetSlots -> SentNIC \cup {None}],
         drives : [DriveSlots -> Drive \cup {None}], sshkeys : SUBSET StoredKey]
NoPut == [settings |-> [k \in Settings |-> None], onboot |-> None,
          nets |-> [s \in NetSlots |-> None],
          drives |-> [s \in DriveSlots |-> None], sshkeys |-> {}]
NoResizes == [s \in DriveSlots |-> None]

TypeOK ==
    /\ guest \in Live
    /\ pc \in {"idle", "getconfig", "summary", "config", "put", "resize", "power"}
    /\ draft \in Manifest \cup {None} /\ exported \in Manifest \cup {None}
    /\ put \in Puts
    /\ resizes \in [DriveSlots -> Nat \cup {None}]
    /\ power \in {"none", "start", "stop"}
    /\ result \in {"none", "configured", "unchanged", "failed"}
    /\ origin \in {"get", "list", "hand", "stale"}
    /\ edits \in 0..MaxEdits /\ faults \in 0..MaxFaults /\ moves \in 0..MaxMoves

Init ==
    /\ guest \in Machines
    /\ pc = "idle" /\ draft = None /\ exported = None
    /\ put = NoPut /\ resizes = NoResizes /\ power = "none"
    /\ result = "none" /\ origin = "stale"
    /\ edits = 0 /\ faults = 0 /\ moves = 0

-----------------------------------------------------------------------------
(***************************************************************************)
(* The manifest.                                                           *)
(***************************************************************************)
\* findQemu; the config is read by a second call.
Get ==
    /\ pc = "idle" /\ pc' = "getconfig"
    /\ UNCHANGED <<guest, draft, plans, result, records, edits, faults, moves>>

Save(m, from) ==
    /\ draft' = m /\ exported' = m /\ origin' = from
    /\ pc' = "idle" /\ result' = "none"
    /\ UNCHANGED <<guest, plans, edits, faults, moves>>

GetConfig == pc = "getconfig" /\ Save(FromConfig(guest), "get")
\* Replayed, the list of a machine with two sockets doubles its cores each
\* time: Numbers bounds that.
List ==
    /\ pc = "idle"
    /\ FromSummary(guest).settings["cores"] \in Numbers
    /\ Save(FromSummary(guest), "list")

Write == pc = "idle" /\ \E m \in Drafts : Save(m, "hand")

Edit ==
    /\ pc = "idle" /\ draft # None
    /\ edits < MaxEdits /\ edits' = edits + 1
    /\ \/ \E k \in Settings, n \in Numbers \cup {None} :
            draft' = [draft EXCEPT !.settings[k] = n]
       \/ \E r \in {"Always", "Halted", "Manual"} : draft' = [draft EXCEPT !.run = r]
       \/ \E s \in NetSlots, n \in WantedNICs \cup {None} :
            draft' = [draft EXCEPT !.networks[s] = n]
       \/ \E s \in DriveSlots, d \in WantedDisks \cup {None} :
            draft' = [draft EXCEPT !.disks[s] = d]
       \/ \E k \in WantedKeys : draft' = [draft EXCEPT !.sshkeys = @ \cup {k}]
    /\ draft' # draft
    /\ result' = "none"
    /\ UNCHANGED <<guest, pc, plans, records, faults, moves>>

-----------------------------------------------------------------------------
(***************************************************************************)
(* apply of the draft, once the machine is found.                          *)
(***************************************************************************)
NextCall(p, r, w) ==
    CASE p # NoPut -> "put"
      [] p = NoPut /\ r # NoResizes -> "resize"
      [] p = NoPut /\ r = NoResizes /\ w # "none" -> "power"
      [] OTHER -> "idle"

\* Go on with what is left to do, or report.
Proceed(p, r, w) ==
    /\ pc' = NextCall(p, r, w)
    /\ put' = p /\ resizes' = r
    /\ power' = IF pc' = "idle" THEN "none" ELSE w
    /\ result' = IF pc' = "idle" THEN "configured" ELSE result
    /\ UNCHANGED <<draft, records, edits, moves>>

Finish(outcome) ==
    /\ pc' = "idle" /\ result' = outcome
    /\ put' = NoPut /\ resizes' = NoResizes /\ power' = "none"
    /\ UNCHANGED <<draft, records, edits, moves>>

Apply ==
    /\ pc = "idle" /\ draft # None
    /\ UNCHANGED <<guest, faults>>
    /\ IF ~Valid(draft) THEN Finish("failed")
       ELSE /\ pc' = IF draft.run = "Manual" THEN "config" ELSE "summary"
            /\ result' = "none"
            /\ UNCHANGED <<draft, plans, records, edits, moves>>

ReadSummary ==
    /\ pc = "summary" /\ pc' = "config"
    /\ power' = PlannedPower(draft, guest.power)
    /\ UNCHANGED <<guest, draft, put, resizes, result, records, edits, faults, moves>>

ReadConfig ==
    /\ pc = "config"
    /\ UNCHANGED <<guest, faults>>
    /\ CASE InSync(guest, draft) /\ power = "none" -> Finish("unchanged")
         [] ~(InSync(guest, draft) /\ power = "none") /\ Unplannable(guest, draft) ->
                Finish("failed")
         [] OTHER -> Proceed(PutOf(guest, draft), ResizesOf(guest, draft), power)

UpdateConfig ==
    /\ pc = "put"
    /\ \E mac \in MACs : guest' = Updated(guest, put, mac)
    /\ UNCHANGED faults
    /\ Proceed(NoPut, resizes, power)

\* Disks grow one at a time, in order.
IsNext(d) ==
    pc = "resize" /\ resizes[d] # None /\ \A t \in DriveSlots : resizes[t] # None => d <= t

\* The server neither shrinks a volume nor resizes what is not there.
CanGrow(d) == guest.drives[d] # None /\ guest.drives[d].size <= resizes[d]

ResizeDisk ==
    /\ \E d \in DriveSlots :
        /\ IsNext(d) /\ CanGrow(d)
        /\ guest' = [guest EXCEPT !.drives[d].size = resizes[d]]
        /\ Proceed(NoPut, [resizes EXCEPT ![d] = None], power)
    /\ UNCHANGED faults

ResizeRefused ==
    /\ \E d \in DriveSlots : IsNext(d) /\ ~CanGrow(d)
    /\ UNCHANGED <<guest, faults>>
    /\ Finish("failed")

SwitchPower ==
    /\ pc = "power"
    /\ guest' = [guest EXCEPT !.power = IF power = "start" THEN "running" ELSE "stopped"]
    /\ UNCHANGED faults
    /\ Finish("configured")

\* A call fails without an effect, or the process is killed.
Fail ==
    /\ pc # "idle"
    /\ faults < MaxFaults /\ faults' = faults + 1
    /\ UNCHANGED guest
    /\ Finish("failed")

Others ==
    /\ moves < MaxMoves /\ moves' = moves + 1
    /\ \E g \in Machines \ {guest} : guest' = g
    /\ origin' = "stale"
    /\ UNCHANGED <<pc, draft, plans, result, exported, edits, faults>>

Next ==
    \/ Get \/ GetConfig \/ List \/ Write \/ Edit
    \/ Apply \/ ReadSummary \/ ReadConfig \/ UpdateConfig
    \/ ResizeDisk \/ ResizeRefused \/ SwitchPower
    \/ Fail \/ Others

Spec == Init /\ [][Next]_vars
=============================================================================
