---------------------------- MODULE GuestConfig ----------------------------
(***************************************************************************)
(* One virtual machine's config as Proxmox keeps it, with the parts a      *)
(* manifest cannot say (a NIC's MAC, the flags of a cpu, the spelling of a *)
(* list), the manifest that get makes of it (resource/vm/live.go), and     *)
(* what apply finds different and writes (convert.go, normalize.go,        *)
(* validate.go and planUpdate in apply.go).                                *)
(***************************************************************************)
EXTENDS Naturals, FiniteSets

CONSTANTS
    Numbers,     \* values of a setting
    Rests,       \* what a value has that the diff ignores
    Plain,       \* "nothing", the one apply writes
    NetSlots, Models, Bridges, VLANs, MACs,
    DriveSlots, Storages, Caches, Formats,
    KiB,         \* bytes in the smallest unit a size is shown in
    KeyIDs,      \* ssh keys, up to the mark in them
    DefaultMemory,  \* what a guest without the key has
    None

ASSUME NumbersAssumption ==
    Numbers \subseteq Nat \ {0} /\ DefaultMemory \in Numbers /\ KiB \in Nat \ {0}
ASSUME PlainAssumption == Plain \in Rests
ASSUME SlotsAssumption == DriveSlots \subseteq Nat
ASSUME VirtioAssumption == "virtio" \in Models

(***************************************************************************)
(* Live config.  cpu and tags are compared after a normalisation: number   *)
(* is what it leaves, rest what it drops (cpu flags, the order of tags).   *)
(***************************************************************************)
Settings == {"cores", "sockets", "memory", "cpu", "description", "tags", "ciuser"}
Setting == [number : Numbers, rest : Rests]
NIC == [model : Models, mac : MACs, bridge : Bridges \cup {None},
        tag : VLANs \cup {None}, rest : Rests]
Drive == [kind : {"disk", "cdrom", "cloudinit"}, storage : Storages \cup {None},
          size : Nat, cache : Caches \cup {None}, format : Formats \cup {None},
          rest : Rests]

(***************************************************************************)
(* ssh keys are one escaped text.  A "+" in a key is there as it is or as  *)
(* %2B, a space as %20; unescaping turns a bare "+" into a space.          *)
(***************************************************************************)
StoredKey == [id : KeyIDs, mark : {"none", "+", "%2B", "%20"}]
Key == [id : KeyIDs, mark : {"none", "plus", "space"}]

\* url.PathEscape leaves "+" alone.
Escaped(k) ==
    [id |-> k.id, mark |-> CASE k.mark = "plus" -> "+" [] k.mark = "space" -> "%20"
                             [] OTHER -> "none"]

\* decodeSSHKeys.
Unescaped(k) ==
    [id |-> k.id, mark |-> CASE k.mark = "%2B" -> "plus"
                             [] k.mark \in {"+", "%20"} -> "space"
                             [] OTHER -> "none"]

KeyText == [keys : SUBSET StoredKey, newline : BOOLEAN]
DecodedKeys(text) == {Unescaped(k) : k \in text.keys}

Live == [settings : [Settings -> Setting \cup {None}], onboot : {None, 0, 1},
         nets : [NetSlots -> NIC \cup {None}],
         drives : [DriveSlots -> Drive \cup {None}],
         sshkeys : KeyText, power : {"running", "stopped"}]

(***************************************************************************)
(* The spec of a manifest.                                                 *)
(***************************************************************************)
Network == [bridge : Bridges \cup {None}, model : Models \cup {None},
            tag : VLANs \cup {None}]
Disk == [storage : Storages \cup {None}, size : Nat,
         cache : Caches \cup {None}, format : Formats \cup {None}]
Manifest == [settings : [Settings -> Numbers \cup {None}],
             run : {"Always", "Halted", "Manual"},
             networks : [NetSlots -> Network \cup {None}],
             disks : [DriveSlots -> Disk \cup {None}],
             sshkeys : SUBSET Key]

ASSUME NoneAssumption ==
    /\ None \notin Nat /\ None \notin Numbers /\ None \notin VLANs
    /\ None \notin Bridges /\ None \notin Models /\ None \notin Storages
    /\ None \notin Caches /\ None \notin Formats
    /\ None \notin Setting /\ None \notin NIC /\ None \notin Drive
    /\ None \notin Network /\ None \notin Disk

-----------------------------------------------------------------------------
(***************************************************************************)
(* get: from live config, or from the cluster's list of guests, to a spec. *)
(***************************************************************************)
\* Sizes are shown in whole G, M or K.
Shown(bytes) == (bytes \div KiB) * KiB

Shared(nic) == [bridge |-> nic.bridge, model |-> nic.model, tag |-> nic.tag]

FromDrive(d) ==
    [storage |-> d.storage, size |-> Shown(d.size), cache |-> d.cache, format |-> d.format]

RunFromOnboot_Halts(onboot) ==
    CASE onboot = 1 -> "Always" [] onboot = 0 -> "Halted" [] OTHER -> "Manual"

RunFromOnboot(onboot) == IF onboot = 1 THEN "Always" ELSE "Manual"

FromConfig(g) ==
    [settings |-> [k \in Settings |-> IF g.settings[k] = None THEN None
                                      ELSE g.settings[k].number],
     run |-> RunFromOnboot(g.onboot),
     networks |-> [s \in NetSlots |-> IF g.nets[s] = None THEN None ELSE Shared(g.nets[s])],
     disks |-> [s \in DriveSlots |->
                    IF g.drives[s] = None THEN None
                    ELSE IF g.drives[s].kind = "disk" THEN FromDrive(g.drives[s])
                    ELSE None],
     sshkeys |-> DecodedKeys(g.sshkeys)]

\* The list has the processors in all, and says nothing of disks and NICs.
NumberOf(g, k, default) ==
    IF g.settings[k] = None THEN default ELSE g.settings[k].number

FromSummary(g) ==
    [settings |-> [k \in Settings |->
         CASE k = "cores" -> NumberOf(g, "cores", 1) * NumberOf(g, "sockets", 1)
           [] k = "memory" -> NumberOf(g, k, DefaultMemory)
           [] k = "tags" -> NumberOf(g, k, None)
           [] OTHER -> None],
     run |-> "Manual", networks |-> [s \in NetSlots |-> None],
     disks |-> [s \in DriveSlots |-> None], sshkeys |-> {}]

-----------------------------------------------------------------------------
(***************************************************************************)
(* apply: what a spec must have, and where live config differs from it.    *)
(***************************************************************************)
Valid(m) ==
    /\ None \notin {m.settings["cores"], m.settings["memory"]}
    /\ \A s \in DriveSlots : m.disks[s] # None =>
            m.disks[s].storage # None /\ m.disks[s].size > 0
    /\ \A s \in NetSlots : m.networks[s] # None => m.networks[s].bridge # None
    /\ m.settings["ciuser"] # None \/ m.sshkeys # {} =>
            \E s \in DriveSlots : m.disks[s] # None

Onboot(run) == CASE run = "Always" -> 1 [] run = "Halted" -> 0 [] OTHER -> None

ModelOf(n) == IF n.model = None THEN "virtio" ELSE n.model

\* Only the options the manifest sets are compared, and never the MAC.
NICDiffers_AllOptions(cur, des) ==
    cur = None \/ Shared(cur) # [des EXCEPT !.model = ModelOf(des)] \/ cur.rest # Plain

NICDiffers(cur, des) ==
    \/ cur = None
    \/ cur.model # ModelOf(des)
    \/ cur.bridge # des.bridge
    \/ des.tag \notin {None, cur.tag}

DriveDiffers(cur, des) ==
    \/ cur = None
    \/ cur.storage # des.storage
    \/ cur.size # des.size
    \/ des.cache \notin {None, cur.cache}
    \/ des.format \notin {None, cur.format}

ChangedSettings(g, m) ==
    {k \in Settings : /\ m.settings[k] # None
                      /\ \/ g.settings[k] = None
                         \/ g.settings[k].number # m.settings[k]}
ChangedNets(g, m) ==
    {s \in NetSlots : m.networks[s] # None /\ NICDiffers(g.nets[s], m.networks[s])}
ChangedDrives(g, m) ==
    {s \in DriveSlots : m.disks[s] # None /\ DriveDiffers(g.drives[s], m.disks[s])}
OnbootChanged(g, m) == Onboot(m.run) \notin {None, g.onboot}
KeysChanged_AsStored(g, m) ==
    m.sshkeys # {} /\ g.sshkeys.keys # {Escaped(k) : k \in m.sshkeys}

KeysChanged(g, m) ==
    /\ m.sshkeys # {}
    /\ \/ g.sshkeys.newline
       \/ DecodedKeys(g.sshkeys) # {Unescaped(Escaped(k)) : k \in m.sshkeys}

InSync(g, m) ==
    /\ ChangedSettings(g, m) = {} /\ ChangedNets(g, m) = {} /\ ChangedDrives(g, m) = {}
    /\ ~OnbootChanged(g, m) /\ ~KeysChanged(g, m)

PlannedPower(m, power) ==
    CASE m.run = "Always" /\ power # "running" -> "start"
      [] m.run = "Halted" /\ power = "running" -> "stop"
      [] OTHER -> "none"

Impossible(cur, des) ==
    /\ cur # None
    /\ \/ des.storage # cur.storage
       \/ None \notin {des.format, cur.format} /\ des.format # cur.format
       \/ des.size < cur.size

Unplannable(g, m) ==
    \E s \in ChangedDrives(g, m) : Impossible(g.drives[s], m.disks[s])

-----------------------------------------------------------------------------
(***************************************************************************)
(* The plan, and what the server makes of it.  A plan is the manifest's    *)
(* value for every key that is sent, and None for the others.              *)
(***************************************************************************)
Over(new, old) == IF new = None THEN old ELSE new

\* The disk's options on top of what is there; None when nothing changes.
Rebuilt(cur, des) ==
    LET merged == [cur EXCEPT !.cache = Over(des.cache, cur.cache),
                              !.format = Over(des.format, cur.format)]
    IN  IF merged = cur THEN None ELSE merged

\* An allocation: the server rounds to its unit.
Allocated(des) ==
    [kind |-> "disk", storage |-> des.storage, size |-> Shown(des.size),
     cache |-> des.cache, format |-> des.format, rest |-> Plain]

SentNIC == [bridge : Bridges \cup {None}, model : Models, tag : VLANs \cup {None}]

NetworkValue_DropsTag(des) == [bridge |-> des.bridge, model |-> ModelOf(des), tag |-> None]

NetworkValue_KeepsDefault(des) == des

NetworkValue(des) == [bridge |-> des.bridge, model |-> ModelOf(des), tag |-> des.tag]

PutOf(g, m) ==
    [settings |-> [k \in Settings |-> IF k \in ChangedSettings(g, m)
                                      THEN m.settings[k] ELSE None],
     onboot |-> IF OnbootChanged(g, m) THEN Onboot(m.run) ELSE None,
     nets |-> [s \in NetSlots |-> IF s \in ChangedNets(g, m)
                                  THEN NetworkValue(m.networks[s]) ELSE None],
     drives |-> [s \in DriveSlots |->
                    IF s \notin ChangedDrives(g, m) THEN None
                    ELSE IF g.drives[s] = None THEN Allocated(m.disks[s])
                    ELSE Rebuilt(g.drives[s], m.disks[s])],
     sshkeys |-> IF KeysChanged(g, m) THEN {Escaped(k) : k \in m.sshkeys} ELSE {}]

ResizesOf(g, m) ==
    [s \in DriveSlots |->
        IF /\ s \in ChangedDrives(g, m) /\ g.drives[s] # None
           /\ m.disks[s].size > g.drives[s].size
        THEN Shown(m.disks[s].size) ELSE None]

\* The server gives a NIC that comes without a MAC a new one.
Updated(g, put, mac) ==
    [g EXCEPT
        !.settings = [k \in Settings |-> IF put.settings[k] = None THEN g.settings[k]
                          ELSE [number |-> put.settings[k], rest |-> Plain]],
        !.onboot = Over(put.onboot, g.onboot),
        !.nets = [s \in NetSlots |-> IF put.nets[s] = None THEN g.nets[s]
                      ELSE [model |-> put.nets[s].model, mac |-> mac,
                            bridge |-> put.nets[s].bridge, tag |-> put.nets[s].tag,
                            rest |-> Plain]],
        !.drives = [s \in DriveSlots |-> Over(put.drives[s], g.drives[s])],
        !.sshkeys = IF put.sshkeys = {} THEN g.sshkeys
                    ELSE [keys |-> put.sshkeys, newline |-> FALSE]]
=============================================================================
