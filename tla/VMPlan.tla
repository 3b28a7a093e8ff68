------------------------------- MODULE VMPlan -------------------------------
(***************************************************************************)
(* What apply computes between its API calls: the parameters a manifest    *)
(* stands for (resource/vm/convert.go), the managed-key diff (diff.go with *)
(* normalize.go), and the plan that turns the diff into calls (apply.go).  *)
(*                                                                         *)
(* A scalar value stands for its class under the diff's normalisation      *)
(* (sorted tags, decoded ssh keys, base cpu type, a NIC without its MAC),  *)
(* so equality here is the comparison the code makes.                      *)
(***************************************************************************)
EXTENDS Proxmox

RunStrategies == {"Manual", "Always", "Halted"}

(***************************************************************************)
(* A decoded manifest.  vmid, clone, pool and each field are optional;     *)
(* password says that cloudInit.passwordFrom is there, drive is the        *)
(* storage cloudInit names, or else that of the disk listed first.         *)
(***************************************************************************)
Manifest ==
    [name : Names, vmid : VMIDs \cup {None}, node : Nodes,
     clone : Names \cup {None}, pool : Pools \cup {None},
     run : RunStrategies, fields : [Fields -> Value \cup {None}],
     password : BOOLEAN, drive : Storages \cup {None}, disks : Disks]

\* A clone inherits its disks, so declaring both is refused.  Nothing keeps
\* a disk out of the slot of the cloud-init drive.
Valid(m) ==
    /\ m.clone # None => \A s \in Slots : m.disks[s] = None
    /\ m.clone = None /\ m.password => m.drive # None
    /\ \A s \in Slots : m.disks[s] # None => m.disks[s].size > 0

(***************************************************************************)
(* The flat parameters of a manifest.                                      *)
(***************************************************************************)
Onboot(run) ==
    CASE run = "Always" -> "1" [] run = "Halted" -> "0" [] OTHER -> None

Config(m) ==
    [k \in Keys |-> CASE k = "name" -> m.name
                      [] k = "onboot" -> Onboot(m.run)
                      [] k = "cipassword" -> IF m.password THEN "secret" ELSE None
                      [] OTHER -> m.fields[k]]

NoParams == [k \in Keys |-> None]
NoWrites == [s \in Slots |-> None]

\* The clone call carries the name and the description and nothing else.
CloneConfig(m) ==
    [k \in Keys |-> IF k \in {"name", "description"} THEN Config(m)[k] ELSE None]

\* The cloud-init drive comes last, over a disk declared in its slot.
Allocations(m) ==
    [s \in Slots |->
        IF s = CloudInitSlot /\ m.drive # None THEN CloudInitDrive(m.drive)
        ELSE IF m.disks[s] = None THEN None ELSE Allocate(m.disks[s])]

\* The calls.
Creation(m, vmid) ==
    [op |-> "create", vmid |-> vmid, node |-> m.node,
     config |-> Config(m), disks |-> Allocations(m)]

Cloning(m, vmid, source) ==
    [op |-> "clone", vmid |-> vmid, node |-> m.node,
     config |-> CloneConfig(m), pool |-> m.pool, source |-> source]

Update(ref, config, disks) ==
    [op |-> "update", vmid |-> ref.vmid, node |-> ref.node,
     config |-> config, disks |-> disks]

Resize(ref, slot, size) ==
    [op |-> "resize", vmid |-> ref.vmid, node |-> ref.node,
     slot |-> slot, size |-> size]

Switch(ref, power) == [op |-> power, vmid |-> ref.vmid, node |-> ref.node]

(***************************************************************************)
(* The managed-key diff.  cipassword is write-only: the API masks it.      *)
(***************************************************************************)
ChangedKeys_DiffsPassword(g, m) ==
    {k \in Keys : /\ Config(m)[k] # None
                  /\ k = "cipassword" \/ Config(m)[k] # g.config[k]}

ChangedKeys(g, m) ==
    {k \in Keys \ {"cipassword"} : Config(m)[k] \notin {None, g.config[k]}}

DiskDiffers(cur, des) ==
    \/ cur = None
    \/ des.storage # cur.storage
    \/ des.size # cur.size
    \/ \E o \in OptKeys : des.opts[o] \notin {None, cur.opts[o]}

ChangedSlots(g, m) ==
    {s \in Slots : m.disks[s] # None /\ DiskDiffers(g.disks[s], m.disks[s])}

InSync(g, m) == ChangedKeys(g, m) = {} /\ ChangedSlots(g, m) = {}

(***************************************************************************)
(* The plan.                                                               *)
(***************************************************************************)
WantsPower(m) == m.run # "Manual"

PlannedPower(m, power) ==
    CASE m.run = "Always" /\ power # "running" -> "start"
      [] m.run = "Halted" /\ power = "running" -> "stop"
      [] OTHER -> "none"

PoolMoved(m, g) == m.pool \notin {None, g.pool}

\* Proxmox can neither move, reformat nor shrink a volume in place.
Impossible(cur, des) ==
    /\ cur # None
    /\ \/ des.storage # cur.storage
       \/ /\ None \notin {des.opts["format"], cur.opts["format"]}
          /\ des.opts["format"] # cur.opts["format"]
       \/ des.size < cur.size

Unplannable(g, m) ==
    \E s \in ChangedSlots(g, m) : Impossible(g.disks[s], m.disks[s])

MergedOpts(cur, des) ==
    [o \in OptKeys |-> IF des.opts[o] = None THEN cur.opts[o] ELSE des.opts[o]]

RebuiltDisk_Reallocates(cur, des) ==
    IF MergedOpts(cur, des) = cur.opts THEN None ELSE Allocate(des)

\* The disk's own volume and size with the manifest's options on top.
RebuiltDisk(cur, des) ==
    IF MergedOpts(cur, des) = cur.opts
    THEN None
    ELSE [form |-> "volume", storage |-> cur.storage, size |-> cur.size,
          opts |-> MergedOpts(cur, des)]

PlannedConfig_Everything(g, m) == Overlay(g.config, Config(m))

PlannedConfig(g, m) ==
    [k \in Keys |-> IF k \in ChangedKeys(g, m) THEN Config(m)[k] ELSE None]

PlannedDisks(g, m) ==
    [s \in Slots |->
        IF s \notin ChangedSlots(g, m) THEN None
        ELSE IF g.disks[s] = None THEN Allocate(m.disks[s])
        ELSE RebuiltDisk(g.disks[s], m.disks[s])]

PlannedSizes(g, m) ==
    [s \in Slots |->
        IF /\ s \in ChangedSlots(g, m)
           /\ g.disks[s] # None
           /\ m.disks[s].size > g.disks[s].size
        THEN m.disks[s].size
        ELSE None]
=============================================================================
