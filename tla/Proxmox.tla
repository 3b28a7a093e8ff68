------------------------------ MODULE Proxmox ------------------------------
(***************************************************************************)
(* The part of a Proxmox VE cluster that pvectl reads and writes: the      *)
(* guests by vmid, and what each API call does to them.  Proxmox itself is *)
(* not in this repository; the effect of a call is taken from the fake     *)
(* server the repository tests against (src/test/pvefake) and, for what    *)
(* the fake leaves out (a taken vmid, a shared id space, pools), from how  *)
(* src/internal relies on it.                                              *)
(***************************************************************************)
EXTENDS Naturals

CONSTANTS
    VMIDs,      \* the numeric ids guests can have
    Nodes,      \* cluster nodes
    Names,      \* guest names
    Pools,      \* resource pools
    Tunables,   \* flat scalar config keys: cores, memory, net0, tags, ...
    Value,      \* values of the scalar keys, up to the diff's normalisation
    Slots,      \* disk slots (scsi0 is 0, ...), ordered like their keys
    Storages,   \* storages a volume can be on
    Sizes,      \* volume sizes; 0 is that of a drive that shows none
    CloudInitSlot, \* the slot of cloud-init drives (ide2)
    OptVals,    \* values of a disk option
    None        \* "not there": no guest, no key, no disk, no option

(***************************************************************************)
(* Keys pvectl gives a meaning of their own stand beside the tunables.     *)
(***************************************************************************)
Fields == Tunables \cup {"description"}
OwnKeys == {"name", "onboot", "cipassword"}
Keys == Fields \cup OwnKeys
OptKeys == {"cache", "format"}
Scalar == Names \cup Value \cup {"0", "1", "secret"}

ASSUME KeysAssumption == Tunables \cap (OwnKeys \cup {"description"}) = {}
ASSUME SizesAssumption == Sizes \subseteq Nat /\ 0 \in Sizes
ASSUME SlotsAssumption == Slots \subseteq Nat /\ CloudInitSlot \in Slots
ASSUME NoneAssumption ==
    /\ None \notin Scalar
    /\ None \notin VMIDs
    /\ None \notin Nodes
    /\ None \notin Pools
    /\ None \notin Storages
    /\ None \notin Sizes
    /\ None \notin OptVals

(***************************************************************************)
(* A set of keys with values: a whole config, or the parameters of a call  *)
(* (None: the key is not sent).                                            *)
(***************************************************************************)
Params == [Keys -> Scalar \cup {None}]
Overlay(base, over) ==
    [k \in Keys |-> IF over[k] = None THEN base[k] ELSE over[k]]

Opts == [OptKeys -> OptVals \cup {None}]
Disk == [storage : Storages, size : Sizes, opts : Opts]
Disks == [Slots -> Disk \cup {None}]

(***************************************************************************)
(* A disk as a call sends it: "storage:SIZE,..." allocates a volume,       *)
(* "storage:volume,size=...,..." names the one that is there, and          *)
(* "storage:cloudinit" makes a cloud-init drive.                           *)
(***************************************************************************)
DiskWrite == [form : {"allocate", "volume"}, storage : Storages,
              size : Sizes, opts : Opts]
DiskWrites == [Slots -> DiskWrite \cup {None}]
ASSUME NoDiskAssumption == None \notin Disk \cup DiskWrite
Allocate(d) == [form |-> "allocate", storage |-> d.storage,
                size |-> d.size, opts |-> d.opts]
CloudInitDrive(storage) ==
    [form |-> "allocate", storage |-> storage, size |-> 0,
     opts |-> [o \in OptKeys |-> None]]

(***************************************************************************)
(* detached holds the slots whose volume a later allocation pushed out:    *)
(* Proxmox keeps it as unusedN, and the guest no longer sees its data.     *)
(***************************************************************************)
Guest == [node : Nodes, type : {"qemu", "lxc"}, pool : Pools \cup {None},
          power : {"running", "stopped"}, config : Params, disks : Disks,
          detached : SUBSET Slots]
Cluster == [VMIDs -> Guest \cup {None}]
GuestRef == [vmid : VMIDs, node : Nodes]
ASSUME NoGuestAssumption == None \notin Guest

Named(gs, name) ==
    {v \in VMIDs : gs[v] # None /\ gs[v].config["name"] = name}

(***************************************************************************)
(* Calls that start a task.                                                *)
(***************************************************************************)
CreateCall == [op : {"create"}, vmid : VMIDs, node : Nodes,
               config : Params, disks : DiskWrites]
CloneCall == [op : {"clone"}, vmid : VMIDs, node : Nodes, config : Params,
              pool : Pools \cup {None}, source : GuestRef]
UpdateCall == [op : {"update"}, vmid : VMIDs, node : Nodes,
               config : Params, disks : DiskWrites]
ResizeCall == [op : {"resize"}, vmid : VMIDs, node : Nodes,
               slot : Slots, size : Sizes]
PowerCall == [op : {"start", "stop"}, vmid : VMIDs, node : Nodes]
Call == CreateCall \cup CloneCall \cup UpdateCall \cup ResizeCall \cup PowerCall

\* A path /nodes/NODE/qemu/VMID names a virtual machine that is there.
Reaches(gs, vmid, node) ==
    /\ gs[vmid] # None
    /\ gs[vmid].node = node
    /\ gs[vmid].type = "qemu"

\* The server carries the call out; otherwise it answers with an error.  It
\* neither shrinks a volume nor resizes a drive that shows no size.
Accepts(gs, c) ==
    CASE c.op = "create" -> gs[c.vmid] = None
      [] c.op = "clone" -> /\ gs[c.vmid] = None
                           /\ Reaches(gs, c.source.vmid, c.source.node)
      [] c.op = "resize" -> /\ Reaches(gs, c.vmid, c.node)
                            /\ gs[c.vmid].disks[c.slot] # None
                            /\ gs[c.vmid].disks[c.slot].size \in 1..c.size
      [] OTHER -> Reaches(gs, c.vmid, c.node)

Stored(w) == [storage |-> w.storage, size |-> w.size, opts |-> w.opts]
Written(disks, writes) ==
    [s \in Slots |-> IF writes[s] = None THEN disks[s] ELSE Stored(writes[s])]

Created(c) ==
    [node |-> c.node, type |-> "qemu", pool |-> None, power |-> "stopped",
     config |-> c.config, disks |-> Written([s \in Slots |-> None], c.disks),
     detached |-> {}]

Cloned(source, c) ==
    [source EXCEPT !.node = c.node, !.pool = c.pool, !.power = "stopped",
                   !.config = Overlay(source.config, c.config),
                   !.detached = {}]

Updated(g, c) ==
    [g EXCEPT !.config = Overlay(g.config, c.config),
              !.disks = Written(g.disks, c.disks),
              !.detached = g.detached \cup
                  {s \in Slots : /\ g.disks[s] # None
                                 /\ c.disks[s] # None
                                 /\ c.disks[s].form = "allocate"}]

Resized(g, c) == [g EXCEPT !.disks[c.slot].size = c.size]

Powered(g, c) ==
    [g EXCEPT !.power = IF c.op = "start" THEN "running" ELSE "stopped"]

\* The cluster once the call's task has run.
Perform(gs, c) ==
    [gs EXCEPT ![c.vmid] =
        CASE c.op = "create" -> Created(c)
          [] c.op = "clone" -> Cloned(gs[c.source.vmid], c)
          [] c.op = "update" -> Updated(gs[c.vmid], c)
          [] c.op = "resize" -> Resized(gs[c.vmid], c)
          [] OTHER -> Powered(gs[c.vmid], c)]
=============================================================================
