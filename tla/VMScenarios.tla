---------------------------- MODULE VMScenarios ----------------------------
(***************************************************************************)
(* Manifests and clusters the runs of VMApply are made of.                 *)
(***************************************************************************)
EXTENDS VMPlan

NoFields == [f \in Fields |-> None]
NoOpts == [o \in OptKeys |-> None]
\* Slot 0 is ide2.
Volume(storage, size) == [storage |-> storage, size |-> size, opts |-> NoOpts]
Cached(d) == [d EXCEPT !.opts["cache"] = "wb"]
Formatted(d, f) == [d EXCEPT !.opts["format"] = f]
OneDisk(d) == [s \in Slots |-> IF s = 1 THEN d ELSE None]
TwoDisks(d, e) == [s \in Slots |-> IF s = 1 THEN d ELSE IF s = 2 THEN e ELSE None]

VM(name) ==
    [name |-> name, vmid |-> None, node |-> "n1", clone |-> None,
     pool |-> None, run |-> "Manual", fields |-> NoFields,
     password |-> FALSE, drive |-> None, disks |-> NoWrites]

\* A live guest with nothing but a name.
Live(name) ==
    [node |-> "n1", type |-> "qemu", pool |-> None, power |-> "stopped",
     config |-> [NoParams EXCEPT !["name"] = name], disks |-> NoWrites,
     detached |-> {}]

Container(name) == [Live(name) EXCEPT !.type = "lxc"]
Template ==
    [Live("tmpl") EXCEPT !.config["tags"] = "lo", !.config["cores"] = "lo",
                         !.disks = OneDisk(Volume("fast", 1))]

Only(v, g) == [w \in VMIDs |-> IF w = v THEN g ELSE None]
With(gs, v, g) == [gs EXCEPT ![v] = g]

-----------------------------------------------------------------------------
\* A virtual machine, declared in full and then edited.
Web == [VM("web") EXCEPT !.fields["cores"] = "lo", !.run = "Always", !.drive = "fast",
                         !.disks = OneDisk(Volume("fast", 1))]
WebGrown ==
    [VM("web") EXCEPT !.fields["cores"] = "hi", !.run = "Halted",
                      !.disks = TwoDisks(Cached(Volume("fast", 2)), Volume("slow", 1))]
WebMoved == [Web EXCEPT !.disks = OneDisk(Volume("slow", 2))]
WebBigger == [Web EXCEPT !.disks = OneDisk(Volume("fast", 2))]
WebElsewhere == [Web EXCEPT !.node = "n2"]
WebRaw == [Web EXCEPT !.disks = OneDisk(Formatted(Volume("fast", 1), "raw"))]
WebQcow == [Web EXCEPT !.disks = OneDisk(Formatted(Volume("fast", 2), "qcow2"))]
\* A disk in the slot of the cloud-init drive, and both.
WebOnIDE == [VM("web") EXCEPT !.disks[CloudInitSlot] = Volume("fast", 1)]
WebOnBoth == [WebOnIDE EXCEPT !.drive = "fast"]
WebPinned == [Web EXCEPT !.vmid = 102]

\* A clone, and one that declares a disk besides.
App == [VM("app") EXCEPT !.clone = "tmpl", !.pool = "prod", !.run = "Always",
                         !.fields["tags"] = "hi", !.fields["description"] = "hi",
                         !.password = TRUE]
AppWithDisk == [App EXCEPT !.disks = OneDisk(Volume("fast", 2))]
=============================================================================
