------------------------------ MODULE MCBatch ------------------------------
(***************************************************************************)
(* Instances of Batch: a machine, a clone of it and a third one, declared  *)
(* in files of every shape.                                                *)
(***************************************************************************)
EXTENDS BatchProperties, VMScenarios

Lower == [w \in Words |-> CASE w = "VirtualMachine" -> "virtualmachine"
                            [] w = "Node" -> "node"
                            [] OTHER -> w]

GVK(group, kind) == [group |-> group, version |-> "v1", kind |-> kind]
VMs == [gvk |-> GVK("pve.io", "VirtualMachine"), aliases |-> {"vm", "virtualmachine"},
        can |-> Capabilities]
Instances == [VMs EXCEPT !.gvk = GVK("other.io", "VirtualMachine")]
ReadOnlyNodes == [gvk |-> GVK("pve.io", "Node"), aliases |-> {"node"}, can |-> {}]
BuiltIn == {<<VMs, ReadOnlyNodes, Instances>>}

Doc(m) == Object(<<"pve.io", "v1">>, "VirtualMachine", m)

Gold == [VM("gold") EXCEPT !.vmid = 101, !.fields["cores"] = "lo",
                           !.disks = OneDisk(Volume("fast", 2))]
Copy == [VM("app") EXCEPT !.vmid = 102, !.clone = "gold", !.pool = "prod",
                          !.run = "Always", !.fields["tags"] = "hi"]
Shop == [VM("web") EXCEPT !.vmid = 103, !.password = TRUE, !.drive = "fast", !.run = "Always",
                          !.fields["cores"] = "hi", !.disks = OneDisk(Volume("fast", 2))]

DocumentManifests == {Gold, Copy, Shop}

\* The clone's file comes after its source's; the listing says nothing of it.
Folder == <<Directory({Entry(2, "yaml", <<Doc(Copy)>>),
                       Entry(1, "yml", <<Empty, Doc(Gold)>>),
                       Entry(3, "md", <<Garbled>>)})>>
\* The first two documents are of no kind pvectl can apply.
Mixed == <<File(<<Object(<<"pve.io", "v1">>, "Node", Shop),
                  Object(<<"pve.io", "x", "v1">>, "VirtualMachine", Shop), Doc(Shop)>>)>>
Broken == <<File(<<Doc(Shop)>>), File(<<Object(<<"">>, "VirtualMachine", Shop), Garbled>>)>>
Blank == <<File(<<Empty>>)>>
Absent == <<File(<<Doc(Gold)>>), Missing>>

Given == {Folder, Mixed, Broken, Blank, Absent}

\* The third machine is there, smaller and under another name.
Old == [Live("old") EXCEPT !.disks = OneDisk(Volume("fast", 1))]
Standing == {Only(103, Old)}
=============================================================================
