----------------------------- MODULE MCVMApply -----------------------------
(***************************************************************************)
(* Instances of VMApply.                                                   *)
(***************************************************************************)
EXTENDS VMApplyProperties, VMScenarios

LiveWeb == [Live("web") EXCEPT !.power = "running", !.config["tags"] = "lo",
                               !.disks = OneDisk(Volume("fast", 1))]

\* One pvectl at a time, on manifests that are edited between runs, and
\* guests that turn up under a vmid looked up before.
EditedManifests ==
    {Web, WebOnIDE, WebGrown, WebMoved, WebElsewhere, WebRaw, WebQcow, App, AppWithDisk,
     WebPinned, [WebPinned EXCEPT !.vmid = 101]}
EditedClusters ==
    {Only(100, Template),
     With(Only(100, Template), 101, LiveWeb),
     With(Only(100, Template), 102, Container("app"))}
Passersby == {Container("mail"), Live("web")}

\* What creation leaves out: a pool, and a disk in the slot of the
\* cloud-init drive.
LeftOutManifests == {[WebOnBoth EXCEPT !.pool = "prod"]}
BareClusters == {Only(100, Template)}

\* Two pvectl on one guest, one for its size and one for its labels, and a
\* third manifest for a guest beside it.
Sizing == [VM("web") EXCEPT !.fields["cores"] = "hi", !.run = "Always",
                            !.disks = OneDisk(Volume("fast", 2))]
Labelling == [VM("web") EXCEPT !.fields["tags"] = "hi", !.fields["description"] = "hi"]
Database == [VM("db") EXCEPT !.fields["tags"] = "hi", !.run = "Halted"]
SharedManifests == {Sizing, Labelling, Database}
LiveDatabase == [Live("db") EXCEPT !.power = "running", !.config["cores"] = "lo",
                                   !.disks = OneDisk(Volume("slow", 1))]
SharedClusters ==
    {With(With(Only(100, LiveWeb), 101, LiveDatabase), 102, Live("mail")),
     With(Only(100, [LiveWeb EXCEPT !.power = "stopped"]), 101, LiveDatabase)}
=============================================================================
