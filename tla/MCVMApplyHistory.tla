-------------------------- MODULE MCVMApplyHistory --------------------------
(***************************************************************************)
(* Instances of VMApplyHistory: runs one after the other, on a cluster     *)
(* that nobody else touches.                                               *)
(***************************************************************************)
EXTENDS VMApplyHistory, VMScenarios

LiveWeb == [Live("web") EXCEPT !.power = "running", !.config["tags"] = "lo",
                               !.disks = OneDisk(Cached(Volume("fast", 1)))]

RerunManifests == {Web, WebOnIDE, WebGrown, WebBigger, WebMoved, WebElsewhere, App}
RerunClusters ==
    {Only(100, Template), With(Only(100, Template), 101, LiveWeb),
     With(Only(100, Template), 102, Container("app"))}
=============================================================================
