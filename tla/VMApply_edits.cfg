\* One pvectl at a time, manifests edited between runs, with operators at work.
CONSTANTS
    None = None
    VMIDs = {100, 101, 102}
    Nodes = {"n1", "n2"}
    Names = {"tmpl", "web", "app", "mail"}
    Pools = {"prod"}
    Tunables = {"cores", "tags"}
    Value = {"lo", "hi"}
    Slots = {0, 1, 2}
    CloudInitSlot = 0
    Storages = {"fast", "slow"}
    Sizes = {0, 1, 2}
    OptVals = {"wb", "raw", "qcow2"}
    Procs = {p1}
    Manifests <- EditedManifests
    Modes = {"apply", "client"}
    Clusters <- EditedClusters
    Strangers <- Passersby
    MaxFaults = 1
    MaxTimeouts = 0
    MaxMoves = 1
SPECIFICATION Spec
INVARIANTS
    TypeOK
PROPERTIES
    SuccessConverges
    NeverDestroys
    NeverDuplicates
