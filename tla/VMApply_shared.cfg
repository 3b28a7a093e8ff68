\* Two pvectl at once on the same guests, disjoint keys, and late tasks.
CONSTANTS
    None = None
    VMIDs = {100, 101, 102}
    Nodes = {"n1", "n2"}
    Names = {"web", "db", "mail"}
    Pools = {"prod"}
    Tunables = {"cores", "tags"}
    Value = {"lo", "hi"}
    Slots = {0, 1, 2}
    CloudInitSlot = 0
    Storages = {"fast", "slow"}
    Sizes = {0, 1, 2}
    OptVals = {"wb", "raw", "qcow2"}
    Procs = {p1, p2}
    Manifests <- SharedManifests
    Modes = {"apply"}
    Clusters <- SharedClusters
    Strangers = {}
    MaxFaults = 1
    MaxTimeouts = 1
    MaxMoves = 0
SPECIFICATION Spec
INVARIANTS
    NoLostUpdate
    OnlyDeclaredWrites
PROPERTY OnlyDeclaredChanges
