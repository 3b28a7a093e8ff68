\* A pool on a machine that is no clone, a disk in the slot of its cloud-init drive.
CONSTANTS
    None = None
    VMIDs = {100, 101, 102}
    Nodes = {"n1", "n2"}
    Names = {"tmpl", "web", "app"}
    Pools = {"prod"}
    Tunables = {"cores", "tags"}
    Value = {"lo", "hi"}
    Slots = {0, 1, 2}
    CloudInitSlot = 0
    Storages = {"fast", "slow"}
    Sizes = {0, 1, 2}
    OptVals = {"wb", "raw", "qcow2"}
    Procs = {p1}
    Manifests <- LeftOutManifests
    Modes = {"apply"}
    Clusters <- BareClusters
    Strangers = {}
    MaxFaults = 0
    MaxTimeouts = 0
    MaxMoves = 0
SPECIFICATION Spec
PROPERTIES
    SuccessConverges
