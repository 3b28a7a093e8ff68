\* Runs of every kind, one after the other.
CONSTANTS
    None = None
    VMIDs = {100, 101, 102}
    Nodes = {"n1", "n2"}
    Names = {"tmpl", "web", "app"}
    Pools = {"prod"}
    Tunables = {"cores", "tags"}
    Value = {"lo", "hi"}
    Slots = {0, 1, 2}
    CloudInitSlot = 0
    Storages = {"fast", "slow"}
    Sizes = {0, 1, 2}
    OptVals = {"wb", "raw", "qcow2"}
    Procs = {p1}
    Manifests <- RerunManifests
    Modes = {"apply", "client", "server", "diff"}
    Clusters <- RerunClusters
    Strangers = {}
    MaxFaults = 1
    MaxTimeouts = 0
    MaxMoves = 0
SPECIFICATION HSpec
INVARIANT DiffTellsTheWrites
PROPERTIES
    ReapplyIsNoop
    ForecastHolds
    DifferenceIsActedOn
    DryRunsWriteNothing
