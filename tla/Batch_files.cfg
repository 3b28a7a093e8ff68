\* Several documents at a time, applied again and again through failures.
CONSTANTS
    None = None
    Unknown = Unknown
    Undecodable = Undecodable
    VMIDs = {101, 102, 103}
    Nodes = {"n1"}
    Names = {"gold", "web", "app", "old"}
    Pools = {"prod"}
    Tunables = {"cores", "tags"}
    Value = {"lo", "hi"}
    Slots = {0, 1}
    CloudInitSlot = 0
    Storages = {"fast"}
    Sizes = {0, 1, 2}
    OptVals = {"wb"}
    Procs = {p1}
    Manifests <- DocumentManifests
    Modes = {"apply", "diff"}
    Clusters <- Standing
    Strangers = {}
    MaxFaults = 1
    MaxTimeouts = 1
    MaxMoves = 1
    Words = {"VirtualMachine", "Node", "virtualmachine", "vm", "node"}
    LowerCase <- Lower
    Groups = {"", "pve.io", "other.io"}
    Versions = {"v1"}
    Inputs <- Given
    Handlers <- BuiltIn
    MaxOutages = 1
SPECIFICATION BFairSpec
INVARIANTS
    BTypeOK
    FailuresAreCounted
    ExitTellsTheCluster
    OneApplyIsEnough
    LookupsAgree
PROPERTIES
    EventuallyConverged
    Spec
