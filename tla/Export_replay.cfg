\* Export, edit and apply, on machines of every kind, with others at work.
CONSTANTS
    None = None
    Numbers = {1, 2, 4}
    Rests = {"plain", "extra"}
    Plain = "plain"
    NetSlots = {0, 1}
    Models = {"virtio", "e1000"}
    Bridges = {"br", "lan"}
    VLANs = {5, 6}
    MACs = {"old", "new"}
    DriveSlots = {0, 1, 2}
    Storages = {"fast"}
    Caches = {"wb", "no"}
    Formats = {"raw"}
    KiB = 4
    KeyIDs = {1, 2}
    DefaultMemory = 1
    Machines <- AllMachines
    Drafts <- HandWritten
    WantedNICs <- EditNICs
    WantedDisks <- EditDisks
    WantedKeys <- EditKeys
    MaxEdits = 1
    MaxFaults = 1
    MaxMoves = 1
SPECIFICATION Spec
INVARIANTS
    TypeOK
    AppliedIsSettled
PROPERTIES
    
    OnlyEditsAreApplied
    ReplayNeverStops
