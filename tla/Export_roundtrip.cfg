\* A running machine with a key stored with %2B, exported and replayed.
CONSTANTS
    None = None
    Numbers = {1, 2, 4}
    Rests = {"plain", "extra"}
    Plain = "plain"
    NetSlots = {0, 1}
    Models = {"virtio", "e1000"}
    Bridges = {"br", "lan"}
    VLANs = {5, 6}
    MACs = {"old", "new"}
    DriveSlots = {0, 1, 2}
    Storages = {"fast"}
    Caches = {"wb", "no"}
    Formats = {"raw"}
    KiB = 4
    KeyIDs = {1, 2}
    DefaultMemory = 1
    Machines <- Escapes
    Drafts <- HandWritten
    WantedNICs <- EditNICs
    WantedDisks <- EditDisks
    WantedKeys <- EditKeys
    MaxEdits = 0
    MaxFaults = 0
    MaxMoves = 0
SPECIFICATION Spec
PROPERTIES
    EveryRoundTripUnchanged
