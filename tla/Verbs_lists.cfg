\* Lists of names, failures, late tasks, and vmids that are used again.
CONSTANTS
    VMIDs = {100, 101, 102, 103}
    Nodes = {"n1", "n2"}
    Names = {"web", "db", "mail"}
    Procs = {p1}
    Orders <- ListOrders
    Strangers <- Passersby
    Clusters <- ListClusters
    MaxFaults = 1
    MaxTimeouts = 1
    MaxMoves = 1
    None = None
SPECIFICATION FairSpec
INVARIANT TypeOK
PROPERTIES
    SuccessAchieves
    ContainersAreSafe
    EventuallyMigrated
