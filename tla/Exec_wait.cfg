\* Every order of replies, losses, the command's end and the deadline.
CONSTANTS
    Codes <- EdgeCodes
    Signals <- EdgeSignals
    None = None
SPECIFICATION FairSpec
INVARIANTS
    TypeOK
    SuccessIsTheCommands
PROPERTIES
    KeepsPromise
    AlwaysReturns
    NoLeak
CHECK_DEADLOCK FALSE
