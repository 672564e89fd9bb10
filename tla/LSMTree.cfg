SPECIFICATION FairSpec
CONSTANTS
    Keys = {1, 2, 3}
    NLevels = 3
    Level0Max = 1
    Fanout = 1
    Limit = 2
    Pickers = {"ALL", "ONE"}
    MaxClock = 14
INVARIANTS
    TypeOK
    RecencyOrder
    SortedRuns
    NoAbort
    LevelsBounded
    StorageAgrees
    NewestHeldRead
PROPERTIES
    PutReturns
