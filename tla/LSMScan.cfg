SPECIFICATION ClientsSpec
CONSTANTS
    Keys = {1, 2, 3, 4}
    NLevels = 3
    Level0Max = 1
    Fanout = 1
    Limit = 2
    Pickers = {"ALL"}
    MaxClock = 24
    MaxLen = 4
    NoScan = NoScan
    RecordCounts = {2, 3}
    Operations = 2
    PrepopulateSizes = {0, 1}
    ReadSizes = {0, 3}
    WriteSizes = {0, 3}
    MaxAnyClock = 9
INVARIANTS
    ScanIncreasing
    ScanComplete
    RequestedKeysFound
    LoadedStoreReopens
    ManualAssert
PROPERTIES
    ScanReturns
    RunsEnd
