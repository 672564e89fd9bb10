SPECIFICATION FaultsSpec
CONSTANTS
    Keys = {1, 2, 3}
    NLevels = 2
    Level0Max = 2
    Fanout = 1
    Limit = 2
    Pickers = {"ONE"}
    MaxClock = 13
    MaxErrors = 1
INVARIANTS
    FaultsTypeOK
    KeysKept
    FirstVersionKept
    AgesWithDepth
    FilesAccounted
    ManifestsSound
    TroubleExplained
PROPERTIES
    ImplementsKVStore
