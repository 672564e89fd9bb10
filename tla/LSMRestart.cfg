SPECIFICATION RestartSpec
CONSTANTS
    Keys = {1, 2, 3}
    NLevels = 3
    Level0Max = 1
    Fanout = 1
    Limit = 2
    Pickers = {"ALL", "ONE"}
    MaxClock = 5
    MaxErrors = 1
    Stores <- EmptyAndDeep
    MaxSessions = 2
    CrashesAllowed = TRUE
    UsesUnopened = TRUE
    Garbage = {0, 9}
INVARIANTS
    Recoverable
    IdsUnique
    TreeAgrees
PROPERTIES
    FilesImmutable
    DurableKeysStay
