SPECIFICATION RestartSpec
CONSTANTS
    Keys = {1, 2, 3}
    NLevels = 3
    Level0Max = 1
    Fanout = 1
    Limit = 2
    Pickers = {"ALL"}
    MaxClock = 6
    MaxErrors = 0
    Stores <- JustEmpty
    UsesUnopened = FALSE
    MaxSessions = 2
    CrashesAllowed = FALSE
    Garbage = {0}
INVARIANT
    ParseSurvives
