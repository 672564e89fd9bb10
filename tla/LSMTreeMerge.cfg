SPECIFICATION FairSpec
CONSTANTS
    Keys = {1, 2, 3}
    NLevels = 2
    Level0Max = 1
    Fanout = 1
    Limit = 2
    Pickers = {"ALL"}
    MaxClock = 14
PROPERTY
    NewestKept
