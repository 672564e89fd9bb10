SPECIFICATION CodecSpec
CONSTANTS
    LevelCounts = {1, 2, 3}
    MaxTables = 3
    TableIds = {0, 1, 2, 3, 4}
    BlockWords = 7
INVARIANTS
    RoundTrip
