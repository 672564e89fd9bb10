SPECIFICATION Spec
CONSTANTS
    Engines = {"QUARKSTORE", "QUARKSTORE_APPEND"}
    Keys = {1, 2, 3}
    Limit = 2
    LiveMax = 1
    MaxFlushes = 5
    MaxSessions = 2
    MaxErrors = 1
    None = None
    Hole = Hole
    Meta = Meta
INVARIANTS
    TablesReadBack
    NoBlockLost
    CurrentComplete
