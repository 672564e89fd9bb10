SPECIFICATION Spec
CONSTANTS
    Keys = {1, 2, 3, 4, 5, 6, 7}
    Limits = {1, 2, 3, 4, 6}
    EntriesPerBlock = 2
INVARIANTS
    LookupFindsAll
    SeekFindsRest
    FullTableParses
