SPECIFICATION Spec
CONSTANTS
    Keys = {1, 2, 3}
    Times = {1, 2, 3}
    Limit = 2
    None = None
INVARIANTS
    AssertsHold
PROPERTIES
    ImplementsMerge
