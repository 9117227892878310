CONSTANTS
    M = 32
    ItemSize = 1
    Limit = 15
SPECIFICATION Spec
INVARIANTS TypeOK StorageSafe
CHECK_DEADLOCK FALSE
