CONSTANTS
    o1 = o1
    o2 = o2
    o3 = o3
    o4 = o4
    Objects = {o1, o2, o3, o4}
    EqualTo <- MCEqualTo
    Throwing = {}
    Junk = Junk
    M = 8
    Limit = 3
    InsertsInside = TRUE
SPECIFICATION Spec
PROPERTY InsertKeepsOthers
CHECK_DEADLOCK FALSE
