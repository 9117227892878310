CONSTANTS
    t1 = t1
    t2 = t2
    object = object
    AvmError = AvmError
    AvmDetailedError = AvmDetailedError
    e1 = e1
    e2 = e2
    Null = Null
    Type <- MCTypes
    ObjectType = object
    BaseOf <- MCBaseOf
    Threads = {t1, t2}
    MainThread = t1
    Objects = {e1, e2}
    TypeOf <- MCTypeOf
    CatchLists <- MCCatchLists
    MaxDepth = 2
    Careless = {t2}
SPECIFICATION Spec
INVARIANTS ChainMatchesBlocks
PROPERTIES UndefinedNeedsBrokenChain
CHECK_DEADLOCK FALSE
