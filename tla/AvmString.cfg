CONSTANTS
    a = a
    b = b
    Chars = {a, b, Nul}
    Nul = Nul
    Junk = Junk
    M = 8
    Limit = 3
    MaxChunk = 2
    Mappings <- MCMappings
SYMMETRY Symmetry
SPECIFICATION Spec
INVARIANTS TypeOK TextIsInitialised  
PROPERTIES ImplementsText ImplementsStorage
CHECK_DEADLOCK FALSE
