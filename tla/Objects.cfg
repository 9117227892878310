CONSTANTS
    Objs = {o1, o2, o3}
    Resources = {r1, r2, r3}
    Contents = {c1, c2}
    object = object
    error = error
    string = string
    stream = stream
    Types = {object, error, string, stream}
    Entries <- MCEntries
    Functions <- MCFunctions
    PointerSize = 8
    n1 = n1
    n2 = n2
    EnumTables <- MCEnumTables
    MaxMembers = 2
    EnumNames = {n1, n2, n3}
    EnumValues = {0, 1, 2}
    NoResource = NoResource
    Junk = Junk
    NoObject = NoObject
    NoName = NoName
SYMMETRY Symmetry
SPECIFICATION Spec
INVARIANTS TypeOK DeepTypesOwnTheirResource  EnumQueriesAgree
CHECK_DEADLOCK FALSE
