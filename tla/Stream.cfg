CONSTANTS
    a = a
    b = b
    Bytes = {a, b}
    Newline = Newline
    Junk = Junk
    M = 8
    P = 16
    Limit = 3
    MaxChunk = 2
SPECIFICATION Spec
INVARIANTS TypeOK ReadsStayInside GrowsSafely
PROPERTY ImplementsByteStream
CHECK_DEADLOCK FALSE
