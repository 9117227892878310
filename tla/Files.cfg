CONSTANTS
    x = x
    y = y
    z = z
    w = w
    r1 = r1
    p = p
    q = q
    i1 = i1
    i2 = i2
    i3 = i3
    Writers = {w}
    Readers = {r1}
    Paths = {p, q}
    Inodes = {i1, i2, i3}
    None = None
    WriteTexts <- MCWriteTexts
    AppendTexts <- MCAppendTexts
    Spare = Spare
    Hole = Hole
    Junk = Junk
    M = 32
    MaxCapacity = 2
    MaxSize = 2
    OldText = {0, 1}
    DiskFails = TRUE
SPECIFICATION Spec
INVARIANTS TypeOK ReadsAreHonest ReadsAreOfOneWrite
CHECK_DEADLOCK FALSE
SYMMETRY Symmetry
