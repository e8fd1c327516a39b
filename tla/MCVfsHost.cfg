CONSTANTS
    h1 = h1
    h2 = h2
    p1 = p1
    i1 = i1
    i2 = i2
    Nil = Nil
    Garbage = Garbage
    Handles <- MCHandles
    Paths <- MCPaths
    Inodes <- MCInodes
    MaxSize <- MCMaxSize
    MaxAmt <- MCMaxAmt
    Bytes <- MCBytes

SPECIFICATION Spec
SYMMETRY MCSymmetry

INVARIANT TypeOK
INVARIANT OpenHandleOwnsSlot
INVARIANT TableBounded
