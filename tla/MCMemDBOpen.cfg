CONSTANTS
    h1 = h1
    h2 = h2
    h3 = h3
    k1 = k1
    d1 = d1
    d2 = d2
    d3 = d3
    None = None
    Handles <- MCHandles
    Keys <- MCKeys
    DBs <- MCDBs

SPECIFICATION Spec

INVARIANT TypeOK
INVARIANT OneDBPerName
INVARIANT LocksAgreePerDB
