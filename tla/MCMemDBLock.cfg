CONSTANTS
    f1 = f1
    f2 = f2
    f3 = f3
    None = None
    Files <- MCFiles
    ReadOnly <- MCReadOnly

SPECIFICATION Spec

INVARIANT TypeOK
INVARIANT BookkeepingAgrees
PROPERTY ImplementsLockSpec
PROPERTY WriterNotStarved
