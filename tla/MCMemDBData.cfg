CONSTANTS
    SectorSize <- MCSectorSize
    MaxSize <- MCMaxSize
    Bytes <- MCBytes

SPECIFICATION Spec

INVARIANT TypeOK
INVARIANT TailZero
PROPERTY ImplementsFileSpec
