CONSTANTS
    Width <- MCWidth
    ArenaSize <- MCArenaSize
    PtrLen <- MCPtrLen
    MemBytes <- MCMemBytes
    Lens <- MCLens

SPECIFICATION Spec
\* A range or out-of-memory panic ends the process: "dead" has no successor.
CHECK_DEADLOCK FALSE
INVARIANT TypeOK
INVARIANT MarshalledArgsOwned
INVARIANT NoSpillLeak
