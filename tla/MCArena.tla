------------------------------- MODULE MCArena -------------------------------
EXTENDS Arena

\* 32-bit sizes scaled to 5 bits: addresses and sizes are taken modulo 32.
MCWidth == 5
MCArenaSize == 8
MCPtrLen == 4
\* A linear memory short of the whole address space (wasm32 memories grow
\* in pages up to 4 GiB), and one that has grown to all of it.
MCMemBytes == 28
MCMemBytesFull == 32
\* len(s)+1 = 3 fits the arena; 30 wraps the bump test from next = 4 or 8;
\* 36 truncates to a size of 4.
MCLens == {2, 29, 35}
=============================================================================
