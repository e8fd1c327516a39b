------------------------------ MODULE MCVfsHost ------------------------------
(* Two handles on one name and two inodes: a handle can keep a deleted    *)
(* file open while the other creates the name again, and a closed slot is *)
(* reused.  Files of up to two bytes, reads and writes of up to two.      *)
EXTENDS VfsHost, TLC

CONSTANTS h1, h2, p1, i1, i2

MCHandles == {h1, h2}
MCPaths == {p1}
MCInodes == {i1, i2}
MCMaxSize == 2
MCMaxAmt == 2
MCBytes == {1}

\* Handles and inodes are interchangeable model values.
MCSymmetry == Permutations(MCHandles) \cup Permutations(MCInodes)
=============================================================================
