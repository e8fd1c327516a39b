-------------------------------- MODULE MCMmap --------------------------------
(* Two -shm files with two regions each, three region ids: enough for a    *)
(* region to be reused by the other file, for a failed Unmap to keep one   *)
(* taken, and for the pool to run out.  SQLite maps every region with the  *)
(* same size (32K), so there is one size.                                  *)
EXTENDS Mmap, TLC

CONSTANTS r1, r2, r3, s1, s2

MCRegions == {r1, r2, r3}
MCShms == {s1, s2}
MCIds == {0, 1}
MCSizes == {32768}

\* Region ids and files are interchangeable model values.
MCSymmetry == Permutations(MCRegions) \cup Permutations(MCShms)
=============================================================================
