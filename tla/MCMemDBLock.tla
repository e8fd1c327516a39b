----------------------------- MODULE MCMemDBLock -----------------------------
(* Three handles on one shared memory database; the third is read-only.   *)
EXTENDS MemDBLock

CONSTANTS f1, f2, f3

MCFiles == {f1, f2, f3}
MCReadOnly == {f3}
=============================================================================
