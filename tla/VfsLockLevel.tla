---------------------------- MODULE VfsLockLevel ----------------------------
(***************************************************************************)
(* The five advisory lock levels of the vfs package (vfs.LockLevel), with  *)
(* the numeric values SQLite gives them, so that "lock >= level"           *)
(* comparisons in the Go code translate directly.                          *)
(***************************************************************************)
EXTENDS Naturals

LOCK_NONE      == 0
LOCK_SHARED    == 1
LOCK_RESERVED  == 2
LOCK_PENDING   == 3
LOCK_EXCLUSIVE == 4

LockLevels == LOCK_NONE .. LOCK_EXCLUSIVE
=============================================================================
