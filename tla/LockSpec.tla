------------------------------ MODULE LockSpec ------------------------------
(***************************************************************************)
(* What every VFS file-locking implementation promises the SQLite engine:  *)
(* per file handle a lock level, moved up one request at a time and down   *)
(* to SHARED or NONE, such that                                            *)
(*   - no new SHARED lock is granted while someone holds PENDING or more;  *)
(*   - at most one handle holds RESERVED;                                  *)
(*   - at most one handle holds PENDING or EXCLUSIVE;                      *)
(*   - a handle holding EXCLUSIVE is the only handle holding any lock.     *)
(* A failed (BUSY) request is a stuttering step of this specification.     *)
(***************************************************************************)
EXTENDS VfsLockLevel, FiniteSets

CONSTANT Files

VARIABLE level

Others(f) == Files \ {f}

Init == level = [f \in Files |-> LOCK_NONE]

AcquireShared(f) ==
    /\ level[f] = LOCK_NONE
    /\ \A g \in Files : level[g] < LOCK_PENDING
    /\ level' = [level EXCEPT ![f] = LOCK_SHARED]

AcquireReserved(f) ==
    /\ level[f] = LOCK_SHARED
    /\ \A g \in Others(f) : level[g] # LOCK_RESERVED
    /\ level' = [level EXCEPT ![f] = LOCK_RESERVED]

AcquirePending(f) ==
    /\ level[f] \in {LOCK_SHARED, LOCK_RESERVED}
    /\ \A g \in Others(f) : level[g] < LOCK_PENDING
    /\ level' = [level EXCEPT ![f] = LOCK_PENDING]

AcquireExclusive(f) ==
    /\ level[f] \in {LOCK_SHARED, LOCK_RESERVED, LOCK_PENDING}
    /\ \A g \in Others(f) : level[g] = LOCK_NONE
    /\ level' = [level EXCEPT ![f] = LOCK_EXCLUSIVE]

Release(f, to) ==
    /\ to \in {LOCK_NONE, LOCK_SHARED}
    /\ to < level[f]
    /\ level' = [level EXCEPT ![f] = to]

Next ==
    \E f \in Files :
        \/ AcquireShared(f)
        \/ AcquireReserved(f)
        \/ AcquirePending(f)
        \/ AcquireExclusive(f)
        \/ \E to \in {LOCK_NONE, LOCK_SHARED} : Release(f, to)

Spec == Init /\ [][Next]_level

(* The compatibility of lock levels that the engine's isolation rests on.  *)
Compatible ==
    /\ Cardinality({f \in Files : level[f] = LOCK_RESERVED}) <= 1
    /\ Cardinality({f \in Files : level[f] >= LOCK_PENDING}) <= 1
    /\ \A f \in Files :
          level[f] = LOCK_EXCLUSIVE => \A g \in Others(f) : level[g] = LOCK_NONE
=============================================================================
