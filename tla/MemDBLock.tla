------------------------------ MODULE MemDBLock ------------------------------
(***************************************************************************)
(* The advisory locking of the memory VFS (vfs/memdb/memdb.go): several    *)
(* memFile handles, each used by its own connection thread, share one      *)
(* memDB.  The memDB keeps, under lockMtx, the handle holding PENDING, the *)
(* handle holding RESERVED and the number of handles holding SHARED or     *)
(* more; each memFile keeps its own level in m.lock.                       *)
(*                                                                         *)
(* Every action runs with lockMtx held, except that Lock(EXCLUSIVE)        *)
(* releases the mutex between polls of the shared count: its wait is the   *)
(* separate action SpinWait, and other handles act in between.             *)
(*                                                                         *)
(* The engine calls Lock and Unlock the way SQLite's pager does: SHARED    *)
(* from NONE, RESERVED from SHARED, EXCLUSIVE from SHARED, RESERVED or     *)
(* PENDING, and Unlock down to SHARED or NONE (Close is Unlock(NONE)).     *)
(* Requests for a level already held return at once and change nothing.   *)
(***************************************************************************)
EXTENDS VfsLockLevel, FiniteSets

CONSTANTS
    Files,      \* the memFile handles opened on one shared memDB
    ReadOnly,   \* the handles opened with OPEN_READONLY
    None        \* the nil *memFile

ASSUME ReadOnly \subseteq Files
ASSUME None \notin Files

VARIABLES
    lock,       \* m.lock of each memFile
    pending,    \* memDB.pending
    reserved,   \* memDB.reserved
    shared,     \* memDB.shared
    pc,         \* "idle", or "spin" inside the Lock(EXCLUSIVE) wait loop
    rc,         \* result of the handle's last Lock or Unlock call
    checkOut    \* result of the handle's last CheckReservedLock call

vars == <<lock, pending, reserved, shared, pc, rc, checkOut>>

Results == {"none", "OK", "BUSY", "IOERR_LOCK"}

TypeOK ==
    /\ lock \in [Files -> LockLevels]
    /\ pending \in Files \cup {None}
    /\ reserved \in Files \cup {None}
    /\ shared \in 0 .. Cardinality(Files)
    /\ pc \in [Files -> {"idle", "spin"}]
    /\ rc \in [Files -> Results]
    /\ checkOut \in [Files -> BOOLEAN]

Init ==
    /\ lock = [f \in Files |-> LOCK_NONE]
    /\ pending = None
    /\ reserved = None
    /\ shared = 0
    /\ pc = [f \in Files |-> "idle"]
    /\ rc = [f \in Files |-> "none"]
    /\ checkOut = [f \in Files |-> FALSE]

Idle(f) == pc[f] = "idle"

Return(f, r) == rc' = [rc EXCEPT ![f] = r]

-----------------------------------------------------------------------------
(* Lock(lock) of memFile: the early returns, then one case per level.      *)

\* A read-only handle may not take RESERVED or more.
LockReadOnly(f, l) ==
    /\ Idle(f)
    /\ f \in ReadOnly
    /\ l >= LOCK_RESERVED
    /\ lock[f] < l
    /\ Return(f, "IOERR_LOCK")
    /\ UNCHANGED <<lock, pending, reserved, shared, pc, checkOut>>

\* Mutant: the SHARED case without its check of memDB.pending.
LockSharedIgnoringPending(f) ==
    /\ Idle(f)
    /\ lock[f] = LOCK_NONE
    /\ shared' = shared + 1
    /\ lock' = [lock EXCEPT ![f] = LOCK_SHARED]
    /\ Return(f, "OK")
    /\ UNCHANGED <<pending, reserved, pc, checkOut>>

LockShared(f) ==
    /\ Idle(f)
    /\ lock[f] = LOCK_NONE
    /\ IF pending # None
          THEN /\ Return(f, "BUSY")
               /\ UNCHANGED <<lock, shared>>
          ELSE /\ shared' = shared + 1
               /\ lock' = [lock EXCEPT ![f] = LOCK_SHARED]
               /\ Return(f, "OK")
    /\ UNCHANGED <<pending, reserved, pc, checkOut>>

LockReserved(f) ==
    /\ Idle(f)
    /\ f \notin ReadOnly
    /\ lock[f] = LOCK_SHARED
    /\ IF reserved # None
          THEN /\ Return(f, "BUSY")
               /\ UNCHANGED <<lock, reserved>>
          ELSE /\ reserved' = f
               /\ lock' = [lock EXCEPT ![f] = LOCK_RESERVED]
               /\ Return(f, "OK")
    /\ UNCHANGED <<pending, shared, pc, checkOut>>

\* Claims PENDING unless already held, then makes the first poll of the
\* shared count; if other handles still read, it releases lockMtx and spins.
LockExclusive(f) ==
    /\ Idle(f)
    /\ f \notin ReadOnly
    /\ lock[f] \in {LOCK_SHARED, LOCK_RESERVED, LOCK_PENDING}
    /\ IF lock[f] < LOCK_PENDING /\ pending # None
          THEN /\ Return(f, "BUSY")
               /\ UNCHANGED <<lock, pending, pc>>
          ELSE /\ pending' = IF lock[f] < LOCK_PENDING THEN f ELSE pending
               /\ IF shared > 1
                     THEN /\ lock' = [lock EXCEPT ![f] = LOCK_PENDING]
                          /\ pc' = [pc EXCEPT ![f] = "spin"]
                          /\ UNCHANGED rc
                     ELSE /\ lock' = [lock EXCEPT ![f] = LOCK_EXCLUSIVE]
                          /\ Return(f, "OK")
                          /\ UNCHANGED pc
    /\ UNCHANGED <<reserved, shared, checkOut>>

\* Mutant: a wait that times out gives PENDING back ("m.pending = nil")
\* while m.lock stays PENDING.
SpinWaitReleasingPending(f) ==
    /\ pc[f] = "spin"
    /\ pc' = [pc EXCEPT ![f] = "idle"]
    /\ \/ /\ shared <= 1
          /\ lock' = [lock EXCEPT ![f] = LOCK_EXCLUSIVE]
          /\ Return(f, "OK")
          /\ UNCHANGED pending
       \/ /\ shared > 1
          /\ Return(f, "BUSY")
          /\ pending' = None
          /\ UNCHANGED lock
    /\ UNCHANGED <<reserved, shared, checkOut>>

\* One more poll of the wait loop, with lockMtx taken again: the readers
\* have drained, or the 25us budget has run out and the call fails BUSY
\* still holding PENDING, or (a stuttering step) it yields again.
SpinWait(f) ==
    /\ pc[f] = "spin"
    /\ pc' = [pc EXCEPT ![f] = "idle"]
    /\ \/ /\ shared <= 1
          /\ lock' = [lock EXCEPT ![f] = LOCK_EXCLUSIVE]
          /\ Return(f, "OK")
       \/ /\ shared > 1
          /\ Return(f, "BUSY")
          /\ UNCHANGED lock
    /\ UNCHANGED <<pending, reserved, shared, checkOut>>

-----------------------------------------------------------------------------
(* Unlock(lock) of memFile; Close is Unlock(LOCK_NONE).                    *)

\* Mutant: "if lock <= LOCK_SHARED { m.shared-- }", an off-by-one.
UnlockDecrementingAtShared(f, l) ==
    /\ Idle(f)
    /\ l \in {LOCK_NONE, LOCK_SHARED}
    /\ lock[f] > l
    /\ pending' = IF pending = f THEN None ELSE pending
    /\ reserved' = IF reserved = f THEN None ELSE reserved
    /\ shared' = IF l <= LOCK_SHARED THEN shared - 1 ELSE shared
    /\ lock' = [lock EXCEPT ![f] = l]
    /\ Return(f, "OK")
    /\ UNCHANGED <<pc, checkOut>>

Unlock(f, l) ==
    /\ Idle(f)
    /\ l \in {LOCK_NONE, LOCK_SHARED}
    /\ lock[f] > l
    /\ pending' = IF pending = f THEN None ELSE pending
    /\ reserved' = IF reserved = f THEN None ELSE reserved
    /\ shared' = IF l < LOCK_SHARED THEN shared - 1 ELSE shared
    /\ lock' = [lock EXCEPT ![f] = l]
    /\ Return(f, "OK")
    /\ UNCHANGED <<pc, checkOut>>

CheckReservedLock(f) ==
    /\ Idle(f)
    /\ checkOut' = [checkOut EXCEPT ![f] = lock[f] >= LOCK_RESERVED \/ reserved # None]
    /\ UNCHANGED <<lock, pending, reserved, shared, pc, rc>>

-----------------------------------------------------------------------------
Next ==
    \E f \in Files :
        \/ \E l \in {LOCK_RESERVED, LOCK_EXCLUSIVE} : LockReadOnly(f, l)
        \/ LockShared(f)
        \/ LockReserved(f)
        \/ LockExclusive(f)
        \/ SpinWait(f)
        \/ \E l \in {LOCK_NONE, LOCK_SHARED} : Unlock(f, l)
        \/ CheckReservedLock(f)

(* Fairness.  The wait loop runs to its end (SpinWait); a writer left at  *)
(* PENDING by a BUSY wait retries Lock(EXCLUSIVE), as the engine's busy    *)
(* handler does; and every transaction of another handle, reading at      *)
(* SHARED or waiting at RESERVED, ends and drops its lock, as the engine   *)
(* does when it commits, rolls back or gives up on BUSY.  Nothing forces a *)
(* handle to take a lock, or a writer at PENDING to give up.              *)
Fairness ==
    \A f \in Files :
        /\ WF_vars(SpinWait(f))
        /\ WF_vars(lock[f] = LOCK_PENDING /\ LockExclusive(f))
        /\ WF_vars(pending # f /\ lock[f] \in {LOCK_SHARED, LOCK_RESERVED} /\ Unlock(f, LOCK_NONE))

Spec == Init /\ [][Next]_vars /\ Fairness

-----------------------------------------------------------------------------
(* The refinement mapping: the abstract level of a handle is its m.lock.   *)
Abs == INSTANCE LockSpec WITH level <- lock

(* The memDB bookkeeping agrees with the levels the handles believe they   *)
(* hold: shared counts the handles at SHARED or more, and pending and      *)
(* reserved name exactly the handles whose level needs them.  Unlock must  *)
(* undo precisely what the Lock cases did, across every path down.         *)
BookkeepingAgrees ==
    /\ shared = Cardinality({f \in Files : lock[f] >= LOCK_SHARED})
    /\ \A f \in Files : lock[f] >= LOCK_PENDING => pending = f
    /\ \A f \in Files : lock[f] = LOCK_RESERVED => reserved = f
    /\ pending # None => lock[pending] >= LOCK_PENDING
    /\ reserved # None => lock[reserved] >= LOCK_RESERVED

(* Every step of the memory VFS is a step the abstract lock allows, so the *)
(* levels stay Compatible: while a handle holds EXCLUSIVE no other handle  *)
(* holds any lock, RESERVED and PENDING-or-more have one holder each, and  *)
(* no SHARED lock is granted while PENDING is claimed.  It rests on        *)
(* Lock(SHARED) checking pending, Lock(RESERVED) checking reserved and the *)
(* Lock(EXCLUSIVE) wait loop polling a shared counter that other handles   *)
(* change while the mutex is released.                                     *)
ImplementsLockSpec == Abs!Spec

(* A writer that holds PENDING is not starved by readers: it leaves        *)
(* PENDING, by getting EXCLUSIVE unless it gives up.  PENDING refuses new  *)
(* SHARED locks, and a BUSY wait keeps it, so the readers drain while the  *)
(* writer retries; were PENDING given back, readers taking turns could     *)
(* keep the shared count above one at every poll.                          *)
WriterNotStarved ==
    \A f \in Files : lock[f] = LOCK_PENDING ~> lock[f] # LOCK_PENDING
=============================================================================
