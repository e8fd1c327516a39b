------------------------------ MODULE MemDBOpen ------------------------------
(***************************************************************************)
(* The memory VFS's databases as the handles see them (vfs/memdb/memdb.go): *)
(* memVFS.Open gives every handle a memDB, found in the process-wide      *)
(* registry memoryDBs for a name "/key", new and private for any other    *)
(* name; the handles of one memDB then share its lock bookkeeping, and    *)
(* memFile.Close (Unlock(NONE)) gives their locks back.                   *)
(*                                                                         *)
(* Open runs on the opener's thread and holds memoryMtx from the lookup   *)
(* to the store for a shared name; the model splits it at the mutex so    *)
(* that other handles' steps interleave with it.  Locking is reduced to   *)
(* SHARED and RESERVED, whose cases do not involve PENDING (MemDBLock     *)
(* models all five levels on one memDB).  A memDB that no handle and no   *)
(* registry entry reaches is garbage: its id may be reused.               *)
(***************************************************************************)
EXTENDS VfsLockLevel, FiniteSets, Functions

CONSTANTS
    Handles,    \* the engine's sqlite3_file structs opened on this VFS
    Keys,       \* registry keys: a handle opens "/key" or the private "key"
    DBs,        \* ids for the memDB values new(memDB) allocates
    None        \* nil

ASSUME None \notin Handles \cup DBs

VARIABLES
    registry,   \* memoryDBs: key -> *memDB
    memoryMtx,  \* the Open holding memoryMtx, or None
    pc,         \* "closed", "open" (between lookup and store), "ready"
    req,        \* the name and flags of the handle's Open
    found,      \* Open's local db after the lookup
    db,         \* memFile.memDB of each handle
    readOnly,   \* memFile.readOnly
    lock,       \* memFile.lock
    reserved,   \* memDB.reserved of each memDB
    shared,     \* memDB.shared of each memDB
    rc          \* result of the handle's last call

vars == <<registry, memoryMtx, pc, req, found, db, readOnly, lock, reserved, shared, rc>>

Name == [shared : BOOLEAN, key : Keys]
Flags == [types : BOOLEAN, create : BOOLEAN, readonly : BOOLEAN]
\* What req holds before a handle's first Open.
NoRequest == [name |-> [shared |-> FALSE, key |-> CHOOSE k \in Keys : TRUE],
              flags |-> [types |-> FALSE, create |-> FALSE, readonly |-> FALSE]]

Results == {"none", "OK", "CANTOPEN", "BUSY", "IOERR_LOCK"}

TypeOK ==
    /\ registry \in [Keys -> DBs \cup {None}]
    /\ memoryMtx \in Handles \cup {None}
    /\ pc \in [Handles -> {"closed", "open", "ready"}]
    /\ req \in [Handles -> [name : Name, flags : Flags]]
    /\ found \in [Handles -> DBs \cup {None}]
    /\ db \in [Handles -> DBs \cup {None}]
    /\ readOnly \in [Handles -> BOOLEAN]
    /\ lock \in [Handles -> {LOCK_NONE, LOCK_SHARED, LOCK_RESERVED}]
    /\ reserved \in [DBs -> Handles \cup {None}]
    /\ shared \in [DBs -> 0 .. Cardinality(Handles)]
    /\ rc \in [Handles -> Results]

Init ==
    /\ registry = [k \in Keys |-> None]
    /\ memoryMtx = None
    /\ pc = [h \in Handles |-> "closed"]
    /\ req = [h \in Handles |-> NoRequest]
    /\ found = [h \in Handles |-> None]
    /\ db = [h \in Handles |-> None]
    /\ readOnly = [h \in Handles |-> FALSE]
    /\ lock = [h \in Handles |-> LOCK_NONE]
    /\ reserved = [d \in DBs |-> None]
    /\ shared = [d \in DBs |-> 0]
    /\ rc = [h \in Handles |-> "none"]

\* new(memDB): an id no handle, pending Open or registry entry reaches.
FreshDBs == DBs \ (Range(registry) \cup Range(db) \cup Range(found))

\* The memFile returned to the engine: memDB d, readOnly from the flags.
Opened(h, d, f) ==
    /\ pc' = [pc EXCEPT ![h] = "ready"]
    /\ db' = [db EXCEPT ![h] = d]
    /\ readOnly' = [readOnly EXCEPT ![h] = f.readonly]
    /\ rc' = [rc EXCEPT ![h] = "OK"]

Fail(h, r) ==
    /\ pc' = [pc EXCEPT ![h] = "closed"]
    /\ rc' = [rc EXCEPT ![h] = r]
    /\ UNCHANGED <<db, readOnly>>

-----------------------------------------------------------------------------
(* memVFS.Open(name, flags).                                               *)

\* Neither MAIN_DB, TRANSIENT_DB, TEMP_DB nor TEMP_JOURNAL: CANTOPEN.
OpenWrongType(h, f) ==
    /\ pc[h] = "closed"
    /\ ~f.types
    /\ rc' = [rc EXCEPT ![h] = "CANTOPEN"]
    /\ UNCHANGED <<registry, memoryMtx, pc, req, found, db, readOnly, lock, reserved, shared>>

\* A private name: no registry; a new memDB, if CREATE allows one.
OpenPrivate(h, k, f) ==
    /\ pc[h] = "closed"
    /\ f.types
    /\ req' = [req EXCEPT ![h] = [name |-> [shared |-> FALSE, key |-> k], flags |-> f]]
    /\ IF f.create
          THEN \E d \in FreshDBs : Opened(h, d, f)
          ELSE Fail(h, "CANTOPEN")
    /\ UNCHANGED <<registry, memoryMtx, found, lock, reserved, shared>>

\* Mutant: the lookup without memoryMtx.
OpenLookupUnlocked(h, k, f) ==
    /\ pc[h] = "closed"
    /\ f.types
    /\ req' = [req EXCEPT ![h] = [name |-> [shared |-> TRUE, key |-> k], flags |-> f]]
    /\ found' = [found EXCEPT ![h] = registry[k]]
    /\ pc' = [pc EXCEPT ![h] = "open"]
    /\ UNCHANGED <<registry, memoryMtx, db, readOnly, lock, reserved, shared, rc>>

\* A shared name "/k": take memoryMtx, db = memoryDBs[k].
OpenLookup(h, k, f) ==
    /\ pc[h] = "closed"
    /\ f.types
    /\ memoryMtx = None
    /\ memoryMtx' = h
    /\ req' = [req EXCEPT ![h] = [name |-> [shared |-> TRUE, key |-> k], flags |-> f]]
    /\ found' = [found EXCEPT ![h] = registry[k]]
    /\ pc' = [pc EXCEPT ![h] = "open"]
    /\ UNCHANGED <<registry, db, readOnly, lock, reserved, shared, rc>>

\* Still under memoryMtx: CANTOPEN without a db and without CREATE, else
\* the db found or a new one, stored as memoryDBs[k]; the deferred Unlock.
OpenStore(h) ==
    LET k == req[h].name.key IN
    /\ pc[h] = "open"
    /\ memoryMtx' = None
    /\ found' = [found EXCEPT ![h] = None]
    /\ IF found[h] = None /\ ~req[h].flags.create
          THEN Fail(h, "CANTOPEN") /\ UNCHANGED registry
          ELSE \E d \in IF found[h] = None THEN FreshDBs ELSE {found[h]} :
                  /\ registry' = [registry EXCEPT ![k] = d]
                  /\ Opened(h, d, req[h].flags)
    /\ UNCHANGED <<req, lock, reserved, shared>>

-----------------------------------------------------------------------------
(* Lock, Unlock and Close of a memFile, on its own memDB, under lockMtx.   *)

LockShared(h) ==
    /\ pc[h] = "ready"
    /\ lock[h] = LOCK_NONE
    /\ shared' = [shared EXCEPT ![db[h]] = @ + 1]
    /\ lock' = [lock EXCEPT ![h] = LOCK_SHARED]
    /\ rc' = [rc EXCEPT ![h] = "OK"]
    /\ UNCHANGED <<registry, memoryMtx, pc, req, found, db, readOnly, reserved>>

LockReserved(h) ==
    /\ pc[h] = "ready"
    /\ lock[h] = LOCK_SHARED
    /\ CASE readOnly[h] ->
              rc' = [rc EXCEPT ![h] = "IOERR_LOCK"] /\ UNCHANGED <<lock, reserved>>
         [] reserved[db[h]] # None ->
              rc' = [rc EXCEPT ![h] = "BUSY"] /\ UNCHANGED <<lock, reserved>>
         [] OTHER ->
              /\ reserved' = [reserved EXCEPT ![db[h]] = h]
              /\ lock' = [lock EXCEPT ![h] = LOCK_RESERVED]
              /\ rc' = [rc EXCEPT ![h] = "OK"]
    /\ UNCHANGED <<registry, memoryMtx, pc, req, found, db, readOnly, shared>>

\* Unlock(l) for l below the level held: clear reserved if this handle
\* held it, and leave the shared count when going below SHARED.
Release(h, l) ==
    /\ reserved' = IF reserved[db[h]] = h
                      THEN [reserved EXCEPT ![db[h]] = None] ELSE reserved
    /\ shared' = IF l < LOCK_SHARED
                    THEN [shared EXCEPT ![db[h]] = @ - 1] ELSE shared
    /\ lock' = [lock EXCEPT ![h] = l]

\* Mutant: Unlock without its "m.lock <= lock" early return.
UnlockNoEarlyReturn(h, l) ==
    /\ pc[h] = "ready"
    /\ Release(h, l)
    /\ rc' = [rc EXCEPT ![h] = "OK"]
    /\ UNCHANGED <<registry, memoryMtx, pc, req, found, db, readOnly>>

Unlock(h, l) ==
    /\ pc[h] = "ready"
    /\ lock[h] > l
    /\ Release(h, l)
    /\ rc' = [rc EXCEPT ![h] = "OK"]
    /\ UNCHANGED <<registry, memoryMtx, pc, req, found, db, readOnly>>

\* Mutant: a Close that drops the handle without Unlock(NONE).
CloseDroppingLocks(h) ==
    /\ pc[h] = "ready"
    /\ pc' = [pc EXCEPT ![h] = "closed"]
    /\ db' = [db EXCEPT ![h] = None]
    /\ lock' = [lock EXCEPT ![h] = LOCK_NONE]
    /\ rc' = [rc EXCEPT ![h] = "OK"]
    /\ UNCHANGED <<registry, memoryMtx, req, found, readOnly, reserved, shared>>

\* memFile.Close is Unlock(LOCK_NONE) (its early return when already at
\* NONE changes nothing); the engine then forgets the memFile.
Close(h) ==
    /\ pc[h] = "ready"
    /\ IF lock[h] > LOCK_NONE THEN Release(h, LOCK_NONE)
                              ELSE UNCHANGED <<lock, reserved, shared>>
    /\ pc' = [pc EXCEPT ![h] = "closed"]
    /\ db' = [db EXCEPT ![h] = None]
    /\ rc' = [rc EXCEPT ![h] = "OK"]
    /\ UNCHANGED <<registry, memoryMtx, req, found, readOnly>>

-----------------------------------------------------------------------------
Next ==
    \E h \in Handles :
        \/ \E k \in Keys, f \in Flags :
              \/ OpenWrongType(h, f)
              \/ OpenPrivate(h, k, f)
              \/ OpenLookup(h, k, f)
        \/ OpenStore(h)
        \/ LockShared(h)
        \/ LockReserved(h)
        \/ \E l \in {LOCK_NONE, LOCK_SHARED} : Unlock(h, l)
        \/ Close(h)

Spec == Init /\ [][Next]_vars

-----------------------------------------------------------------------------
(* Every handle opened on "/k" uses the memDB registered under k, so all   *)
(* the connections that open one shared name share one database and one   *)
(* lock state.  It rests on memoryMtx covering the lookup, the creation    *)
(* and the store: two Opens racing on a new name would otherwise each      *)
(* create a memDB, and the one stored last would orphan the other.        *)
OneDBPerName ==
    \A h \in Handles :
        pc[h] = "ready" /\ req[h].name.shared => db[h] = registry[req[h].name.key]

(* The lock bookkeeping of every memDB counts exactly the open handles of  *)
(* that memDB: shared is the number of them at SHARED or more, and         *)
(* reserved is one of them at RESERVED.  Closing a handle that still holds *)
(* a lock must give it back, or the database stays locked for every other  *)
(* connection for the life of the process.                                 *)
LocksAgreePerDB ==
    \A d \in DBs :
        /\ shared[d] = Cardinality({h \in Handles : db[h] = d /\ lock[h] >= LOCK_SHARED})
        /\ reserved[d] # None => db[reserved[d]] = d /\ lock[reserved[d]] = LOCK_RESERVED
=============================================================================
