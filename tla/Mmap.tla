-------------------------------- MODULE Mmap --------------------------------
(***************************************************************************)
(* The shared-memory regions of one connection's module (internal/util/    *)
(* mmap.go).  A region is page-aligned memory of the module, allocated     *)
(* with the engine's aligned_alloc and never freed; mmap maps a range of   *)
(* an -shm file over it (MAP_SHARED|MAP_FIXED), Unmap replaces that with a *)
(* private PROT_NONE mapping so that the region can be reused, and the     *)
(* module's close notification munmaps every region.  mmapState.regions is *)
(* the pool; a region's used flag says whether it is taken.                *)
(*                                                                         *)
(* The callers are the OS VFS's shared-memory methods (not in this tree),  *)
(* modelled from the spec: xShmMap of region id of a file maps it once and *)
(* keeps it, xShmUnmap unmaps every region of the file.  All of this runs  *)
(* on the connection's goroutine, one host call at a time.                 *)
(***************************************************************************)
EXTENDS Naturals, Sequences, Functions

CONSTANTS
    Regions,    \* ids for the MappedRegion values the pool can allocate
    Shms,       \* the shared-memory files of the connection's databases
    Ids,        \* the region numbers the engine maps in one file
    Sizes,      \* the region sizes asked for
    None        \* no region

ASSUME None \notin Regions

VARIABLES
    pool,       \* mmapState.regions, in the order of allocation
    rsize,      \* MappedRegion.size
    used,       \* MappedRegion.used
    mapping,    \* what the OS has at the region's address
    held,       \* the region each file's xShmMap got for each id
    phase       \* "running", "closed" by the close notification, "panicked"

vars == <<pool, rsize, used, mapping, held, phase>>

\* What the OS maps at a region's address: the module's own memory as
\* aligned_alloc returned it, the PROT_NONE anonymous mapping Unmap puts
\* there, a range of an -shm file, or nothing once munmapped (addr = 0).
Heap == [kind |-> "heap"]
Anon == [kind |-> "anon"]
Gone == [kind |-> "gone"]
FileMapping == [kind : {"file"}, shm : Shms, id : Ids]
File(s, i) == [kind |-> "file", shm |-> s, id |-> i]

\* NewContext: a new moduleState, with no regions.
Init ==
    /\ pool = <<>>
    /\ rsize = [r \in Regions |-> 0]
    /\ used = [r \in Regions |-> FALSE]
    /\ mapping = [r \in Regions |-> Heap]
    /\ held = [s \in Shms |-> [i \in Ids |-> None]]
    /\ phase = "running"

Running == phase = "running"

-----------------------------------------------------------------------------
(* mmapState.new and MappedRegion.mmap.                                    *)

\* Mutant: the search without its !r.used test.
FirstUnusedAny(sz) ==
    LET k == {j \in 1 .. Len(pool) : rsize[pool[j]] = sz}
    IN  IF k = {} THEN None ELSE pool[CHOOSE j \in k : \A i \in k : j <= i]

\* The first region of the pool that is unused and of the size asked for.
FirstUnused(sz) ==
    LET k == {j \in 1 .. Len(pool) : ~used[pool[j]] /\ rsize[pool[j]] = sz}
    IN  IF k = {} THEN None ELSE pool[CHOOSE j \in k : \A i \in k : j <= i]

\* Mutant: "r.used = true" whether or not the mmap call failed.
mmappedAlwaysUsed(r, s, i) ==
    \/ /\ used' = [used EXCEPT ![r] = TRUE]
       /\ mapping' = [mapping EXCEPT ![r] = File(s, i)]
       /\ held' = [held EXCEPT ![s][i] = r]
    \/ /\ used' = [used EXCEPT ![r] = TRUE]
       /\ UNCHANGED <<mapping, held>>

\* mmap of the file range over the region: on success the region is used
\* and MapRegion returns it to xShmMap, which keeps it; on failure it is
\* left unused and xShmMap fails with IOERR_SHMMAP.
mmapped(r, s, i) ==
    \/ /\ used' = [used EXCEPT ![r] = TRUE]
       /\ mapping' = [mapping EXCEPT ![r] = File(s, i)]
       /\ held' = [held EXCEPT ![s][i] = r]
    \/ /\ used' = [used EXCEPT ![r] = FALSE]
       /\ UNCHANGED <<mapping, held>>

\* aligned_alloc(pagesize, size) returns memory no region has (a fresh id)
\* appended to the pool, or 0 and new panics with OOMErr.
AlignedAlloc(sz, s, i) ==
    \/ \E r \in Regions \ Range(pool) :
          /\ pool' = Append(pool, r)
          /\ rsize' = [rsize EXCEPT ![r] = sz]
          /\ mmapped(r, s, i)
          /\ UNCHANGED phase
    \/ /\ phase' = "panicked"
       /\ UNCHANGED <<pool, rsize, used, mapping, held>>

\* MapRegion(ctx, mod, f, offset, size): s.new, then r.mmap.
MapRegion(s, i, sz) ==
    LET r == FirstUnused(sz) IN
    IF r # None
       THEN mmapped(r, s, i) /\ UNCHANGED <<pool, rsize, phase>>
       ELSE AlignedAlloc(sz, s, i)

\* xShmMap of region i of file s, not yet mapped by it.
ShmMap(s, i, sz) ==
    /\ Running
    /\ held[s][i] = None
    /\ MapRegion(s, i, sz)

-----------------------------------------------------------------------------
(* MappedRegion.Unmap, MappedRegion.Close and mmapState.closeNotify.       *)

\* Mutant: "r.used = err == nil", the test of Unmap inverted.
UnmapInverted(rs, ok) ==
    /\ used' = [r \in Regions |-> IF r \in rs THEN ok[r] ELSE used[r]]
    /\ mapping' = [r \in Regions |-> IF r \in rs /\ ok[r] THEN Anon ELSE mapping[r]]

\* Unmap of each region r of rs: the private PROT_NONE mapping replaces the
\* file's if that mmap call succeeded (ok[r]), and r is unused exactly then.
Unmap(rs, ok) ==
    /\ used' = [r \in Regions |-> IF r \in rs THEN ~ok[r] ELSE used[r]]
    /\ mapping' = [r \in Regions |-> IF r \in rs /\ ok[r] THEN Anon ELSE mapping[r]]

\* The regions file s holds.
HeldBy(s) == {held[s][i] : i \in {j \in Ids : held[s][j] # None}}

\* xShmUnmap of file s: Unmap of each region it holds, any of which may
\* fail, then it forgets them all.
ShmUnmap(s) ==
    /\ Running
    /\ HeldBy(s) # {}
    /\ \E ok \in [HeldBy(s) -> BOOLEAN] : Unmap(HeldBy(s), ok)
    /\ held' = [held EXCEPT ![s] = [i \in Ids |-> None]]
    /\ UNCHANGED <<pool, rsize, phase>>

\* closeNotify, when the module closes: Close of every region of the pool
\* (munmap unless addr is already 0, which it then becomes), and the pool
\* emptied.  The files' shared-memory state is not told.
closeNotify ==
    /\ Running
    /\ mapping' = [r \in Regions |-> IF r \in Range(pool) THEN Gone ELSE mapping[r]]
    /\ pool' = <<>>
    /\ phase' = "closed"
    /\ UNCHANGED <<rsize, used, held>>

Next ==
    \/ \E s \in Shms, i \in Ids, sz \in Sizes : ShmMap(s, i, sz)
    \/ \E s \in Shms : ShmUnmap(s)
    \/ closeNotify

Spec == Init /\ [][Next]_vars

-----------------------------------------------------------------------------
(* Every region a file holds is mapped, for that file alone, to the range  *)
(* the file asked for: MapRegion never hands out a region that another id  *)
(* or another file still has mapped, so what the engine writes to one      *)
(* shared-memory region never lands in another's.  (Once the module has   *)
(* closed, nothing runs on it.)                                            *)
HeldRegionsMapTheirRequest ==
    Running => \A s \in Shms, i \in Ids :
        held[s][i] # None =>
            /\ used[held[s][i]]
            /\ mapping[held[s][i]] = File(s, i)

(* While the module runs, a region of the pool is used exactly when a file *)
(* range is mapped over it: a failed mmap leaves it free, a failed Unmap   *)
(* keeps it from being handed out while the file is still mapped there,    *)
(* and a successful Unmap makes it reusable.                               *)
UsedTracksMapping ==
    Running => \A r \in Range(pool) : used[r] <=> mapping[r] \in FileMapping
=============================================================================
