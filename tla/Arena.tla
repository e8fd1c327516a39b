-------------------------------- MODULE Arena --------------------------------
(***************************************************************************)
(* The call arena of a Conn (conn.go): a block of ArenaSize bytes malloc'd *)
(* in the module's linear memory when the connection opens, bumped by      *)
(* arena.new while the request fits and spilling to malloc otherwise, the  *)
(* spilled pointers freed by the reset deferred in every public method.    *)
(* OpenFlags, Exec and PrepareFlags marshal their arguments through it:    *)
(* pointer-sized out slots (arena.new(ptrlen)) and NUL-terminated strings  *)
(* (arena.string), whose bytes mem.writeString then copies in.             *)
(*                                                                         *)
(* Sizes are uint32 in the code; the model keeps that arithmetic modulo    *)
(* 2^Width, with a linear memory of MemBytes <= 2^Width bytes, so a       *)
(* string whose length does not fit the width, and a bump that wraps, are  *)
(* reachable.                                                              *)
(* The module's malloc (not code of this repository) may place a block     *)
(* anywhere free, or fail.  A range check failure in writeString and an    *)
(* out-of-memory malloc are fatal panics: the connection is dead.          *)
(***************************************************************************)
EXTENDS Naturals, Sequences, SequencesExt

CONSTANTS
    Width,      \* bits of a pointer and of a size (32 in the code)
    ArenaSize,  \* the size passed to newArena (1024 in the code)
    PtrLen,     \* ptrlen, the size of a pointer in linear memory (4)
    MemBytes,   \* the size the linear memory has grown to, at most 2^Width
    Lens        \* lengths of the SQL strings and file names passed in

MemSize == 2 ^ Width

ASSUME /\ MemBytes <= MemSize /\ ArenaSize < MemBytes
       /\ PtrLen < ArenaSize /\ Lens \subseteq Nat

\* uint32(x): conversion to the pointer width.
uint32(x) == x % MemSize

VARIABLES
    state,      \* "closed", "idle", "call" (inside a public method), "dead"
    base,       \* arena.base
    next,       \* arena.next
    ptrs,       \* arena.ptrs, the spilled allocations
    heap,       \* the blocks malloc has handed out and not had back
    blocks,     \* what the current call has handed the engine: [ptr, len]
    ops         \* the arena requests the current call still has to make

vars == <<state, base, next, ptrs, heap, blocks, ops>>

Addr == 0 .. MemSize - 1
Region == [ptr : Addr, len : Nat]
Request == [n : Nat, str : BOOLEAN]

TypeOK ==
    /\ state \in {"closed", "idle", "call", "dead"}
    /\ base \in Addr
    /\ next \in 0 .. ArenaSize
    /\ ptrs \in Seq(Addr)
    /\ heap \subseteq Region
    /\ blocks \in Seq(Region)
    /\ ops \in Seq(Request)

Init ==
    /\ state = "closed"
    /\ base = 0
    /\ next = 0
    /\ ptrs = <<>>
    /\ heap = {}
    /\ blocks = <<>>
    /\ ops = <<>>

Disjoint(a, b) == a.ptr + a.len <= b.ptr \/ b.ptr + b.len <= a.ptr

\* What the module's malloc(size) may return: a free block inside linear
\* memory (never address 0), or 0 when it cannot grow the memory.
Malloc(size) ==
    {p \in 1 .. MemBytes - 1 :
        /\ p + size <= MemBytes
        /\ \A r \in heap : Disjoint([ptr |-> p, len |-> size], r)} \cup {0}

\* c.new(size): malloc, and panic(oomErr) on a null result for a nonzero size.
OutOfMemory(p, size) == p = 0 /\ size # 0

\* The caller's use of the pointer: a string is copied in by writeString,
\* whose range check against the memory panics when it does not fit; an
\* out slot is written by the engine.
Use(p, r) ==
    IF r.str /\ p + r.n > MemBytes
       THEN state' = "dead" /\ UNCHANGED blocks
       ELSE UNCHANGED state /\ blocks' = Append(blocks, [ptr |-> p, len |-> r.n])

\* Mutant: the fit test without the requested size.
arenaNewFitsByNext(r) ==
    LET size == uint32(r.n) IN
    \/ /\ next <= ArenaSize
       /\ Use(uint32(base + next), r)
       /\ next' = uint32(next + size)
       /\ UNCHANGED <<ptrs, heap>>
    \/ /\ next > ArenaSize
       /\ \E p \in Malloc(size) :
             IF OutOfMemory(p, size)
                THEN state' = "dead" /\ UNCHANGED <<blocks, ptrs, heap>>
                ELSE /\ Use(p, r)
                     /\ ptrs' = Append(ptrs, p)
                     /\ heap' = heap \cup {[ptr |-> p, len |-> size]}
       /\ UNCHANGED next

\* Mutant: the bump without "a.next += size".
arenaNewNoBump(r) ==
    LET size == uint32(r.n) IN
    \/ /\ uint32(next + size) <= ArenaSize
       /\ Use(uint32(base + next), r)
       /\ UNCHANGED <<next, ptrs, heap>>
    \/ /\ uint32(next + size) > ArenaSize
       /\ \E p \in Malloc(size) :
             IF OutOfMemory(p, size)
                THEN state' = "dead" /\ UNCHANGED <<blocks, ptrs, heap>>
                ELSE /\ Use(p, r)
                     /\ ptrs' = Append(ptrs, p)
                     /\ heap' = heap \cup {[ptr |-> p, len |-> size]}
       /\ UNCHANGED next

\* a.new(uint32(n)) for the request r (for a string n is len(s)+1), then
\* the caller's use of the pointer.  The fit test is uint32 arithmetic.
arenaNew(r) ==
    LET size == uint32(r.n) IN
    \/ /\ uint32(next + size) <= ArenaSize
       /\ Use(uint32(base + next), r)
       /\ next' = uint32(next + size)
       /\ UNCHANGED <<ptrs, heap>>
    \/ /\ uint32(next + size) > ArenaSize
       /\ \E p \in Malloc(size) :
             IF OutOfMemory(p, size)
                THEN state' = "dead" /\ UNCHANGED <<blocks, ptrs, heap>>
                ELSE /\ Use(p, r)
                     /\ ptrs' = Append(ptrs, p)
                     /\ heap' = heap \cup {[ptr |-> p, len |-> size]}
       /\ UNCHANGED next

Slot == [n |-> PtrLen, str |-> FALSE]
String(len) == [n |-> len + 1, str |-> TRUE]

-----------------------------------------------------------------------------
(* The public methods: their arena requests, then the deferred reset.      *)

\* OpenFlags: newArena(ArenaSize), then connPtr and the file name.
OpenFlags(len) ==
    /\ state = "closed"
    /\ \E p \in Malloc(ArenaSize) :
          IF OutOfMemory(p, ArenaSize)
             THEN state' = "dead" /\ UNCHANGED <<base, heap, ops>>
             ELSE /\ state' = "call"
                  /\ base' = p
                  /\ heap' = {[ptr |-> p, len |-> ArenaSize]}
                  /\ ops' = <<Slot, String(len)>>
    /\ UNCHANGED <<next, ptrs, blocks>>

Exec(len) ==
    /\ state = "idle"
    /\ state' = "call"
    /\ ops' = <<String(len)>>
    /\ UNCHANGED <<base, next, ptrs, heap, blocks>>

PrepareFlags(len) ==
    /\ state = "idle"
    /\ state' = "call"
    /\ ops' = <<Slot, Slot, String(len)>>
    /\ UNCHANGED <<base, next, ptrs, heap, blocks>>

\* The method's next arena request.
Marshal ==
    /\ state = "call"
    /\ ops # <<>>
    /\ arenaNew(Head(ops))
    /\ ops' = Tail(ops)
    /\ UNCHANGED base

\* Mutant: reset that forgets the spilled pointers without freeing them.
resetKeepingSpill ==
    /\ ptrs' = <<>>
    /\ next' = 0
    /\ UNCHANGED heap

\* c.free of each pointer of ps: free(0) returns at once, and malloc never
\* hands out 0; any other pointer's block goes back to malloc.
Freed(ps) == {r \in heap : r.ptr \notin ToSet(ps)}

\* a.reset(): c.free each spilled pointer, forget them, rewind the bump.
reset ==
    /\ heap' = Freed(ptrs)
    /\ ptrs' = <<>>
    /\ next' = 0

\* The engine call with the marshalled arguments, then the deferred reset.
Return ==
    /\ state = "call"
    /\ ops = <<>>
    /\ reset
    /\ state' = "idle"
    /\ blocks' = <<>>
    /\ UNCHANGED <<base, ops>>

\* A successful Close closes the module, and its memory with it.
Close ==
    /\ state = "idle"
    /\ state' = "closed"
    /\ base' = 0
    /\ heap' = {}
    /\ UNCHANGED <<next, ptrs, blocks, ops>>

Next ==
    \/ \E len \in Lens : OpenFlags(len) \/ Exec(len) \/ PrepareFlags(len)
    \/ Marshal
    \/ Return
    \/ Close

Spec == Init /\ [][Next]_vars

-----------------------------------------------------------------------------
(* Every pointer a method hands the engine addresses memory the connection *)
(* owns (the arena block or a live malloc block), and no two of them       *)
(* overlap before the reset (spec 6.3).  It must hold although the fit     *)
(* test a.next+size <= a.size wraps in uint32 and uint32(len(s)+1)         *)
(* truncates: a string whose size wraps is longer than the whole memory    *)
(* past its pointer, and writeString panics before the engine sees it.     *)
MarshalledArgsOwned ==
    /\ \A i \in DOMAIN blocks :
          \E r \in heap : r.ptr <= blocks[i].ptr /\ blocks[i].ptr + blocks[i].len <= r.ptr + r.len
    /\ \A i, j \in DOMAIN blocks : i # j => Disjoint(blocks[i], blocks[j])

(* Between public calls the connection holds no memory but its arena: the  *)
(* deferred reset frees every spilled allocation of the call, so a         *)
(* connection that marshals large arguments forever does not leak.         *)
NoSpillLeak ==
    state = "idle" => heap = {[ptr |-> base, len |-> ArenaSize]}
=============================================================================
