------------------------------ MODULE MemDBData ------------------------------
(***************************************************************************)
(* The byte store of the memory VFS (vfs/memdb/memdb.go): a memDB keeps    *)
(* its contents as a list of fixed-size sectors and a logical size.  Every *)
(* operation holds dataMtx (RLock for ReadAt and Size, Lock otherwise), so *)
(* each is one atomic step, whichever memFile of the memDB performs it.    *)
(*                                                                         *)
(* The engine asks only for reads and writes that stay inside one sector   *)
(* (pages are at most 64K and aligned, and sectors are 64K); the model     *)
(* enumerates exactly those requests, over a smaller sector.               *)
(***************************************************************************)
EXTENDS Naturals, Sequences

CONSTANTS
    SectorSize,  \* sectorSize (65536 in the code)
    MaxSize,     \* the largest file size the model reaches
    Bytes        \* the nonzero byte values writes carry

ASSUME SectorSize \in Nat \ {0} /\ MaxSize \in Nat /\ 0 \notin Bytes

VARIABLES
    data,        \* memDB.data: the sectors, each a map from 0..SectorSize-1
    size,        \* memDB.size
    result       \* what the last call returned to its caller

vars == <<data, size, result>>

Offsets == 0 .. SectorSize - 1
Sector == [Offsets -> Bytes \cup {0}]
ZeroSector == [o \in Offsets |-> 0]

\* Mutant: rounding up by adding one sector whatever the remainder.
divRoundUpPlusOne(a, b) == a \div b + 1

divRoundUp(a, b) == (a + b - 1) \div b

modRoundUp(a, b) == b - ((b - (a % b)) % b)

\* The requests the engine makes: inside one sector and below MaxSize.
InSector(off, n) == n >= 1 /\ (off % SectorSize) + n <= SectorSize
Reads == {r \in [off : 0 .. MaxSize, n : 1 .. SectorSize] : InSector(r.off, r.n)}
Writes == {w \in [off : 0 .. MaxSize - 1, b : UNION {[1 .. k -> Bytes] : k \in 1 .. SectorSize}] :
              InSector(w.off, Len(w.b)) /\ w.off + Len(w.b) <= MaxSize}

TypeOK ==
    /\ data \in Seq(Sector)
    /\ Len(data) * SectorSize < MaxSize + SectorSize
    /\ size \in 0 .. MaxSize
    /\ result.kind \in {"none", "eof", "short", "ok", "size"}

Init ==
    /\ data = <<>>
    /\ size = 0
    /\ result = [kind |-> "none"]

\* Appends zeroed sectors until sector index base (from 0) exists.
Grown(d, base) ==
    IF base < Len(d) THEN d ELSE d \o [i \in 1 .. base + 1 - Len(d) |-> ZeroSector]

\* Mutant: the bytes held by the last sector taken as size % sectorSize,
\* which is 0 when the size is a whole number of sectors.
ReadAtPlainMod(off, n) ==
    LET base == off \div SectorSize
        rest == off % SectorSize
        have == IF base = Len(data) - 1 THEN size % SectorSize ELSE SectorSize
    IN  /\ result' = CASE off >= size      -> [kind |-> "eof"]
                       [] have - rest < n  -> [kind |-> "short"]
                       [] OTHER -> [kind |-> "ok",
                                    bytes |-> [i \in 1 .. n |-> data[base + 1][rest + i - 1]]]
        /\ UNCHANGED <<data, size>>

ReadAt(off, n) ==
    LET base == off \div SectorSize
        rest == off % SectorSize
        have == IF base = Len(data) - 1 THEN modRoundUp(size, SectorSize) ELSE SectorSize
    IN  /\ result' = CASE off >= size      -> [kind |-> "eof"]
                       [] have - rest < n  -> [kind |-> "short"]
                       [] OTHER -> [kind |-> "ok",
                                    bytes |-> [i \in 1 .. n |-> data[base + 1][rest + i - 1]]]
        /\ UNCHANGED <<data, size>>

WriteAt(off, b) ==
    LET base == off \div SectorSize
        rest == off % SectorSize
        d    == Grown(data, base)
    IN  /\ data' = [d EXCEPT ![base + 1] =
                       [o \in Offsets |-> IF rest <= o /\ o < rest + Len(b)
                                             THEN b[o - rest + 1] ELSE @[o]]]
        /\ size' = IF off + Len(b) > size THEN off + Len(b) ELSE size
        /\ result' = [kind |-> "ok"]

\* Mutant: truncate without clearing the tail of the partial last sector.
truncateKeepingTail(k) ==
    LET sectors == divRoundUp(k, SectorSize)
    IN  /\ data' = SubSeq(Grown(data, sectors - 1), 1, sectors)
        /\ size' = k

\* truncate(size), with dataMtx held: zero the tail of the sector the new
\* size ends in, then add or drop whole sectors.
truncate(k) ==
    LET base    == k \div SectorSize
        rest    == k % SectorSize
        cleared == IF k < size /\ rest # 0
                      THEN [data EXCEPT ![base + 1] =
                               [o \in Offsets |-> IF o >= rest THEN 0 ELSE @[o]]]
                      ELSE data
        sectors == divRoundUp(k, SectorSize)
    IN  /\ data' = SubSeq(Grown(cleared, sectors - 1), 1, sectors)
        /\ size' = k

Truncate(k) ==
    /\ truncate(k)
    /\ result' = [kind |-> "ok"]

SizeHint(k) ==
    /\ IF k > size THEN truncate(k) ELSE UNCHANGED <<data, size>>
    /\ result' = [kind |-> "ok"]

Size ==
    /\ result' = [kind |-> "size", size |-> size]
    /\ UNCHANGED <<data, size>>

Next ==
    \/ \E r \in Reads : ReadAt(r.off, r.n)
    \/ \E w \in Writes : WriteAt(w.off, w.b)
    \/ \E k \in 0 .. MaxSize : Truncate(k)
    \/ \E k \in 0 .. MaxSize : SizeHint(k)
    \/ Size

Spec == Init /\ [][Next]_vars

-----------------------------------------------------------------------------
(* The refinement mapping: the file is the first size bytes of the sectors. *)
Content == [i \in 1 .. size |-> data[(i - 1) \div SectorSize + 1][(i - 1) % SectorSize]]

Abs == INSTANCE FileSpec WITH content <- Content

(* The sectors beyond the logical size hold nothing: there are exactly as  *)
(* many sectors as the size needs, and every byte of the last sector past  *)
(* the size is zero.  Growing the file (Truncate or SizeHint upwards, or a *)
(* WriteAt past the end) exposes those bytes without clearing them, so     *)
(* stale data from before a shrink would reappear if truncate left it.     *)
TailZero ==
    /\ Len(data) = divRoundUp(size, SectorSize)
    /\ \A p \in size .. Len(data) * SectorSize - 1 :
          data[p \div SectorSize + 1][p % SectorSize] = 0

(* The memory VFS behaves as a plain file: every read returns the bytes    *)
(* last written there (zeros in holes), or end of file, or a short read    *)
(* exactly where the file ends inside the request; every size reported is *)
(* the file's length.                                                      *)
ImplementsFileSpec == Abs!Spec
=============================================================================
