-------------------------------- MODULE Bloom --------------------------------
(***************************************************************************)
(* The bloom_filter virtual table (ext/bloom/bloom.go).  The filter is a   *)
(* blob of nfilter bytes in the storage table; Update (an INSERT) sets one *)
(* bit per hash function of the word, and Filter (a lookup by word) tests  *)
(* the same bits, stopping at the first clear one.  Each bit is set by a   *)
(* read-modify-write of its byte through an incremental blob handle.       *)
(*                                                                         *)
(* calcHash (SipHash keyed by the hash number) is an arbitrary function    *)
(* chosen once in Init from a small set of 64-bit results; the model does  *)
(* not assume anything of it.  The engine runs one Update or Filter call   *)
(* at a time on a connection, so each call is one step; a blob Seek, Read  *)
(* or Write may fail at any iteration, which ends the call with an error.  *)
(*                                                                         *)
(* A cursor follows the engine's scan protocol: xOpen, xFilter with the    *)
(* arguments BestIndex asked for (the word, when the query constrains it   *)
(* with =, none for a full scan), then xNext while xEof is false.  A       *)
(* statement that fails is abandoned, and its cursor with it.             *)
(***************************************************************************)
EXTENDS Naturals, Bitwise, FiniteSetsExt

CONSTANTS
    Words,      \* the words the application inserts and looks up
    Cursors,    \* the cursors the engine opens on the table
    NoWord,     \* a nil c.arg
    Hashes,     \* b.hashes, the number of hash functions (k)
    NFilter,    \* b.nfilter, the filter's length in bytes
    HashValues  \* the results calcHash may produce

ASSUME NoWord \notin Words
ASSUME Hashes \in Nat \ {0} /\ NFilter \in Nat \ {0} /\ HashValues \subseteq Nat

VARIABLES
    calcHash,   \* calcHash(n, word), fixed for the whole behaviour
    data,       \* the storage table's data blob, byte by byte
    added,      \* the words whose INSERT returned without error
    cursor      \* each cursor: its scan phase, eof and arg

vars == <<calcHash, data, added, cursor>>

HashNums == 0 .. Hashes - 1
Bytes == 0 .. NFilter - 1

\* &cursor{bloom: b}: eof and arg have their zero values.
Opened == [phase |-> "opened", eof |-> FALSE, arg |-> NoWord]

\* The table is created with zeroblob(nfilter); the hash is any function.
Init ==
    /\ calcHash \in [Words \X HashNums -> HashValues]
    /\ data = [i \in Bytes |-> 0]
    /\ added = {}
    /\ cursor = [c \in Cursors |-> Opened]

\* hash %= nfilter*8; bitpos = hash % 8; bytepos = hash / 8.
bytepos(n, w) == (calcHash[<<w, n>>] % (NFilter * 8)) \div 8
bit(n, w) == 2 ^ ((calcHash[<<w, n>>] % (NFilter * 8)) % 8)

\* The hash functions among the first upto whose bit lies in byte i.
HitsIn(i, w, upto) == {n \in 0 .. upto - 1 : bytepos(n, w) = i}

\* Mutant: each byte written as 1 << bitpos without reading it first, so
\* it keeps only the bit of the last hash function that wrote it.
SetBitsBlind(d, w, upto) ==
    [i \in Bytes |-> IF HitsIn(i, w, upto) = {} THEN d[i]
                     ELSE bit(Max(HitsIn(i, w, upto)), w)]

\* Seek and Read the byte at bytepos, buf[0] |= 1 << bitpos, Seek and
\* Write it back: for each n < upto in turn.
SetBits(d, w, upto) ==
    [i \in Bytes |-> FoldSet(LAMBDA b, x : x | b, d[i],
                             {bit(n, w) : n \in HitsIn(i, w, upto)})]

\* An INSERT of word w: the bits of every hash function set, or an error
\* at iteration j with the bits of the first j functions already written.
Update(w) ==
    \/ /\ data' = SetBits(data, w, Hashes)
       /\ added' = added \cup {w}
       /\ UNCHANGED <<calcHash, cursor>>
    \/ /\ \E j \in 0 .. Hashes - 1 : data' = SetBits(data, w, j)
       /\ UNCHANGED <<calcHash, added, cursor>>

\* xOpen: the engine opens a cursor (a new statement reuses the id).
OpenCursor(c) ==
    /\ cursor' = [cursor EXCEPT ![c] = Opened]
    /\ UNCHANGED <<calcHash, data, added>>

\* xFilter with the word: eof once a tested bit is clear, arg = &arg[0].
\* (A read error fails the statement, which abandons the cursor.)
Filter(c, w) ==
    /\ cursor' = [cursor EXCEPT ![c] =
          [phase |-> "filtered", arg |-> w,
           eof |-> \E n \in HashNums : (data[bytepos(n, w)] & bit(n, w)) = 0]]
    /\ UNCHANGED <<calcHash, data, added>>

\* xFilter without an argument (a scan no = constraint on word narrows):
\* "if len(arg) != 1 { return nil }", leaving eof and arg as they were.
FilterNoArg(c) ==
    /\ cursor' = [cursor EXCEPT ![c].phase = "filtered"]
    /\ UNCHANGED <<calcHash, data, added>>

\* The WHERE terms the engine offers BestIndex: on column 0 (present) or 1
\* (word), = or >, usable or not in this plan; a query has at most two.
Constraint == [usable : BOOLEAN, column : {0, 1}, op : {"EQ", "GT"}]
Queries == {q \in SUBSET Constraint : Cardinality(q) <= 2}

\* BestIndex: the constraints given ArgvIndex 1, whose right-hand value
\* xFilter then receives: the usable = terms on word.
BestIndex(q) == {cst \in q : cst.usable /\ cst.column = 1 /\ cst.op = "EQ"}

\* The engine runs the plan BestIndex chose: xFilter with the value of the
\* constraint it asked for, or with no argument.  (Two constraints with
\* one ArgvIndex make the engine refuse the plan: no cursor is filtered.)
xFilter(c, q, w) ==
    LET argv == BestIndex(q) IN
    /\ Cardinality(argv) <= 1
    /\ IF argv = {} THEN FilterNoArg(c) ELSE Filter(c, w)

\* xNext, which the engine calls on a filtered cursor not at eof.
CursorNext(c) ==
    /\ cursor[c].phase = "filtered"
    /\ ~cursor[c].eof
    /\ cursor' = [cursor EXCEPT ![c].eof = TRUE]
    /\ UNCHANGED <<calcHash, data, added>>

Next ==
    \/ \E w \in Words : Update(w)
    \/ \E c \in Cursors :
          \/ OpenCursor(c)
          \/ \E q \in Queries, w \in Words : xFilter(c, q, w)
          \/ CursorNext(c)

Spec == Init /\ [][Next]_vars

-----------------------------------------------------------------------------
(* No false negatives: a lookup of a word whose INSERT had succeeded      *)
(* before it always finds it, whatever the hash results, their collisions modulo the filter *)
(* length, and the partial writes of INSERTs that failed half way.  The    *)
(* read-modify-write of each byte must keep the bits other words set.      *)
NoFalseNegative ==
    [][\A c \in Cursors, w \in added : Filter(c, w) => ~cursor'[c].eof]_vars

(* Every row a cursor yields has a word: the table is declared with word  *)
(* NOT NULL, and Column(1) returns *c.arg.  A filtered cursor that is not *)
(* at eof must therefore hold the word it was filtered with.              *)
RowsHaveWords ==
    \A c \in Cursors :
        cursor[c].phase = "filtered" /\ ~cursor[c].eof => cursor[c].arg # NoWord
=============================================================================
