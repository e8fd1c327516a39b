------------------------------ MODULE FileSpec ------------------------------
(***************************************************************************)
(* What a VFS file promises the engine about its bytes: a file is a byte   *)
(* sequence; ReadAt returns exactly the bytes asked for, or reports end of *)
(* file (nothing at the offset) or a short read (the file ends inside the  *)
(* request); WriteAt overwrites, filling any hole before the offset with   *)
(* zeros; Truncate cuts the file or extends it with zeros; SizeHint only   *)
(* extends; Size returns the length.                                       *)
(***************************************************************************)
EXTENDS Naturals, Sequences

CONSTANTS MaxSize, Bytes, Reads, Writes

VARIABLES content, result

Zeros(k) == [i \in 1 .. k |-> 0]

Resize(c, k) == IF k <= Len(c) THEN SubSeq(c, 1, k) ELSE c \o Zeros(k - Len(c))

Init == content = <<>> /\ result = [kind |-> "none"]

Read(off, n) ==
    /\ result' = CASE off >= Len(content)    -> [kind |-> "eof"]
                   [] off + n > Len(content) -> [kind |-> "short"]
                   [] OTHER -> [kind |-> "ok", bytes |-> SubSeq(content, off + 1, off + n)]
    /\ UNCHANGED content

Write(off, b) ==
    LET end  == IF off + Len(b) > Len(content) THEN off + Len(b) ELSE Len(content)
        grown == Resize(content, end)
    IN  /\ content' = [i \in 1 .. end |->
                          IF off < i /\ i <= off + Len(b) THEN b[i - off] ELSE grown[i]]
        /\ result' = [kind |-> "ok"]

Truncate(k) ==
    /\ content' = Resize(content, k)
    /\ result' = [kind |-> "ok"]

SizeHint(k) ==
    /\ content' = IF k > Len(content) THEN Resize(content, k) ELSE content
    /\ result' = [kind |-> "ok"]

Size ==
    /\ result' = [kind |-> "size", size |-> Len(content)]
    /\ UNCHANGED content

Next ==
    \/ \E r \in Reads : Read(r.off, r.n)
    \/ \E w \in Writes : Write(w.off, w.b)
    \/ \E k \in 0 .. MaxSize : Truncate(k) \/ SizeHint(k)
    \/ Size

Spec == Init /\ [][Next]_<<content, result>>
=============================================================================
