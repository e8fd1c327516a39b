------------------------------- MODULE VfsHost -------------------------------
(***************************************************************************)
(* The host side of the default VFS (vfs.go): the imports the engine calls *)
(* for files on the OS.  vfsOpen translates the open flags to os.OpenFile  *)
(* flags, keeps the *os.File in the Conn's file table c.files (the lowest  *)
(* free slot, or a new one) and stores the slot's index at file+ptrSize;   *)
(* vfsClose closes the file and frees the slot; vfsRead, vfsWrite,         *)
(* vfsTruncate, vfsSync and vfsFileSize find the *os.File by that index;   *)
(* vfsDelete and vfsAccess act on a name.                                  *)
(*                                                                         *)
(* The OS is modelled by what these calls rely on: a directory maps names  *)
(* to inodes, each inode has its bytes, an open file keeps its inode after *)
(* the name is removed, and O_CREATE/O_EXCL decide whether a missing name  *)
(* is created or an existing one refused.  Any OS call may fail (EIO,      *)
(* ENOSPC, permissions), and a failing read or write may have moved some   *)
(* of the bytes first; the imports turn failures into their error codes.   *)
(*                                                                         *)
(* The engine calls these imports one at a time on its connection, and     *)
(* the file calls only on handles it has opened and not yet closed.        *)
(***************************************************************************)
EXTENDS Naturals, Sequences, FiniteSets, Functions

CONSTANTS
    Handles,    \* the engine's sqlite3_file structs
    Paths,      \* the names the engine opens, deletes and tests
    Inodes,     \* ids for the files the OS creates
    Nil,        \* a nil *os.File in c.files, a closed handle, a missing name
    MaxSize,    \* the largest file size the model reaches
    MaxAmt,     \* the largest iAmt of a read or write
    Bytes,      \* the nonzero byte values writes carry
    Garbage     \* what the engine's read buffer holds before the call

ASSUME Nil \notin Handles \cup Inodes /\ 0 \notin Bytes /\ Garbage \notin Bytes \cup {0}

VARIABLES
    dir,        \* the directory: name -> inode
    disk,       \* the bytes of each inode
    files,      \* c.files: each slot Nil or the file opened for a handle
    fid,        \* the id stored at file+ptrSize of each open handle
    inode,      \* the inode of each handle's *os.File
    buf,        \* the engine buffer of the last vfsRead
    out,        \* what the last call wrote to pResOut or pSize
    rc          \* what the last call returned

vars == <<dir, disk, files, fid, inode, buf, out, rc>>

\* The open flags that decide what happens to the name.  READONLY and
\* READWRITE only choose the access mode; DELETEONCLOSE is not translated.
Flags == [create : BOOLEAN, exclusive : BOOLEAN]
AccessFlags == {"EXISTS", "READWRITE", "READ"}
Results == {"none", "OK", "CANTOPEN", "IOERR_CLOSE", "IOERR_DELETE", "IOERR_ACCESS",
            "IOERR_READ", "IOERR_SHORT_READ", "IOERR_WRITE", "IOERR_TRUNCATE",
            "IOERR_FSYNC", "IOERR_SEEK"}
Value == Bytes \cup {0}

IsOpen(h) == fid[h] # Nil

TypeOK ==
    /\ dir \in [Paths -> Inodes \cup {Nil}]
    /\ disk \in [Inodes -> Seq(Value)]
    /\ \A i \in Inodes : Len(disk[i]) <= MaxSize
    /\ files \in Seq(Handles \cup {Nil})
    /\ fid \in [Handles -> Nat \cup {Nil}]
    /\ inode \in [Handles -> Inodes \cup {Nil}]
    /\ buf \in Seq(Value \cup {Garbage})
    /\ out \in 0 .. MaxSize
    /\ rc \in Results

Init ==
    /\ dir = [p \in Paths |-> Nil]
    /\ disk = [i \in Inodes |-> <<>>]
    /\ files = <<>>
    /\ fid = [h \in Handles |-> Nil]
    /\ inode = [h \in Handles |-> Nil]
    /\ buf = <<>>
    /\ out = 0
    /\ rc = "none"

\* The inodes no name and no open file refers to, free for a new file.
FreeInodes == Inodes \ (Range(dir) \cup Range(inode))

\* The os.OpenFile flags vfsOpen builds: O_EXCL and O_CREATE.
OFlags(f) == [excl |-> f.exclusive, creat |-> f.create]

\* os.OpenFile(name, oflags, 0600): the inodes it may open, or {} when it
\* fails (EEXIST for O_CREAT|O_EXCL on an existing name, ENOENT without
\* O_CREAT on a missing one).  Linux ignores O_EXCL without O_CREAT.
OsOpenFile(p, o) ==
    IF dir[p] # Nil
       THEN IF o.creat /\ o.excl THEN {} ELSE {dir[p]}
       ELSE IF o.creat THEN FreeInodes ELSE {}

FreeSlots == {i \in 1 .. Len(files) : files[i] = Nil}

\* Mutant: the slot search without its c.files[i] == nil test, which takes
\* the first slot whatever it holds.
FirstSlotAny == 1

\* Mutant: vfsOpen without the slot search, always appending.
FirstFreeAppend == Len(files) + 1

\* The index the slot search picks (1-based): the first free slot, or a
\* new one appended after the last.
FirstFree == IF FreeSlots = {} THEN Len(files) + 1
             ELSE CHOOSE i \in FreeSlots : \A j \in FreeSlots : i <= j

\* The file table and the handle after vfsOpen stored file i for h.
Stored(h, i) ==
    LET s == FirstFree IN
    /\ files' = IF s = Len(files) + 1 THEN Append(files, h) ELSE [files EXCEPT ![s] = h]
    /\ fid' = [fid EXCEPT ![h] = s]
    /\ inode' = [inode EXCEPT ![h] = i]

\* The directory and the inodes after os.OpenFile opened inode i for p: a
\* new file is empty.
Named(p, i) ==
    /\ dir' = [dir EXCEPT ![p] = i]
    /\ disk' = IF dir[p] = Nil THEN [disk EXCEPT ![i] = <<>>] ELSE disk

-----------------------------------------------------------------------------
(* The name imports.                                                       *)

\* vfsOpen: any os.OpenFile error is CANTOPEN and leaves the table alone.
vfsOpen(h, p, f) ==
    /\ ~IsOpen(h)
    /\ \/ /\ rc' = "CANTOPEN"
          /\ UNCHANGED <<dir, disk, files, fid, inode>>
       \/ \E i \in OsOpenFile(p, OFlags(f)) :
             /\ Named(p, i)
             /\ Stored(h, i)
             /\ rc' = "OK"
    /\ UNCHANGED <<buf, out>>

\* vfsDelete: os.Remove, ErrNotExist is OK, another error IOERR_DELETE;
\* then, with syncDir, a directory Sync that may fail (IOERR_DELETE with
\* the name already gone).
vfsDelete(p, syncDir) ==
    /\ \/ /\ dir[p] = Nil
          /\ rc' = "OK"
          /\ UNCHANGED dir
       \/ /\ dir[p] # Nil
          /\ rc' = "IOERR_DELETE"
          /\ UNCHANGED dir
       \/ /\ dir[p] # Nil
          /\ dir' = [dir EXCEPT ![p] = Nil]
          /\ rc' \in IF syncDir THEN {"OK", "IOERR_DELETE"} ELSE {"OK"}
    /\ UNCHANGED <<disk, files, fid, inode, buf, out>>

\* Mutant: a failed Stat reported as plain IOERR, not IOERR_ACCESS.
vfsAccessPlainIOERR(p, a) ==
    /\ \/ /\ dir[p] # Nil \/ a = "EXISTS"
          /\ out' = IF dir[p] # Nil THEN 1 ELSE 0
          /\ rc' = "OK"
       \/ /\ dir[p] = Nil /\ a # "EXISTS"
          /\ rc' = "IOERR_ACCESS"
          /\ UNCHANGED out
       \/ /\ rc' = "IOERR"
          /\ UNCHANGED out
       \/ /\ a # "EXISTS"
          /\ out' = 0
          /\ rc' = "OK"
    /\ UNCHANGED <<dir, disk, files, fid, inode, buf>>

\* vfsAccess: os.Stat.  EXISTS is 1 or 0 by whether the name exists;
\* READ and READWRITE test the 0600 mode vfsOpen created the file with,
\* and a missing name is neither ErrPermission nor success: IOERR_ACCESS.
\* Stat may also fail otherwise (IOERR_ACCESS); for READ and READWRITE a
\* Stat refused with ErrPermission (a directory on the path not
\* searchable) is 0 and OK.
vfsAccess(p, a) ==
    /\ \/ /\ dir[p] # Nil \/ a = "EXISTS"
          /\ out' = IF dir[p] # Nil THEN 1 ELSE 0
          /\ rc' = "OK"
       \/ /\ dir[p] = Nil /\ a # "EXISTS"
          /\ rc' = "IOERR_ACCESS"
          /\ UNCHANGED out
       \/ /\ rc' = "IOERR_ACCESS"
          /\ UNCHANGED out
       \/ /\ a # "EXISTS"
          /\ out' = 0
          /\ rc' = "OK"
    /\ UNCHANGED <<dir, disk, files, fid, inode, buf>>

-----------------------------------------------------------------------------
(* The file imports, on a handle the engine opened.                        *)

\* The slot is cleared whether or not the Close of the *os.File failed.
vfsClose(h) ==
    /\ IsOpen(h)
    /\ files' = [files EXCEPT ![fid[h]] = Nil]
    /\ fid' = [fid EXCEPT ![h] = Nil]
    /\ inode' = [inode EXCEPT ![h] = Nil]
    /\ rc' \in {"OK", "IOERR_CLOSE"}
    /\ UNCHANGED <<dir, disk, buf, out>>

\* The bytes f.ReadAt(mem, off) can put in mem[0:n]: the k = min(iAmt,
\* size - off) bytes the file has there, io.EOF when k < iAmt; or, when
\* the read fails (EIO), any n < k of them and that error.
ReadCounts(d, off, amt) ==
    LET k == IF off >= Len(d) THEN 0 ELSE IF Len(d) - off < amt THEN Len(d) - off ELSE amt
    IN  {[n |-> k, failed |-> FALSE]} \cup {[n |-> n, failed |-> TRUE] : n \in 0 .. k - 1}

\* vfsRead: n == iAmt is OK; nothing read for another reason than io.EOF
\* is IOERR_READ; otherwise the loop over mem[n:] stores zero at mem[i]
\* for i in 0 .. iAmt-n-1, and the result is IOERR_SHORT_READ.
vfsRead(h, off, amt) ==
    LET d == disk[inode[h]] IN
    /\ IsOpen(h)
    /\ \E r \in ReadCounts(d, off, amt) :
          LET read == [j \in 1 .. amt |-> IF j <= r.n THEN d[off + j] ELSE Garbage] IN
          CASE r.n = amt             -> buf' = read /\ rc' = "OK"
            [] r.n = 0 /\ r.failed   -> buf' = read /\ rc' = "IOERR_READ"
            [] OTHER                 -> /\ buf' = [j \in 1 .. amt |-> IF j <= amt - r.n THEN 0 ELSE read[j]]
                                        /\ rc' = "IOERR_SHORT_READ"
    /\ UNCHANGED <<dir, disk, files, fid, inode, out>>

\* The file after pwrite put b at off: a hole before off reads as zeros.
Written(d, off, b) ==
    LET end == off + Len(b) IN
    [j \in 1 .. IF end > Len(d) THEN end ELSE Len(d) |->
        IF off < j /\ j <= end THEN b[j - off] ELSE IF j <= Len(d) THEN d[j] ELSE 0]

\* f.WriteAt: all of b, or (ENOSPC, EIO) a prefix of it and the error.
vfsWrite(h, off, b) ==
    LET i == inode[h] IN
    /\ IsOpen(h)
    /\ off + Len(b) <= MaxSize
    /\ \/ /\ disk' = [disk EXCEPT ![i] = Written(@, off, b)]
          /\ rc' = "OK"
       \/ \E n \in 0 .. Len(b) - 1 :
          /\ disk' = [disk EXCEPT ![i] = IF n = 0 THEN @ ELSE Written(@, off, SubSeq(b, 1, n))]
          /\ rc' = "IOERR_WRITE"
    /\ UNCHANGED <<dir, files, fid, inode, buf, out>>

\* f.Truncate: shrinks, or extends with zeros; or fails.
vfsTruncate(h, size) ==
    LET i == inode[h] IN
    /\ IsOpen(h)
    /\ \/ /\ disk' = [disk EXCEPT ![i] = [j \in 1 .. size |-> IF j <= Len(@) THEN @[j] ELSE 0]]
          /\ rc' = "OK"
       \/ /\ rc' = "IOERR_TRUNCATE"
          /\ UNCHANGED disk
    /\ UNCHANGED <<dir, files, fid, inode, buf, out>>

\* f.Sync: durability is not modelled, only the result.
vfsSync(h) ==
    /\ IsOpen(h)
    /\ rc' \in {"OK", "IOERR_FSYNC"}
    /\ UNCHANGED <<dir, disk, files, fid, inode, buf, out>>

\* f.Seek(0, io.SeekEnd), stored at pSize; or IOERR_SEEK.
vfsFileSize(h) ==
    /\ IsOpen(h)
    /\ \/ /\ out' = Len(disk[inode[h]])
          /\ rc' = "OK"
       \/ /\ rc' = "IOERR_SEEK"
          /\ UNCHANGED out
    /\ UNCHANGED <<dir, disk, files, fid, inode, buf>>

Next ==
    \/ \E h \in Handles :
          \/ \E p \in Paths, f \in Flags : vfsOpen(h, p, f)
          \/ vfsClose(h)
          \/ \E off \in 0 .. MaxSize, amt \in 1 .. MaxAmt : vfsRead(h, off, amt)
          \/ \E off \in 0 .. MaxSize - 1, b \in UNION {[1 .. n -> Bytes] : n \in 1 .. MaxAmt} :
                vfsWrite(h, off, b)
          \/ \E size \in 0 .. MaxSize : vfsTruncate(h, size)
          \/ vfsSync(h)
          \/ vfsFileSize(h)
    \/ \E p \in Paths, s \in BOOLEAN : vfsDelete(p, s)
    \/ \E p \in Paths, a \in AccessFlags : vfsAccess(p, a)

Spec == Init /\ [][Next]_vars

-----------------------------------------------------------------------------
(* Every open handle finds its own file at the index it stored, and no two *)
(* open handles share a slot: a slot freed by vfsClose and reused by a     *)
(* later vfsOpen never still belongs to a handle the engine is using.      *)
OpenHandleOwnsSlot ==
    /\ \A h \in Handles : IsOpen(h) => fid[h] \in 1 .. Len(files) /\ files[fid[h]] = h
    /\ \A i \in 1 .. Len(files) : files[i] # Nil => fid[files[i]] = i

(* The file table never grows past the number of handles: vfsOpen reuses   *)
(* every slot vfsClose frees before appending, so a connection that opens  *)
(* and closes files forever (journals, temp files) keeps a bounded table.  *)
TableBounded == Len(files) <= Cardinality(Handles)

(* After a short read the buffer holds the bytes the file has and zeros    *)
(* after them, as the engine requires of xRead (spec 4.4: "zero-fill the   *)
(* tail"; sqlite3OsRead callers rely on the zeroed tail).                  *)
ShortReadZeroFillsTail ==
    rc = "IOERR_SHORT_READ" =>
        \E k \in 0 .. Len(buf) :
            /\ \A j \in 1 .. k : buf[j] \in Value
            /\ \A j \in k + 1 .. Len(buf) : buf[j] = 0
=============================================================================
