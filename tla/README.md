# TLA+ models of go-sqlite

This directory holds TLA+ specifications of the concurrent and stateful parts
of this repository, the TLC configurations that check them, and
`PROJECT.json`. That file lists the components, runs, mutants, the map from
definitions to source lines, findings and hazards.

## The system and its parts

The library runs SQLite compiled to WebAssembly inside a wazero module. The Go
side (`src/`) does three things: it drives the engine, it answers the engine's
host calls, and it supplies the alternative file systems (VFSes).

| Part | Source | State | Operations | Interactions |
|---|---|---|---|---|
| Connection and interrupt | `conn.go` | `c.done`, `c.waiter`, `c.handle`, the goroutine | `SetInterrupt`, `Exec`, `PrepareFlags`, `Close`, the interrupter goroutine | The goroutine calls `sqlite3_interrupt` concurrently with the connection's thread. The application closes `done` channels at any time. |
| Arena | `conn.go:262-339` | `base`, `next`, `size`, spilled `ptrs` | `newArena`, `new`, `string`, `reset`; `Conn.new`/`free` | Per-call scratch memory in the module's linear memory. `OpenFlags`, `Exec` and `PrepareFlags` marshal their arguments through it, and defer its reset. |
| Host VFS imports | `vfs.go` | `c.files` (file table), the OS files and their names | `vfsOpen`, `vfsClose`, `vfsRead`, `vfsWrite`, `vfsTruncate`, `vfsDelete`, `vfsAccess`, `vfsSync`, `vfsFileSize`, and stateless calls | Called by the engine on the connection's thread. |
| Memory VFS | `vfs/memdb/memdb.go` | `memDB`: sectors, size, `pending`, `reserved`, `shared`; `memFile.lock` per handle | `Open` (the `memoryDBs` registry under `memoryMtx`), `Lock`, `Unlock`, `CheckReservedLock`, `ReadAt`, `WriteAt`, `Truncate`, `SizeHint`, `Size`, `Close` | Many connections, on many threads, share one `memDB`. `lockMtx` and `dataMtx` guard it. |
| mmap support | `internal/util/mmap.go`, `module.go` | `mmapState.regions`: each region's size, `used` flag and what the OS maps at its address | `new`, `mmap`, `MapRegion`, `Unmap`, `closeNotify` | The OS VFS's shared-memory methods (not in this tree) map `-shm` ranges into the module through it. |
| readervfs, adiantum | `vfs/readervfs`, `vfs/adiantum` | none of their own | forwarders, cipher construction | |
| bloom_filter vtable | `ext/bloom/bloom.go` | the filter blob | `Update`, `BestIndex`, `Filter`, `Next` | Runs on one connection through blob handles. |

The hard behaviours are these:

- The `Lock(EXCLUSIVE)` wait releases `lockMtx` between polls.
- The cancel/acknowledge rendezvous of `SetInterrupt` must complete in order.
- The engine clears an interrupt that lands before a statement starts, so only the goroutine's 100ms re-interrupt makes the statement return.
- Sector arithmetic at sector boundaries.
- Slot reuse in the file table, and names deleted and created again while a handle keeps the old file.
- Reuse of shared-memory regions after a failed `mmap` or `Unmap`.
- Read-modify-write of the Bloom bytes, with failures part way.

## Modules

- **`VfsLockLevel`**: the five lock levels of package `vfs` (not in this tree).
- **`LockSpec`** (abstract): the levels the handles of one file hold, and what a step may do to them. `Compatible` is the promise:
  - at most one RESERVED;
  - at most one PENDING or higher;
  - EXCLUSIVE excludes every other lock;
  - no new SHARED while PENDING is held.
- **`MemDBLock`**: `memFile.Lock` / `Unlock` / `CheckReservedLock`.
  - Variables: `lock` (`m.lock` per handle), and `pending`, `reserved`, `shared` (the `memDB` fields).
  - `pc` is `"spin"` while a handle is inside the EXCLUSIVE wait loop.
  - Each action holds `lockMtx` for the whole step. `LockExclusive` is the first poll. `SpinWait` is each later poll: success, or BUSY when the 25µs budget runs out.
  - Early returns: `m.lock >= lock` changes nothing and is left out. A read-only handle asking for RESERVED or higher gets `LockReadOnly`, which returns IOERR_LOCK.
  - `Close` is `Unlock(NONE)`.
  - The module refines `LockSpec` with `level <- lock`.
- **`MemDBOpen`**: `memVFS.Open` and the handles of several `memDB` values.
  - Variables: `registry` (`memoryDBs`), `memoryMtx`, each handle's `db`, `readOnly` and `lock`, and each memDB's `reserved` and `shared`.
  - Open of a shared name `/k` is two steps, split at the mutex. `OpenLookup` takes `memoryMtx` and reads `memoryDBs[k]`. `OpenStore` fails CANTOPEN without a db or CREATE, else stores the db found or a new one, and releases the mutex.
  - A private name gets a new memDB in one step. A wrong file type is refused first.
  - A memDB id that no handle, pending Open or registry entry reaches is garbage and may be reused.
  - Locking is reduced to SHARED and RESERVED. `Close` is `Unlock(NONE)`.
- **`FileSpec`** (abstract): a byte file. Reads return its bytes, EOF, or short. Writes overwrite and extend with zeros. Truncate and size hints resize it.
- **`MemDBData`**: the sectors (`data`) and `size` of a `memDB`.
  - Each operation holds `dataMtx`, so it is one step.
  - Requests are sector-aligned and inside one sector, as the engine makes them.
  - It refines `FileSpec` with `content <- Content`: the first `size` bytes of the sectors.
- **`ConnInterrupt`**: the Conn and its interrupter goroutines.
  - Main thread `mpc`:
    - `si_send` is blocked on `c.waiter <- struct{}{}`;
    - `si_recv` is blocked on `<-c.waiter`;
    - `close_call` is about to call `sqlite3_close`;
    - `engine_start` / `engine_run` are inside `exec`.
  - Goroutine `gpc`:
    - `select` is the first select;
    - `interrupt` is about to call interrupt;
    - `tick` is the ticker select;
    - `ack` is about to send the acknowledgement.
  - The engine is abstracted to what `conn.go` relies on. These parts are marked spec-modelled in the map:
    - `flag` is `isInterrupted`;
    - starting a statement clears it;
    - a running statement returns INTERRUPT once it is set;
    - `close` returns BUSY while statements are open (`StmtClose`; `Stmt` is not in this tree);
    - any call on a closed module fails.
- **`VfsHost`**: the host VFS imports over a small OS.
  - Variables: `dir` (names to inodes), `disk` (each inode's bytes), `files` (`c.files`), `fid` (the id stored at `file+ptrSize`), `inode` (each handle's `*os.File`), `buf` (the engine's buffer after the last `vfsRead`, holding `Garbage` before it), `out` (`pResOut`/`pSize`) and `rc`.
  - `vfsOpen` is one action: the flag translation (`OFlags`), `os.OpenFile` (`OsOpenFile`: open the existing inode, create a free one, fail with EEXIST or ENOENT, or fail for any other reason), the lowest nil slot of `c.files` or an append (`FirstFree`), and the stored id.
  - `vfsDelete` is `os.Remove` (a missing name is OK) then the optional directory sync, which may fail after the removal. `vfsAccess` is `os.Stat` with the EXISTS, READ and READWRITE branches, including a Stat refused with ErrPermission, which READ and READWRITE report as 0 with OK.
  - `vfsRead` may read fewer bytes than asked (`ReadCounts`), with or without an error; `vfsWrite` may write a prefix and fail; `vfsTruncate`, `vfsSync` and `vfsFileSize` may fail.
  - An inode that no name and no handle refers to is free.
  - Note: `vfsOpen` uses a `c.files` field that the `Conn` struct in this tree does not declare. The model follows the functions.
- **`Mmap`**: the region pool of one module.
  - Variables: `pool` (`mmapState.regions` in allocation order), `rsize`, `used`, `mapping` (heap, a file range, the PROT_NONE anonymous mapping, or gone), `held` (the region each file's `xShmMap` keeps per id) and `phase`.
  - `ShmMap` is `MapRegion`: `new` reuses the first unused region of the size (`FirstUnused`) or appends a fresh `aligned_alloc` block, whose null result panics; then `mmap` marks it used on success and leaves it free on failure.
  - `ShmUnmap` is `Unmap` of every region the file holds, each of which may fail (then the region stays used); `closeNotify` munmaps the whole pool.
  - The callers (`xShmMap`, `xShmUnmap` of the OS VFS) are not in this tree and are modelled from the spec.
- **`Arena`**: the arena of one Conn, with uint32 arithmetic taken modulo `2^Width` and a linear memory of `MemBytes` bytes.
  - Variables: `base`, `next`, `ptrs` (the arena fields); `heap` (the blocks malloc has handed out); `blocks` (the pointers the current call hands the engine); `ops` (the arena requests the method still has to make); `state`.
  - `OpenFlags` malloc's the arena and queues `new(ptrlen)` and `string(name)`. `Exec` queues `string(sql)`. `PrepareFlags` queues two `new(ptrlen)` and `string(sql)`.
  - `Marshal` is one `arena.new`: the uint32 fit test and bump, or a spill through `Conn.new`, whose null result panics. For a string, `writeString`'s range check follows.
  - `Return` is the engine call and the deferred `reset`, which frees the spilled pointers.
  - The engine's `malloc` and `writeString` are not in this tree. They are modelled from the spec: any free block or null, and a range check that panics. A panic is the terminal state `dead`.
- **`Bloom`**: the filter blob `data`.
  - `calcHash` is an arbitrary function, chosen in `Init` from a small set of 64-bit values.
  - `Update(w)` either sets every bit of `w` or fails after the first `j` hash functions.
  - `cursor` holds each cursor's scan phase, `eof` and `arg`. `OpenCursor` is `bloom.Open`, with Go zero values.
  - `xFilter(c, q, w)` is the engine running the plan `BestIndex` chose for a query `q` of at most two WHERE terms (`Constraint`: column 0 or 1, `=` or `>`, usable or not). `BestIndex(q)` is the terms given ArgvIndex 1, the usable `=` terms on `word`. With one, the engine calls `Filter(c, w)`, which sets `eof` and `arg`; with none, `FilterNoArg(c)`, the early return for a call with no argument; with two, the engine refuses the plan.
  - `CursorNext` sets `eof`.
  - `added` records the inserts that succeeded.

## Runs

| Run | What it checks | What it shows |
|---|---|---|
| `memdb_lock` (`MCMemDBLock.cfg`) | `TypeOK`, `BookkeepingAgrees`, `ImplementsLockSpec`, `WriterNotStarved` | With 3 handles (one read-only) in every interleaving, including the released-mutex EXCLUSIVE wait, the memDB counters match the levels and the lock refines the abstract five-level lock. Under the fairness below, a writer holding PENDING always gets EXCLUSIVE or gives PENDING up: readers cannot starve it. 5285 states. |
| `memdb_data` (`MCMemDBData.cfg`) | `TypeOK`, `TailZero`, `ImplementsFileSpec` | Over 2 sectors of 4 bytes, the bytes past the size stay zero, and every read or size is what a plain file returns. 6462 states. |
| `memdb_open` (`MCMemDBOpen.cfg`) | `TypeOK`, `OneDBPerName`, `LocksAgreePerDB` | Three handles on one key race on `memoryMtx`, open shared or private with every flag combination, and lock and close. Every handle of `/k` uses the registered memDB, and each memDB's counters match its open handles. 707096 states, about 40 s. |
| `conn_interrupt` (`MCConnInterrupt.cfg`) | `TypeOK`, `NoLeakedInterrupter`, `InterrupterNeedsOpenConn`, `InterruptHonoured` | No goroutine is leaked or outlives the module, and a statement running with its done closed always returns. 19064 states. |
| `close_busy` | `CloseBusyIsNoOp`, violated | A BUSY Close has already dropped `done`. |
| `close_twice` | `CloseTwiceIsNoOp`, violated | A second Close returns the closed module's error. |
| `vfs_host` (`MCVfsHost.cfg`) | `TypeOK`, `OpenHandleOwnsSlot`, `TableBounded` | With every OS failure, partial reads and writes, and names deleted and created again, freed slots are reused and never shared between open handles, and the table never grows past one slot per handle. 186352 states (with symmetry), about 25 s. |
| `short_read` | `ShortReadZeroFillsTail`, violated | vfsRead zeroes the head of the buffer, not the tail. |
| `arena` (`MCArena.cfg`) | `TypeOK`, `MarshalledArgsOwned`, `NoSpillLeak` | With string sizes that fit, wrap the fit test, and truncate in uint32, every pointer handed to the engine lies in memory the connection owns and overlaps no other argument, and no spilled block outlives its call. 1120 states. |
| `bloom` (`MCBloom.cfg`) | `NoFalseNegative` | With every hash function over colliding values and partial failures, an inserted word is always found. 11060 states. |
| `mmap` (`MCMmap.cfg`) | `HeldRegionsMapTheirRequest`, `UsedTracksMapping` | With `mmap` and `Unmap` failing at any point and regions reused across files, every region a file holds maps that file's range alone, and `used` is set exactly when a file is mapped over the region. 684 states (with symmetry). |
| `bloom_scan_row` | `RowsHaveWords`, violated | A query with no usable `word =` term gets a Filter with no argument, which returns early, and the new cursor yields a row with no word. |

Every property of a passing run has a mutant in `PROJECT.json`. It is a plausible bug in the mapped definition that TLC finds:

- the SHARED case ignoring `pending`;
- `<=` for `<` in Unlock;
- `size % sectorSize` for `modRoundUp`;
- truncate not clearing the tail;
- `divRoundUp` one too large;
- SetInterrupt not waiting for the acknowledgement;
- Close closing the engine first;
- no ticker re-interrupt;
- a double Stmt.Close;
- the slot search without its nil test, or always appending;
- the region search without its `!r.used` test;
- `Unmap`'s `used` test inverted;
- the EXCLUSIVE wait giving PENDING back when it times out;
- a blind byte write in Bloom;
- `arena.new` without its bump, or testing only `a.next` against the size;
- a reset that forgets the spilled pointers without freeing them;
- vfsAccess reporting plain IOERR;
- the registry lookup without `memoryMtx`;
- Close without `Unlock(NONE)`;
- Unlock without its early return.

## Findings

1. **`vfs.go:246`, a code bug.** The short-read loop `for i := range mem[n:] { mem[i] = 0 }` zeroes `mem[0:iAmt-n]`. It overwrites the data read and leaves the tail holding stale buffer contents. The spec (§4.4) requires zero-filling the tail.
2. **`conn.go:77`, a divergence from the spec.** A Close that returns BUSY is not a no-op: the interrupter has already been stopped and `done` reset.
3. **`conn.go:79`, a divergence from the spec.** Closing twice calls the closed module and returns its error, not OK.
4. **`ext/bloom/bloom.go:230`, a code bug.** `BestIndex` asks for an argument only for a usable `word =` term, so a full scan, `word > ?` or an unusable `=` term calls `Filter` with no argument.
   - `Filter` returns at once, and a new cursor has `eof` false and a nil `arg`.
   - So the scan yields one row. Reading its `word` column dereferences the nil `c.arg`, although the column is declared NOT NULL.

## Observations without a run

These were found while modelling. Each has no violation run of its own: either it is not reachable in practice, or it is kept out of the runs to keep their number small.

1. **`conn.go:324`, a code bug at an extreme edge.** The fit test `a.next+size <= a.size` wraps in uint32 for a string of nearly 4 GiB.
   - Suppose the linear memory has grown to the full 4 GiB and the arena block ends at its top. Then `a.base+a.next` wraps to 0.
   - `writeString`'s range check passes, and the string overwrites memory from address 0, including the out slots `PrepareFlags` took just before.
   - With a memory smaller than the address space, the same string is stopped by the range check. The `arena` run shows that. Setting `MemBytes` to `2^Width` in `MCArena.cfg` makes TLC find the overlap.
2. **`vfs.go:167`, a divergence from the spec.** `vfsOpen` never reads `OPEN_DELETEONCLOSE`, and `vfsClose` does not remove the file. A file the engine opens with DELETEONCLOSE stays on disk. Spec §4.4 lists the flag among those open respects. `VfsHost` leaves the flag out of `Flags` for this reason: `vfsClose` only frees the slot.

## Bounds, and why they are enough

- **Lock: 3 handles.** Three handles let one hold PENDING while two are at SHARED. That covers the wait with a reader draining, and a second writer being refused. The read-only handle exercises IOERR_LOCK.
- **Data: sector size 4 and at most 8 bytes.** That gives two sectors and every alignment case of `modRoundUp`: a partial or a full last sector. It also covers shrinking into the middle of a sector and re-growing, and holes.
- **Data: the single byte value 1.** It tells written bytes from zeros, which is all the properties compare. A second value made the run take half an hour.
- **Interrupt: 2 signals, 3 goroutine ids, 1 statement.** Replacing a signal while a goroutine runs, and after it fired, needs 2 signals and 2 live goroutine generations. One statement is enough for the BUSY close.
- **VfsHost: 2 handles, 1 name, 2 inodes, a file of at most 2 bytes, reads and writes of up to 2 bytes.** Two handles make a hole at slot 0 that a reopen must fill, and let one handle keep a deleted file open while the other creates the name again on the second inode. Two bytes give a short read with 0 < n < iAmt. Handles and inodes are interchangeable model values, so the run uses symmetry; the violation run `short_read` does not.
- **Mmap: 3 regions, 2 files, ids {0, 1}, one size.** Two files with two ids each hold up to 4 regions, more than the 3 ids the pool has, so allocation runs out and reuse after `Unmap` (successful or failed) is forced. One size is what the engine asks for (32 KiB); a region of another size is never reused, which the search's size test already decides. Regions and files are symmetric.
- **MemDBOpen: 3 handles, 1 key, 3 memDB ids.** Two handles race to create one shared name while a third opens the same key privately. Three ids let every handle hold its own memDB at once, so a new memDB is never refused for lack of an id.
- **Arena: 5-bit sizes, an 8-byte arena, 4-byte pointers, string lengths {2, 29, 35}.** Length 2 fits the arena. Length 29 (size 30) wraps the fit test from `next` 4 or 8. Length 35 (size 36) truncates to 4. A 28-byte memory leaves the top of the address space unmapped, as any memory under 4 GiB does. Malloc may place a block anywhere free or fail, so every placement of the arena and of the spills is covered.
- **Bloom: 1 cursor**, reopened and refiltered at will, which covers every order of the scan protocol. **2 words, 2 hash functions, a 2-byte filter, raw hashes {3, 5, 12, 19}.** These give collisions modulo 16, two different bits in one byte, and the other byte.

## Fairness

`ConnInterrupt` assumes weak fairness for:

- every goroutine step;
- the rendezvous steps;
- the engine starting and finishing a finite statement, and acting on its interrupt flag;
- `sqlite3_close` returning.

The Go scheduler runs runnable goroutines, and the ticker fires every 100ms. The application's own calls and cancellations get no fairness.

`MemDBLock` assumes weak fairness, per handle, for:

- `SpinWait`: the wait loop always ends, with EXCLUSIVE or with BUSY after 25µs;
- a handle at PENDING asking for EXCLUSIVE again: the engine's busy handler retries a BUSY lock;
- a handle at SHARED or RESERVED that is not the PENDING holder unlocking to NONE: a reader's statement or transaction ends.

No fairness is given to taking new locks, so readers may keep arriving; `WriterNotStarved` holds because PENDING keeps new readers out. The other modules are checked for safety only.

## Not modelled

- `OpenFlags` beyond its arena use: `newConn`, and the engine's `open` failing.
- `error()` (string building).
- The OS-file VFS lock code (package `vfs`, not in this tree).
- readervfs (its readers' registry is not in this tree), adiantum, the driver error type.
- The OS VFS's shared-memory methods that call `Mmap`'s functions: they are modelled from the spec.
- Bloom's `create`/`connect`/`Rename`/`Destroy`: they only issue SQL against the storage table, and whether a failed `create` leaves that table behind is decided by the engine's statement rollback, not by this code. The floating-point `computeLength`, and the cost and flag fields `BestIndex` fills.
- A `memDB` write that crosses a sector. The engine writes whole aligned pages of at most one sector, so `Writes` holds in-sector requests only. (Allowing crossing writes, with the code's short-write branch, makes TLC report `TailZero` violated after one 2-byte write at offset 3 of an empty file with 4-byte sectors.)
- `vfsFullPathname` and the stateless imports: path conversion, randomness, time.
- `OPEN_DELETEONCLOSE`, which `vfsOpen` ignores (see above).
- The engine's `malloc` and `writeString` (not in this tree): `Arena` takes them from the spec.

## Plan for later work

1. A composition of `MemDBLock` and `MemDBData` under the pager discipline: writes only under EXCLUSIVE, reads under SHARED. It would check that readers never see a half-done transaction, as in `tests/parallel`.
2. Error translation (`error()`): which return codes map to which errors, and the NOMEM panic.
3. `CheckReservedLock` on a memDB whose PENDING or EXCLUSIVE holder came straight from SHARED, as SQLite does for hot-journal rollback. The holder has no `reserved`, so other handles are told no writer exists (`memdb.go:263`).
