# TLA+ models of corobase's memory reclamation and SSN reader tracking

The sources under `src/src/dbcore/` hold two pieces of the storage manager:

* `sm-alloc.cpp`: the per-socket **region allocator** (a hot ring of segments
  with a bump cursor, a cold region), its **epoch callbacks**, and the
  **reclaim daemon** of every socket, which drains one segment of its ring
  per GC cycle by walking every version chain;
* `serial.cpp`: the **reader tracking** of the serial safety net (SSN): one bit
  per thread in a process-wide claimed word, a readers bitmap in every version,
  and the readers list that maps a bit to the running transaction and to the
  last commit stamp of its thread;
* `sm-rep.h`: declarations for log shipping (no behaviour).

This directory models them in TLA+ and checks them with TLC.

## 1. Inventory

### Components, state and operations

| Component | State | Operations | Module |
|---|---|---|---|
| Region allocator | `_allocated_hot_offset`, `_allocated_cold_offset`, `_reclaimed_offset`, `_allocated`, `_state` per socket | `allocate`, `allocate_cold`, `trigger_reclaim` | `RegionAllocator` |
| `RA` namespace | `ra_nthreads`, `tls_ra`, `trim_lsn`, `system_loading`, `tables` | `init`, `register_thread`, `allocate`, `allocate_cold`, `register_table` | `RegionAllocator` (not `tables`) |
| Epoch callbacks | `epoch_tls.initialized`, the cookie of each epoch | `thread_registered`, `thread_deregistered`, `epoch_ended`, `epoch_ended_thread`, `epoch_reclaimed`, `epoch_enter`, `epoch_exit`, `epoch_thread_quiesce` | `RegionAllocator` |
| Reclaim daemon | `tlsn`, `start_offset`, the condition variable | wait, wake, copy to cold, copy to hot, truncate, finish | `RegionAllocator` (cycle), `ChainReclaim` (walk) |
| Epoch manager | threads inside the open epoch, closed epochs | `thread_enter`, `thread_quiesce`, `thread_exit`, `new_epoch_possible`, `new_epoch`, reclamation | `EpochManager` (from the design; `epoch.cpp` is not in the sources) |
| Reader slots | `claimed_bitmap_entries`, `tls_bitmap_entry` | `assign_reader_bitmap_entry`, `deassign_reader_bitmap_entry` | `ReaderSlots` |
| Readers bitmap | `dbtuple::rl_bitmap` | `serial_register_reader_tx`, `serial_deregister_reader_tx`, `serial_get_tuple_readers` | `ReaderSlots` |
| Readers list | `rlist.xids`, `rlist.last_read_mostly_clsns` | `serial_register_tx`, `serial_deregister_tx`, `serial_stamp_last_committed_lsn`, `serial_get_last_read_mostly_cstamp` | `ReaderSlots` |
| Version chain | head pointer, `object::_next`, `dbtuple::clsn` | link by a writer, relocation and truncation by the daemon of each socket | `ChainReclaim` |
| Transactions and updaters | `dbtuple::persistent_reader`, the context of a transaction (state, cstamp, pstamp, sstamp) | begin, read, mark of an old version, update, pre-commit inspection, back-edge, commit, abort | `ReaderSlots` (from the design comment of `serial.cpp`; the code is not in the sources) |
| Replication (`sm-rep.h`), index, log | | | not modelled |

### How the parts interact

A worker thread enters an epoch at the start of a transaction and allocates
versions with `RA::allocate`. When the cursor of its socket's allocator crosses
a segment boundary, `allocate` sets the state to `RA_GC_REQUESTED`. When
`TRIM_MARK` bytes have been allocated, `allocate` asks the epoch manager for a
new epoch; `epoch_ended` attaches the log's current LSN to the closed epoch if
some allocator is in `RA_GC_REQUESTED` or `RA_GC_FINISHED`. When every thread
that was inside the closed epoch has quiesced, `epoch_reclaimed` makes the
cookie the new `trim_lsn`, moves requested allocators to `RA_GC_IN_PROG` and
notifies their daemons, and for finished allocators advances
`_reclaimed_offset` by one segment and returns them to `RA_NORMAL`. The daemon
copies every version of the segment that is still needed to the cold region or
to the segment being filled (through the same `allocate`), swaps the copies
into the chains with compare-and-swap against concurrent writers, and sets
`RA_GC_FINISHED`. The tables are global and every daemon walks all of them,
picking the objects of its own segment by their address; one call of
`epoch_reclaimed` starts the pass of every allocator that has requested one,
so the daemons of several sockets work on the same chains at the same time.

The reader protocol is independent of the allocator: a thread claims a bit
once, every transaction writes its XID to the entry of that bit, sets the bit
in the bitmap of each version it reads and clears it in post-commit, unless it
considered the version old, in which case the bit stays and the thread's last
commit stamp in the readers list stands for the reader. An updater in
pre-commit locks the marker of the version it has overwritten, reads the
bitmap, and for every bit finds the transaction of the entry: it waits for a
reader that commits before it and takes that reader's commit stamp, or the
entry's last commit stamp, as its predecessor stamp.

### What is hard here

* Three writers of `_state` (allocate, epoch_reclaimed, the daemon) with no
  lock; `_reclaimed_offset` and the cursor compared without a common atomic
  step.
* A condition variable waited on without a predicate.
* Epoch cookies created for one allocator and applied to all of them.
* Lock-free chain surgery by the daemon while writers install heads, and by
  the daemons of several sockets on one chain.
* Check-then-act on bitmaps (`read; test; fetch-and-or/xor`), bits that
  outlive their transaction, and `__builtin_ctzll` of a word that may be 0.
* An updater that reads a bitmap, an XID and a context in three steps while
  the readers commit, leave and hand their entries on.
* A reader that marks a version and sets its bit in two steps, and an updater
  that writes into the context of a reader that is about to commit.
* A walk that starts over after every lost compare-and-swap, against writers
  that never wait for it.
* Arithmetic edges: a chunk that ends exactly on a segment boundary, a window
  that is exactly full, the wrap of `old_bitmap + 1` and of `_allocated`.

`PROJECT.json` lists these hazards at their source lines with the properties
that cover them.

## 2. Modules

| Module | Models | Lines of code |
|---|---|---|
| `EpochManager` | the epoch manager as `sm-alloc.cpp` uses it | design text |
| `RegionAllocator` (extends `EpochManager`) | `sm-alloc.cpp` except the chain walk | 9-327, 389-393 |
| `SegmentWindow` | what the allocator promises, in whole segments | the abstract specification `RegionAllocator` implements |
| `ChainReclaim` | the chain walk of `reclaim_daemon` and the writers it races with | 328-387 |
| `ReaderSlots` | `serial.cpp` | 164-258; the old-version rule, the transaction around the calls and the updater's inspection are modelled from the design (the comment at lines 5-162) and marked `spec_modelled` in the map |
| `MCRegionAllocator`, `MCReaderSlots`, `MCChainReclaim` | the symmetry sets for TLC | |

### RegionAllocator

Each worker thread and each daemon is a *caller* with a program counter
`pc[c]` and the locals of its call in `frame[c]`. `region_allocator::allocate`
is split at every access to shared state:

| Action | Code |
|---|---|
| `AllocBump` | `__sync_add_and_fetch(&_allocated_hot_offset, size)` |
| `AllocCheck` | the `THROW_IF` on `_reclaimed_offset`, the add to `_allocated`, the span test |
| `AllocSpan` | `state() != RA_NORMAL` and the `throw` |
| `AllocRequest` | `set_state(RA_GC_REQUESTED); goto retry` |
| `AllocTrim` | the `TRIM_MARK` test, `new_epoch_possible`, `new_epoch` (which calls `epoch_ended`), the read of `_allocated` |
| `AllocReset` | `__sync_add_and_fetch(&_allocated, -_allocated)` and the return |
| `AllocCold` | `allocate_cold` |

An exception in a worker returns it to its transaction without a chunk. An
exception in the daemon, which runs in a detached thread with no handler, ends
the process: every caller becomes `"dead"`.

The daemon is `DaemonWait` (it reaches `_reclaim_cv.wait`), `DaemonWake` (it
reads `trim_lsn` and `_reclaimed_offset`), any number of `DaemonCopyCold` and
`DaemonCopyHot` up to `MaxCopies` (each a call of `allocate_cold` or
`allocate` with the daemon as caller), and `DaemonFinish`. A notify reaches
the daemon only when it is waiting (`trigger_reclaim`), and `wait` returns on
a notify; with `SpuriousWakeups = TRUE` (run `ra_spurious`) it also returns
without one, which the wait without a predicate at line 317 allows.

`thread_deregistered` is the assignment of the code and nothing else. The
step in which a thread ends, `thread_fini`, is the epoch manager's: it calls
`thread_deregistered` and, as the comment in `epoch_ended` says, `epoch_ended`
outside any transaction; it is modelled from that comment.

Three actions join several accesses of the code, each for a reason that can
be checked against the source:

* `AllocCheck` joins the read of `_reclaimed_offset` (276), the add to
  `_allocated` (277) and the span test (280). The span test reads locals
  only. `_reclaimed_offset` only grows, so a check that passes on an older
  value passes on a newer one, and a check that throws does so after the
  cursor was moved in `AllocBump`, which is a step of its own: moving the
  read to the add changes no outcome another caller can see. `_allocated` is
  read by `AllocTrim` only, which is a later step.
* `AllocTrim` joins the test at 290 with `new_epoch_possible` and
  `new_epoch`, and records the value of `_allocated` that `AllocReset` will
  subtract. The two calls are the epoch manager's, whose code is not among
  the sources: the model takes `new_epoch` to close the epoch whenever
  `new_epoch_possible` held. The read of the operand and the atomic add are
  two actions, so a reset by another caller can come between them.
* `epoch_reclaimed` is one action over all allocators, where the code reads
  and writes the state of each in turn. The other writers of a state are
  `AllocRequest` (to `RA_GC_REQUESTED`, after `AllocSpan` found `RA_NORMAL`)
  and `DaemonFinish` (from `RA_GC_IN_PROG`). The callback changes an
  allocator it finds in `RA_GC_REQUESTED` or `RA_GC_FINISHED`, where the
  daemon is not in a pass. A caller that stands between its check and its
  write found `RA_NORMAL` inside a transaction whose epoch is not reclaimed
  yet, and with one closed epoch pending (`EpochDepth = 1`) the callback
  that runs cannot be for a request made after that check on the same
  allocator; on an allocator it finds in `RA_GC_REQUESTED` such a write
  stores the value that is there. Steps on other allocators touch one state
  each and can be moved before or after the loop. The argument does not
  cover a deeper epoch manager, which no run has (section 7).

Offsets are counted in allocation units and never masked: the ring position
is the offset modulo `HotCapacity`, the segment is the offset divided by
`SegmentSize`. `_allocated` is kept modulo `CounterModulus`, the model's 2^64.

History variable: `drained[s]`, the segments the daemon has made a pass over
that started after the cursor had left them.

### SegmentWindow and the refinement

`SegmentWindow` says what the allocator is for, without cursors, GC states,
epochs or a daemon. Segments are numbered in the order the cursor meets them;
segment `n` lies in slot `n % NumSegments` of the ring. Its state is, for
every ring, the segments with a chunk that is granted and not yet linked
(`taken`), the segments the collector has drained (`swept`) and the number of
segments open to allocation (`window`). Its steps:

| Step | Allowed when |
|---|---|
| `Grant(r, seg)` | `seg` is inside the window and not swept, and the segment that lay in its slot before is swept |
| `Settle` | always: transactions link or give up what they were granted |
| `Sweep(r)` | no unlinked chunk lies in the slot of the oldest segment |
| `Release(R)` | the oldest segment of every ring in `R` is swept; the window opens by one segment |

`RegionAllocator` instantiates it (`Window == INSTANCE SegmentWindow WITH
...`) under the refinement mapping

| `SegmentWindow` | `RegionAllocator` |
|---|---|
| `taken[s]` | the segments of the chunks in `held` and of the chunk a caller of `allocate` has been granted and not yet returned (`Taken`) |
| `swept[s]` | `drained[s]` |
| `window[s]` | `_reclaimed_offset` of `s`, in segments |

and `ImplementsWindow` is the abstract `Spec` as a property of the run
`ra_cycle`: every step of `allocate`, of the callbacks and of the daemon is
one of the four steps above or leaves the three variables alone. `Release`
takes a set of rings because one call of `epoch_reclaimed` advances every
allocator that is in `RA_GC_FINISHED`.

### ChainReclaim

One chain of one oid, and the daemon of every socket in `Sockets`. An object
has `_next`, the commit stamp of its version, and a place (`at`): the segment
that the daemon of a socket drains, elsewhere in a hot ring, or a cold region;
`InSegment(s, o)` is the daemon's test of the object's offset against its own
`_hot_data`. A writer allocates from the allocator of the socket it happens to
run on (`WriteBegin`; `RA::allocate` takes `sched_getcpu() % ra_nsock` for a
thread that is not registered) with the installer value for a commit stamp
(`Installer`, above every LSN), links the version (`WriteLink`) and, after its
commit, overwrites the installer value with the commit stamp (`WriteCommit`);
a writer whose compare-and-swap fails gives up, and no version is put over a
head that is not committed (`HeadCommitted`).

The allocator of a socket is its GC state. While it is `RA_NORMAL` a version
taken from it lies in the segment that is drained next; an allocation that
crosses the boundary sets `RA_GC_REQUESTED` (`LeaveSegment(s)`), and what is
allocated afterwards lies in the segment that follows. `epoch_ended` returns
the cookie of the epoch that closes while a request is pending: the log's
`cur_lsn`, or `INVALID_LSN` at the exit of a thread. `epoch_reclaimed` makes
a valid cookie the trim LSN and takes every allocator with a request to
`RA_GC_IN_PROG`; `DaemonWake(s)` is the return of `wait` in that state and
the read of `trim_lsn`. The epoch manager is not part of this module: that no
transaction is at work on a version of a requested segment when the epoch is
reclaimed is the assumption `EpochOver`, a guard of `epoch_reclaimed`. The
daemons then make their passes, while writers go on in the segments of other
sockets and in the hot ring:

| Action | Code |
|---|---|
| `StartOver(s)` | the read of the head, `continue` on an empty chain, the `memcpy` of an old head into the cold region |
| `ColdSwap(s)` | the compare-and-swap of the head to the cold copy, `goto start_over` or `continue` |
| `Walk(s)` | the loop head: end of the chain, the segment test and the step over a version outside it, the test for a cut, the `memcpy` into the hot ring |
| `Cut(s)` | the compare-and-swap of `prev->_next` to NULL, `goto start_over` or `break` |
| `Swap(s)` | the compare-and-swap of the copy into the head or into `prev->_next`, `goto start_over` or the step to the next version (`Advance`) |

A step of one daemon can come between any two steps of another and of the
writer. The locals of a walk (`d[s]`) are those the code declares at
`start_over`; they are reset when the walk starts over or ends (`Goto`).
History variable: `linked`, the commit stamps ever linked. `Pass(s)` is
every step of the walk of one daemon, and `FairSpec` adds weak fairness of it
for every socket.

### ReaderSlots

Bitmaps are naturals below `2^Width`, with the operators of the community
module `Bitwise` for `&`, `|` and `^`. `assign_reader_bitmap_entry` is
`AssignRead` and `AssignCas`; `serial_register_reader_tx` is `RegisterRead`
and `RegisterOr`; `serial_deregister_reader_tx` is `DeregisterRead` and
`DeregisterXor`. `Index(t)` is what `__builtin_ctzll(tls_bitmap_entry)`
yields: the position of the bit, or any index, one past the list included,
when the word is 0. `serial_stamp_last_committed_lsn` and
`serial_deregister_tx` are one write to the readers list each. The
transaction around the calls follows the design comment at the top of
`serial.cpp`: begin, reads, pre-commit, the exclusion test (`Validation`),
the stamp in the readers list "when a reader is sure it can commit", the
commit (`Commit`), post-commit over the read set, the call of
`serial_deregister_tx` when the read set is deregistered (`TxEnd`) and the
release of the context (`Leave`), each a step of its own, so that an updater
can read the list and the context between any two of them. A version becomes
old (`Age`) and is then not tracked by the transactions that begin later.

The design comment's protocol for old versions is modelled step by step:

| step of the design | action | state |
|---|---|---|
| the reader sets the marker's low bit, or aborts when the marker is locked | `MarkOld` | `marker[v].mark`, `ctx[t].state` |
| the reader then claims its position and does not track the read | `RegisterRead`, `RegisterOr` (`Tracked`) | `rl_bitmap`, `ctx[t].old` |
| a transaction installs a new version; one updater per version | `Update` | `writer[v]` |
| the transaction takes its commit stamp | `PreCommit` | `ctx[t].cstamp`, `cur_lsn` |
| the updater locks out the readers to come | `LockMarker` | `marker[v].lock` |
| it reads the bitmap without its own bit | `Snapshot` | `local[t].bitmap` |
| for each bit, the XID of the entry | `ResolveXid` | `local[t].xid` |
| the commit stamp is also the successor stamp, unless that is lower already: it is stable before a reader is given it | `PreCommit` (`Lowered`) | `ctx[t].sstamp` |
| the context of the XID: spin on a reader that commits earlier, take its commit stamp, or the entry's last commit stamp when it aborted or is gone | `ResolveContext` (`SpinsOn`, `Predecessors`) | `ctx[t].pstamp` |
| a reader that is not in pre-commit, or has a later commit stamp: the updater reads its state | `ResolveContext` (`Later`) | `local[t].seen` |
| a compare-and-swap lowers the reader's sstamp to the updater's | `BackEdge` | `ctx[r].sstamp` |
| the state is read again; if it changed the updater has missed its opportunity and aborts | `Validate` (`StateUnchanged`, `GiveUp`) | `ctx[t].state`, `writer` |
| a marked version: the last commit stamp of every entry | `Sweep` (`SweptSlots`) | `ctx[t].pstamp`, `ctx[t].done` |
| a transaction commits only if its pstamp is below its sstamp | `Validation` (`Validated`) | `pc[t]` |
| sure to commit, it makes its commit stamp the entry's last one | `serial_stamp_last_committed_lsn` | `last_read_mostly_clsns` |
| the commit is known | `Commit` | `ctx[t].state`, `oldstamps`, `successor` |

A context belongs to the thread that runs the transaction and is found
through the XID (`Context`); it is gone once the transaction has
deregistered. A spin is an action that is not enabled: `ResolveContext` waits
while `SpinsOn` holds. `Sweep` reads all entries in one step; the stamps of an
entry only grow, so a pass in several steps would yield no lower a stamp. A
successor stamp of 0 is none; `BackEdge` is the compare-and-swap loop as one
step, since a loop that ends on success is an atomic minimum. A reader whose
context is present and that has finished (committed with a later stamp, or
aborted) is neither spun on nor given a back-edge; it is accounted for like
a reader that is gone, by the last commit stamp of its entry
(`Predecessors`), which for a reader that committed is its commit stamp: an
updater that finds a reader committed after its own commit stamp raises its
predecessor stamp to its successor stamp and fails its own exclusion test.

History variables: `untracked[v]`, the bits that reads of `v` as an old
version have left; `oldstamps[v]`, for every transaction that read `v` as an
old version and committed, its commit stamp and the successor stamp it
committed with; `successor[v]`, the stamps of the updater of `v` that
committed; `smashed`, a write went past the readers list.

## 3. Runs

| Run | Configuration | Checks | Result |
|---|---|---|---|
| `ra_cycle` | `RegionAllocator.cfg` | `TypeOK`, `RingExclusive`, `NoReuseBeforeDrain`, `PassAfterQuiescence`, `PassOnlyInProg`, `CopiesLeaveSegment`, `TrimNeverRetreats`, `GcCycleOrder`, `ImplementsWindow` (refinement) | holds, 651,550 states |
| `ra_window` | `RegionAllocatorWindow.cfg` | `WindowBounds` | violated |
| `ra_exact_fit` | `RegionAllocatorExactFit.cfg` | `EveryCrossingCollected` | violated |
| `ra_spurious` | `RegionAllocatorSpurious.cfg` | `PassOnlyInProg` | violated |
| `ra_sockets` | `RegionAllocatorSockets.cfg` | `PassAfterQuiescence` | violated |
| `ra_lost_notify` | `RegionAllocatorLostNotify.cfg` | `CollectionFinishes` (liveness, `FairSpec`) | violated |
| `slots` | `ReaderSlots.cfg` | `TypeOK`, `SlotsExclusive`, `ReadersVisible`, `NoStrayBits`, `XidOfOwner`, `OldReadersAccounted` | holds, 856,086 states |
| `slots_late_reader` | `ReaderSlotsLateReader.cfg` | `OldReaderWarned` | violated |
| `chain` | `ChainReclaim.cfg` | `TypeOK`, `NoLiveVersionLost`, `ChainDescends`, `WalkEnds` (liveness, `FairSpec`) | holds, 243,478 states |
| `chain_drained` | `ChainReclaimDrained.cfg` | `SegmentDrained` | violated |
| `chain_two_daemons` | `ChainReclaimTwoDaemons.cfg` | `DrainedStaysDrained` (action property) | violated |
| `chain_snapshot` | `ChainReclaimSnapshot.cfg` | `SnapshotVersionKept` | violated |

Run them with `tlc -workers 2 -config <cfg> <MC module>`.

Two further configurations are kept beside the runs:
`ReaderSlotsExhausted.cfg` of `MCReaderSlots` (see "What does not hold"), and
`RegionAllocatorCold.cfg` of `MCRegionAllocator`, which is `ra_cycle` with
room for a third chunk in the cold region (`MaxCold = 9`): `allocate_cold`
throws there, in a transaction and in the daemon, and the nine properties
hold (1,504,582 states, about three minutes).

### What holds

* **RingExclusive**: two chunks that are still private to their transactions
  never share a byte of the ring, and no chunk spans two segments.
* **NoReuseBeforeDrain**: a chunk is granted in a ring slot that was used
  before only after the daemon has made a pass over that segment which began
  after the cursor had left it.
* **PassAfterQuiescence** (one socket, one pending epoch): while the daemon
  works on a segment no transaction holds an unlinked chunk of it.
* **PassOnlyInProg** (no spurious wake-ups): the daemon works only in
  `RA_GC_IN_PROG`.
* **GcCycleOrder**: the state moves only round its cycle and
  `_reclaimed_offset` only by one segment on `FINISHED -> NORMAL`, even when
  two workers cross boundaries at once and both write `RA_GC_REQUESTED`, and
  when the cursor crosses a second boundary during a collection (the caller
  then throws).
* **ImplementsWindow**: `RegionAllocator` implements `SegmentWindow` under the
  mapping above. In particular `_reclaimed_offset` advances only over a
  segment the daemon drained, and a pass that counts as a sweep starts only
  when no unlinked chunk lies in the slot.
* **CopiesLeaveSegment**: the chunks the daemon is granted for its hot copies
  never lie in the ring slot of the segment it is draining. `ChainReclaim`
  relies on this: it places every hot copy outside the segment. The ring of
  three segments leaves the window room for the daemon's copies during a pass.
* **TrimNeverRetreats**: `trim_lsn` never moves back, in particular not to the
  `INVALID_LSN` cookie of an epoch that a thread's exit or the daemon closed.
* **SlotsExclusive**: every claimed bit has exactly one owner.
* **ReadersVisible**: a writer sees the bit of every running reader that
  tracks the version and of every read of it as an old version, whoever else
  registers or deregisters meanwhile.
* **NoStrayBits**: a set bit stands for a reader; repeated reads of one
  version by one transaction leave nothing behind.
* **XidOfOwner**: an entry of `rlist.xids` is the XID of the transaction on
  the thread that owns the bit, or 0.
* **OldReadersAccounted**: an updater that has inspected a version has a
  predecessor stamp no lower than the commit stamp of any transaction that
  read the version as an old one and committed before it. The reader tracks
  nothing and may be gone; its bit may be the updater's own, which the
  snapshot leaves out, or may stand for a later transaction on the same
  thread that commits after the updater and contributes nothing. In both
  cases only the pass over the last commit stamps of a marked version
  accounts for the reader: without it the property fails. The order in
  which the reader stamps the list, commits, clears its entry and leaves is
  the design's; the property shows that this order is enough, whatever the
  updater reads in between.
* **NoLiveVersionLost**: no version that was linked and is not older than the
  trim LSN is unlinked, whatever the interleaving of the compare-and-swaps of
  two daemons and a writer. It says that an object with the version's commit
  stamp stays in the chain, not where that object lies: with two daemons it
  can be the original in a drained segment (`chain_two_daemons`). It is
  shown under the assumption `EpochOver`: a daemon that starts while a
  writer is at work on a version of its segment copies the installer value
  with the version, and the stamp of the commit goes to the original.
* **ChainDescends**: commit stamps strictly descend along the chain; two
  daemons that copy neighbouring versions at once leave no cycle and no
  version twice.
* **WalkEnds** (liveness): a walk that begins, or begins again after a lost
  compare-and-swap, comes to its end: every compare-and-swap a daemon loses
  was won by a writer or by the other daemon, and the next one is made on what
  the chain has become. It holds with fairness of the daemons alone; it fails
  when a lost compare-and-swap is tried again on what was read before.

Each of these properties is violated when the definition it depends on is
replaced by a faulty variant (the operators commented "Variant" in the
modules; the pairs are the `mutants` of `PROJECT.json`).

### What does not hold

* **`ra_window`**: the cursor is advanced before the window check and not
  taken back, so a failed allocation leaves `_allocated_hot_offset` beyond
  `_reclaimed_offset`. From then on every allocation fails at the window
  check, before the span test, so no collection is requested and the window
  never moves: the allocator is out of memory for good.
* **`ra_exact_fit`**: a chunk that ends exactly at a segment boundary is not
  "spanning"; the next chunk lies in the next segment and no collection was
  requested for the segment left behind. The window is then one segment
  shorter for good, for every such crossing.
* **`ra_spurious`**: `_reclaim_cv.wait(lock)` has no predicate. With a
  spurious wake-up the daemon makes a pass in any state and sets
  `RA_GC_FINISHED`; `epoch_reclaimed` then advances `_reclaimed_offset`.
* **`ra_sockets`**: with two sockets, an epoch that closed with a cookie for
  socket A is reclaimed after socket B has requested a collection;
  `epoch_reclaimed` moves B to `RA_GC_IN_PROG`, although the transaction that
  holds a chunk of B's segment entered after the epoch closed and was never
  waited for.
* **`ra_lost_notify`**: `epoch_reclaimed` sets `RA_GC_IN_PROG` and calls
  `notify_all` while the daemon has not reached `_reclaim_cv.wait`; the daemon
  then waits for a notify that has already happened and the collection never
  finishes, however fairly the daemon is scheduled. With a notify that is
  remembered (`trigger_reclaim` always true) the property holds under the same
  configuration.
* **Slot exhaustion** (`ReaderSlotsExhausted.cfg`, `SlotAssigned`; not one of
  the twelve runs): with more threads than bits, the compare-and-swap of
  `assign_reader_bitmap_entry` succeeds on a full word and the thread's entry
  is 0. Its reads set no bit, and its writes to the readers list go to the
  index `__builtin_ctzll(0)`. The design says that exhaustion is fatal at
  thread registration; the `ASSERT` that would make it so is commented out.
* **`slots_late_reader`**: the reader marks the version and then claims its
  bit. An updater that locks the marker and reads the bitmap between the two
  finds the mark and no bit; the pass over all entries yields the last commit
  stamp of the reader's thread, which an earlier transaction left, and no
  back-edge is set. The reader sets its bit, finishes and commits after the
  updater with the successor stamp it would have had anyway. The design
  comment expects that "obviously the updater will find the reader's bitmap
  bit is set and the persistent reader marker's LSB=1"; locking the marker
  keeps out the readers that have not marked yet, not the one that has marked
  and not registered.
* **`chain_drained`**: after relocating a version the daemon keeps the
  original as `prev`. For the next version of the segment it swaps the
  `_next` of that original, which is out of the chain; the copy still points
  into the segment. The run has one daemon. With `prev` set to the copy
  the property holds under the same configuration (1,280 states), and fails
  again with two daemons, for the reason of `chain_two_daemons`.
* **`chain_two_daemons`**: a version `v1` lies in the segment of socket 1 and
  its predecessor `v2` in the segment of socket 2, and both daemons are on the
  chain. The daemon of socket 2 copies `v2` with `memcpy`; the copy has
  `_next = v1`. The daemon of socket 1 now cuts `v1` off (`v2->_next = NULL`),
  or replaces it by its copy, and ends its pass. The daemon of socket 2 then
  swaps the head from `v2` to its copy, and succeeds, as the head is still
  `v2`: the compare-and-swap covers the pointer to `v2`, not what `v2` points
  to. The chain leads to `v1` again, in a segment whose pass is over and which
  `epoch_reclaimed` hands back to `allocate`; a copy the other daemon made is
  out of the chain. With one daemon `DrainedStaysDrained` holds (104,890
  states with two writers, six objects and four commit stamps).
* **`chain_snapshot`**: the walk cuts the chain in front of the first version
  of the segment whose `clsn` is below the trim LSN, whatever the `clsn` of the
  version before it. With `v1` (`clsn` 1) in the segment, `v2` (`clsn` 2)
  outside it and a trim LSN of 2, `v1` is cut off, and it is the version a
  transaction that began at stamp 2 reads. The design argues that
  "`clsn < trim_lsn` implies no transaction can observe them"; that is true of
  the versions behind the newest one below the trim LSN, not of that one. For
  a chain head the code does keep it (the copy to the cold region). When both
  versions lie in the segment the fault of `chain_drained` hides this one: the
  cut is made on an object that is out of the chain.

## 4. Bounds

| Constant | Value | Why it is enough |
|---|---|---|
| `SegmentSize = 4`, `Sizes = {3}` (`ra_cycle`) | | the chunks at 3 and at 6 both span a boundary: two workers cross at once, a retry spans again while the collection is requested (and throws), or fits at 9 when the other worker took the chunk at 6 |
| `NumSegments = 3` (`ra_cycle`) | | the window has room for the daemon's hot copy during a pass, and the ring wraps after three segments: the chunk at 12 reuses the slot of segment 0 after a full cycle |
| `MaxOffset = 15`, `MaxCold = 3` (`ra_cycle`) | | bound on the cursors: one chunk beyond the ring, one chunk in the cold region; the model stutters at the bound (`Horizon`). The cold region holds two chunks, so the throw of `allocate_cold` needs `MaxCold = 9`, which `RegionAllocatorCold.cfg` has |
| `TrimMark = 2`, `CounterModulus = 8` | | every allocation reaches the mark; the counter wraps within the run |
| `MaxLsn = 2` | | two distinct cookies, so that an older one can follow a newer one |
| `MaxHeld = 1`, `MaxCopies = 1` | | one unlinked chunk per transaction and one copy per pass are enough for every violation above |
| `EpochDepth = 1` | | one closed epoch pending: the model's reading of the design text (section 5), since the epoch manager is not among the sources; see "Not modelled" for depth 2 |
| `MaxObjects = 4`, `MaxLsn = 3`, one writer (`chain_snapshot`) | | two versions and a trim LSN between their commit stamps |
| `Width = 2`, two threads (`slots`) | | claims retry against each other and against releases |
| `MaxReads = 2`, one version | | a transaction reads the version twice and deregisters twice |
| `MaxXid = 3`, `MaxLsn = 2` (`slots`, `slots_late_reader`) | | a reader of the old version commits with stamp 1, and a second transaction, on the same or on the other thread, overwrites the version and commits with stamp 2 while a third takes over an entry; or the updater takes stamp 1 and the reader stamp 2 |
| two sockets, one writer, `MaxObjects = 5`, `MaxLsn = 3` (`chain`) | | up to three versions spread over the segments of both sockets and the hot ring, two or three copies, both daemons on the chain at once and heads installed during the passes; every mutant and the fault of `chain_two_daemons` need four objects at most. `WalkEnds` counts a walk that the bound on objects stops as ended. Two writers with two daemons are out of reach (more than 4.9 million states, not finished after ten minutes); a second writer adds the race for the head, which the daemons take part in as well |
| one socket (`chain_drained`, `chain_snapshot`) | | the faults of a daemon that is alone on the chain |

Threads and writers are symmetric (`Permutations`); the sockets of
`RegionAllocator` are not (`register_thread` hands them out in order), those
of `ChainReclaim` are. The runs with a liveness property (`ra_lost_notify`,
`chain`) do not use symmetry.

## 5. Assumptions

* `INVALID_LSN` is the least LSN.
* `epoch_reclaimed` is not called for an epoch whose cookie is NULL (it would
  dereference it), and it runs as one step.
* The design text says `new_epoch` "succeeds only when all registered threads
  are quiescent". Read literally the call inside `allocate` could never
  succeed, as its caller is inside a transaction; the model takes it to mean
  that no closed epoch is still pending (`Len(closed) < EpochDepth`).
* `RCU::rcu_is_active()` is true exactly for a thread between `epoch_enter`
  and `epoch_exit`; the daemon is never inside.
* A worker calls `register_thread` before its first transaction.
* The `ASSERT`s are compiled out; what they say is stated as properties.
* `XIDS_PER_READER_KEY` equals the width of `rl_bitmap_t`.
* A transaction that is sure to commit stamps its last commit LSN before
  its commit is known, and the LSN it passes to
  `serial_stamp_last_committed_lsn` is its commit stamp (`Stamp`).
* `serial_deregister_tx` is called when the read set is deregistered, and
  the context of the transaction is released after it.
* A version has one updater at a time; an abort takes the new version back.
* The installer value in `clsn` compares above every LSN. In the runs of
  `ChainReclaim` the daemon never compares one: it meets no uncommitted
  version in its own segment.
* In `ChainReclaim` an epoch is reclaimed when no transaction is at work on
  a version of a segment whose draining is requested (`EpochOver`), and a
  daemon wakes on the notification of `epoch_reclaimed` only.
  `RegionAllocator` shows where the code keeps that (`ra_cycle`) and where it
  does not (`ra_sockets`, `ra_spurious`, `ra_lost_notify`); what `chain`
  shows holds under the assumption.
* The marker's lock is never released: an updater that aborts leaves the
  version locked, as the marker's state machine in the design text has it.
* A transaction may abort at any point before it is sure to commit, and is
  sure only if its pstamp is below its sstamp. The test, the stamp in the
  readers list and the commit are three steps.
* The successor stamp of a transaction in pre-commit is its commit stamp,
  unless an updater has lowered it: what a transaction learns from the
  versions in its read set is not modelled.

## 6. Fairness

The safety runs use `Spec`, which has no fairness condition. The liveness run
`ra_lost_notify` uses `FairSpec` of `RegionAllocator`: weak fairness of
`DaemonWait`, `DaemonWake` and `DaemonFinish` for every socket. The daemon is a thread of its own that does
nothing else, so the scheduler lets it reach its wait, return from it once it
has been notified, and end a pass it has begun. Nothing is assumed of the
workers, of the epoch manager or of the log: a collection that has reached
`RA_GC_IN_PROG` depends on the daemon alone (the run has `MaxCopies = 0`, a
segment with nothing to copy, so that the daemon's pass does not depend on the
bound of the cursor). Symmetry is not used in this run.

The run `chain` uses `FairSpec` of `ChainReclaim`: weak fairness of
`Pass(s)`, the steps of the walk, for the daemon of every socket, for the same
reason. Weak fairness is enough because a step of the walk, once possible,
stays possible until the daemon takes it: writers and the other daemon change
the chain, never this daemon's place in its walk. Nothing is assumed of the
writers; they are bounded by `MaxObjects` and
`MaxLsn`, as the chain of one oid is by the updates it gets during one pass.

## 7. Not modelled

* `sm-rep.h`: declarations only.
* `RA::register_table` and the loops over tables and oids: chains are
  independent, so one chain stands for all. The daemons of a run begin their
  walks over that chain in any order and at any distance.
* A second pass of a daemon over the chain (the next segment of its ring).
* The rest of SSN validation: the successor stamps a transaction takes from
  the versions in its read set, the stamps stored in a version, and the
  `should_abort` policy the design comment describes and rejects. The code is
  outside the sources.
* Two updaters that spin on each other: it needs two versions, and the
  readers' model with two versions has more than eleven million states. The
  condition of the spin (`Earlier`) orders the waits by commit stamp.
* What an updater concludes from a reader that stays in pre-commit across
  both of its reads of the reader's state. The reader may have tested its
  stamps before the updater lowered its successor stamp, and the state alone
  does not tell; the model lets the updater go on, as the design comment
  does, and states no property of this reader. The rule is in the
  transaction code, outside the sources.
* Aborts that unlink a version from a chain.
* Running readers of a chain: `SnapshotVersionKept` quantifies over every
  begin stamp from the trim LSN on instead, which is what the epoch protocol
  allows a running transaction to have.
* More than one closed epoch pending (`EpochDepth = 2`) is not part of any
  run: the epoch manager is not in the sources and the design text allows one.
  Explored on one socket, `PassAfterQuiescence` holds with segments of 3 and 4
  units and is violated with `SegmentSize = 5`, `Sizes = {1, 2}`: the epoch
  that the `TRIM_MARK` closed before a request is reclaimed after it and
  starts the pass while a worker is still inside `allocate` with a chunk of
  the segment. It is the fault of `ra_sockets` without a second socket.
* The double reset of `_allocated` is not part of any run. The daemon is in
  no epoch, so between its read of `_allocated` and its add of the negated
  value a worker can close the next epoch and reset the counter; the daemon's
  add then wraps it. In `ra_cycle` no worker completes an allocation in that
  window: the chunk after the daemon's copy spans a boundary and its caller
  throws (also with `CounterModulus = 32`, `MaxOffset = 18`). Explored with
  `SegmentSize = 5`, `Sizes = {2}`, `CounterModulus = 32`, `MaxOffset = 16`:
  the wrap is reached after 40 steps, and `TypeOK` and `PassAfterQuiescence`
  hold (5.3 million states, three minutes). The next reset brings the counter
  back to 0; the cost is one epoch closed early.
* Memory ordering weaker than sequential consistency.

## 8. Plan

Done: `EpochManager`, `RegionAllocator`, `ReaderSlots` with the updater's
pre-commit inspection and the back-edge, `ChainReclaim` with a daemon per
socket, uncommitted versions and the liveness of the walk, the abstract specification `SegmentWindow` with the refinement, and
the twelve runs above.

Open:

1. Liveness of the whole cycle, `RA_GC_REQUESTED ~> RA_NORMAL`: it fails for
   the reason `ra_lost_notify` shows, and needs fairness of the epoch manager
   and of the workers that close epochs once the notify is repaired.
2. A run of `ReaderSlots` with two versions and fewer interleavings of the
   slot assignment, to check that updaters never spin on each other and
   that two back-edges to one reader leave it the lower stamp.
3. `ChainReclaim` composed with `RegionAllocator` and `EpochManager` on two
   sockets, in place of the assumption `EpochOver`: the run `ra_sockets`
   shows one call of `epoch_reclaimed` starting a pass over a segment that a
   transaction still allocates from, and the composition would show what
   that pass does to a version whose writer has yet to stamp it.
