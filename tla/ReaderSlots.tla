----------------------------- MODULE ReaderSlots -----------------------------
(***************************************************************************)
(* The reader tracking of src/dbcore/serial.cpp: the word of claimed slots *)
(* from which every thread takes one bit, the readers bitmap of each       *)
(* version in which a reader sets its bit, and the readers list that maps  *)
(* a bit to the transaction of its thread and to the last commit stamp of  *)
(* that thread.                                                            *)
(*                                                                         *)
(* A bitmap is a natural number below 2^Width; the operators of Bitwise    *)
(* stand for the C operators.  The transaction that calls these functions  *)
(* lives outside serial.cpp and is modelled from the design: it registers, *)
(* reads versions (marking those that are old to it), enters pre-commit    *)
(* with a commit stamp, inspects the readers of the versions it overwrites,*)
(* commits or aborts, and deregisters what it has tracked.                 *)
(***************************************************************************)
EXTENDS Naturals, Sequences, FiniteSets, FiniteSetsExt, Bitwise

CONSTANTS
    Threads,    \* worker threads
    Versions,   \* the dbtuple versions transactions read and overwrite
    Width,      \* bits of rl_bitmap_t and entries of the readers list
    MaxXid,     \* bound: transactions begun
    MaxLsn,     \* bound: commit stamps handed out
    MaxReads    \* bound: tracked reads of one transaction

ASSUME Width \in Nat \ {0} /\ MaxReads \in Nat \ {0}

Word   == 2 ^ Width          \* rl_bitmap_t arithmetic is modulo Word
Slots  == 0 .. Width - 1
Bit(i) == 2 ^ i

VARIABLES
    claimed_bitmap_entries,   \* the bits some thread owns
    tls_bitmap_entry,         \* [t] the bit of thread t, or 0
    rl_bitmap,                \* [v] dbtuple::rl_bitmap of version v
    marker,                   \* [v] dbtuple::persistent_reader: lock, mark
    xids,                     \* [i] rlist.xids
    last_read_mostly_clsns,   \* [i] rlist.last_read_mostly_clsns
    writer,                   \* [v] the XID that has overwritten v, or 0
    ctx,                      \* [t] the xid_context of t's transaction
    pc,                       \* [t] where thread t stands
    local,                    \* [t] the bitmap, version and XID t works on
    xid,                      \* [t] the XID of t's transaction, or 0
    reads,                    \* [t] the read set: versions t must deregister from
    snapshot,                 \* [t] the versions that are old to t's transaction
    aged,                     \* versions older than the threshold by now
    next_xid,                 \* the next XID
    cur_lsn,                  \* the next commit stamp
    untracked,                \* [v] history: bits left by reads of v as an old version
    oldstamps,                \* [v] history: those that read v as old and committed
    successor,                \* [v] history: the stamps of the updater that committed
    smashed                   \* history: a write went past the readers list

slotVars == <<claimed_bitmap_entries, tls_bitmap_entry>>
listVars == <<xids, last_read_mostly_clsns, smashed>>
txVars   == <<xid, reads, snapshot, next_xid>>
ssnVars  == <<marker, writer, ctx, oldstamps, successor>>
vars == <<slotVars, rl_bitmap, listVars, pc, local, txVars, ssnVars, aged,
          cur_lsn, untracked>>

NoLocal   == [bitmap |-> 0, version |-> CHOOSE v \in Versions : TRUE, xid |-> 0,
              seen |-> "ACTIVE"]
\* A context: the commit stamp (0 before pre-commit), the predecessor stamp,
\* the successor stamp (0: none), the versions read as old ones, and the
\* overwritten versions inspected.
NoContext == [state |-> "ACTIVE", cstamp |-> 0, pstamp |-> 0, sstamp |-> 0,
              old |-> {}, done |-> {}]
NoStamps  == [cstamp |-> 0, sstamp |-> 0]

Has(bitmap, b) == (bitmap & b) # 0

\* __builtin_ctzll of a word that is not 0.
ctz(b) == CHOOSE i \in Slots : (b \div Bit(i)) % 2 = 1 /\ b % Bit(i) = 0

\* Variant: the position is counted from 1, as __builtin_ffsll counts.
IndexFfs(t) == IF tls_bitmap_entry[t] = 0 THEN 1 .. Width + 1
                                          ELSE {ctz(tls_bitmap_entry[t]) + 1}

\* The index __builtin_ctzll(tls_bitmap_entry) may yield: it is undefined for
\* 0, where Width stands for every index past the list.
Index(t) == IF tls_bitmap_entry[t] = 0 THEN 0 .. Width ELSE {ctz(tls_bitmap_entry[t])}

\* Variant: the write to the readers list is left out.
Unstored(array, i, val) == array

\* A volatile_write to entry i of an array of the readers list.
Stored(array, i, val) == IF i \in Slots THEN [array EXCEPT ![i] = val] ELSE array

-----------------------------------------------------------------------------
(* What a writer reads.                                                    *)

serial_get_tuple_readers(v, t, exclude_self) ==
    IF exclude_self
    THEN rl_bitmap[v] - (rl_bitmap[v] & tls_bitmap_entry[t])
    ELSE rl_bitmap[v]

\* Variant: the entry is read from the other array of the readers list.
CstampFromXids(i) == xids[i]

serial_get_last_read_mostly_cstamp(i) == last_read_mostly_clsns[i]

-----------------------------------------------------------------------------
(* assign_reader_bitmap_entry and deassign_reader_bitmap_entry.            *)

\* A starting thread has no entry and reads the claimed word.
AssignRead(t) ==
    /\ pc[t] = "off"
    /\ tls_bitmap_entry[t] = 0
    /\ local' = [local EXCEPT ![t].bitmap = claimed_bitmap_entries]
    /\ pc' = [pc EXCEPT ![t] = "cas"]
    /\ UNCHANGED <<slotVars, rl_bitmap, listVars, txVars, ssnVars, aged, cur_lsn, untracked>>

\* old_bitmap | (old_bitmap + 1): the word with its lowest clear bit set.
Claim(old) == old | ((old + 1) % Word)

\* Variant: the new word is stored without comparing.
CasBlind(t) == TRUE

\* __sync_val_compare_and_swap found the word it was given.
CasWon(t) == claimed_bitmap_entries = local[t].bitmap

\* retry: the compare-and-swap, and the entry it leaves the thread with.
AssignCas(t) ==
    LET old == local[t].bitmap IN
    /\ pc[t] = "cas"
    /\ IF CasWon(t)
       THEN /\ claimed_bitmap_entries' = Claim(old)
            /\ tls_bitmap_entry' = [tls_bitmap_entry EXCEPT ![t] = Claim(old) ^^ old]
            /\ local' = [local EXCEPT ![t] = NoLocal]
            /\ pc' = [pc EXCEPT ![t] = "idle"]
       ELSE /\ local' = [local EXCEPT ![t].bitmap = claimed_bitmap_entries]
            /\ UNCHANGED <<slotVars, pc>>
    /\ UNCHANGED <<rl_bitmap, listVars, txVars, ssnVars, aged, cur_lsn, untracked>>

\* A thread that runs no transaction ends and gives its bit back.
deassign_reader_bitmap_entry(t) ==
    /\ pc[t] = "idle"
    /\ claimed_bitmap_entries' = claimed_bitmap_entries ^^ tls_bitmap_entry[t]
    /\ tls_bitmap_entry' = [tls_bitmap_entry EXCEPT ![t] = 0]
    /\ pc' = [pc EXCEPT ![t] = "off"]
    /\ UNCHANGED <<rl_bitmap, listVars, local, txVars, ssnVars, aged, cur_lsn, untracked>>

-----------------------------------------------------------------------------
(* A transaction's entry in the readers list, from begin to end.           *)

\* Transaction start: its XID goes to the entry of the thread's bit.
serial_register_tx(t) ==
    /\ pc[t] = "idle"
    /\ next_xid <= MaxXid
    /\ \E i \in Index(t) :
        /\ xids' = Stored(xids, i, next_xid)
        /\ smashed' = (smashed \/ i \notin Slots)
    /\ xid' = [xid EXCEPT ![t] = next_xid]
    /\ next_xid' = next_xid + 1
    /\ snapshot' = [snapshot EXCEPT ![t] = aged]
    /\ pc' = [pc EXCEPT ![t] = "tx"]
    /\ UNCHANGED <<slotVars, rl_bitmap, last_read_mostly_clsns, local, reads,
                   ssnVars, aged, cur_lsn, untracked>>

\* A successor stamp lowered to s: it only ever goes down.
Lowered(sstamp, s) == IF sstamp = 0 THEN s ELSE Min({sstamp, s})

\* Pre-commit: the transaction takes its commit stamp from the log, and its
\* successor stamp is no later: it is stable before any reader is given it.
PreCommit(t) ==
    /\ pc[t] = "tx"
    /\ cur_lsn <= MaxLsn
    /\ ctx' = [ctx EXCEPT ![t].state = "COMMITTING", ![t].cstamp = cur_lsn,
                          ![t].sstamp = Lowered(@, cur_lsn)]
    /\ cur_lsn' = cur_lsn + 1
    /\ pc' = [pc EXCEPT ![t] = "pre"]
    /\ UNCHANGED <<slotVars, rl_bitmap, listVars, local, txVars, marker, writer,
                   oldstamps, successor, aged, untracked>>

\* The LSN a committing transaction stamps: its commit stamp.
Stamp(t) == ctx[t].cstamp

\* The versions t's transaction has overwritten.
Written(t) == {v \in Versions : writer[v] = xid[t]}

\* The exclusion test: no predecessor of t commits after a successor of t.
Validated(t) == ctx[t].pstamp < ctx[t].sstamp

\* Validation: every overwritten version is inspected and the exclusion test
\* holds, so the transaction is sure to commit.
Validation(t) ==
    /\ pc[t] = "pre"
    /\ Written(t) \subseteq ctx[t].done
    /\ Validated(t)
    /\ pc' = [pc EXCEPT ![t] = "sure"]
    /\ UNCHANGED <<slotVars, rl_bitmap, listVars, local, txVars, ssnVars, aged, cur_lsn,
                   untracked>>

\* The commit stamp becomes the last one of the thread's entry.
serial_stamp_last_committed_lsn(t) ==
    /\ pc[t] = "sure"
    /\ \E i \in Index(t) :
        /\ last_read_mostly_clsns' = Stored(last_read_mostly_clsns, i, Stamp(t))
        /\ smashed' = (smashed \/ i \notin Slots)
    /\ pc' = [pc EXCEPT ![t] = "stamped"]
    /\ UNCHANGED <<slotVars, rl_bitmap, xids, local, txVars, ssnVars, aged, cur_lsn,
                   untracked>>

\* The commit is made known, after the stamp.
Commit(t) ==
    /\ pc[t] = "stamped"
    /\ ctx' = [ctx EXCEPT ![t].state = "COMMITTED"]
    /\ oldstamps' = [v \in Versions |-> oldstamps[v] \cup
                        IF v \in ctx[t].old
                        THEN {[cstamp |-> ctx[t].cstamp, sstamp |-> ctx[t].sstamp]}
                        ELSE {}]
    /\ successor' = [v \in Versions |->
                        IF v \in Written(t)
                        THEN [cstamp |-> ctx[t].cstamp, sstamp |-> ctx[t].sstamp]
                        ELSE successor[v]]
    /\ pc' = [pc EXCEPT ![t] = "post"]
    /\ UNCHANGED <<slotVars, rl_bitmap, listVars, local, txVars, marker, writer, aged,
                   cur_lsn, untracked>>

\* An abort makes the outcome known and takes the new versions back.
Aborted(t) ==
    /\ ctx' = [ctx EXCEPT ![t].state = "ABORTED"]
    /\ writer' = [v \in Versions |-> IF v \in Written(t) THEN 0 ELSE writer[v]]
    /\ pc' = [pc EXCEPT ![t] = "post"]

\* The transaction aborts, before it is sure to commit: nothing is stamped.
Abort(t) ==
    /\ pc[t] \in {"tx", "pre"}
    /\ Aborted(t)
    /\ UNCHANGED <<slotVars, rl_bitmap, listVars, local, txVars, marker, oldstamps,
                   successor, aged, cur_lsn, untracked>>

\* xids[xid_idx] = 0: the entry of the transaction is cleared.
serial_deregister_tx(t) ==
    \E i \in Index(t) :
        /\ xids' = Stored(xids, i, 0)
        /\ smashed' = (smashed \/ i \notin Slots)

\* Transaction end: the transaction clears its entry when it has
\* deregistered its read set.
TxEnd(t) ==
    /\ pc[t] = "post"
    /\ reads[t] = <<>>
    /\ serial_deregister_tx(t)
    /\ pc' = [pc EXCEPT ![t] = "end"]
    /\ UNCHANGED <<slotVars, rl_bitmap, last_read_mostly_clsns, local, txVars, ssnVars,
                   aged, cur_lsn, untracked>>

\* The transaction is gone, and its context with it.
Leave(t) ==
    /\ pc[t] = "end"
    /\ xid' = [xid EXCEPT ![t] = 0]
    /\ ctx' = [ctx EXCEPT ![t] = NoContext]
    /\ pc' = [pc EXCEPT ![t] = "idle"]
    /\ UNCHANGED <<slotVars, rl_bitmap, listVars, local, reads, snapshot, next_xid,
                   marker, writer, oldstamps, successor, aged, cur_lsn, untracked>>

-----------------------------------------------------------------------------
(* Reads: the marker of an old version, serial_register_reader_tx and      *)
(* serial_deregister_reader_tx.                                            *)

\* A read of a version that is old to the transaction starts with the
\* compare-and-swap of the marker; it fails once a writer has locked the
\* marker, and the reader aborts.
MarkOld(t, v) ==
    /\ pc[t] = "tx"
    /\ v \in snapshot[t]
    /\ IF marker[v].lock
       THEN /\ Aborted(t)
            /\ UNCHANGED <<marker, local>>
       ELSE /\ marker' = [marker EXCEPT ![v].mark = TRUE]
            /\ local' = [local EXCEPT ![t].version = v]
            /\ pc' = [pc EXCEPT ![t] = "old"]
            /\ UNCHANGED <<ctx, writer>>
    /\ UNCHANGED <<slotVars, rl_bitmap, listVars, txVars, oldstamps, successor, aged,
                   cur_lsn, untracked>>

\* The volatile_read of the version's bitmap.
RegisterRead(t, v) ==
    /\ \/ pc[t] = "tx" /\ v \notin snapshot[t] /\ Len(reads[t]) < MaxReads
       \/ pc[t] = "old" /\ v = local[t].version
    /\ local' = [local EXCEPT ![t] = [NoLocal EXCEPT !.bitmap = rl_bitmap[v], !.version = v]]
    /\ pc' = [pc EXCEPT ![t] = "reg"]
    /\ UNCHANGED <<slotVars, rl_bitmap, listVars, txVars, ssnVars, aged, cur_lsn, untracked>>

\* The read is tracked in the read set unless the version is old to the
\* transaction, which then leaves its bit behind.
Tracked(t, v) ==
    IF v \in snapshot[t]
    THEN /\ untracked' = [untracked EXCEPT ![v] = @ \cup {tls_bitmap_entry[t]}]
         /\ ctx' = [ctx EXCEPT ![t].old = @ \cup {v}]
         /\ UNCHANGED reads
    ELSE /\ reads' = [reads EXCEPT ![t] = Append(@, v)]
         /\ UNCHANGED <<untracked, ctx>>

\* Variant: any bit seen set is taken for the thread's own.
SeenNonEmpty(t) == local[t].bitmap # 0

\* not (old_bitmap & tls_bitmap_entry)
BitSeen(t) == Has(local[t].bitmap, tls_bitmap_entry[t])

\* The fetch-and-or, unless the bit was seen set.
RegisterOr(t) ==
    LET v == local[t].version IN
    /\ pc[t] = "reg"
    /\ rl_bitmap' = IF BitSeen(t) THEN rl_bitmap
                    ELSE [rl_bitmap EXCEPT ![v] = @ | tls_bitmap_entry[t]]
    /\ Tracked(t, v)
    /\ local' = [local EXCEPT ![t] = NoLocal]
    /\ pc' = [pc EXCEPT ![t] = "tx"]
    /\ UNCHANGED <<slotVars, listVars, xid, snapshot, next_xid, marker, writer, oldstamps,
                   successor, aged, cur_lsn>>

\* Post-commit: the volatile_read for the next version of the read set.
DeregisterRead(t) ==
    /\ pc[t] = "post"
    /\ reads[t] # <<>>
    /\ local' = [local EXCEPT ![t] = [NoLocal EXCEPT !.bitmap = rl_bitmap[Head(reads[t])],
                                                     !.version = Head(reads[t])]]
    /\ pc' = [pc EXCEPT ![t] = "dereg"]
    /\ UNCHANGED <<slotVars, rl_bitmap, listVars, txVars, ssnVars, aged, cur_lsn, untracked>>

\* Variant: the bit is flipped whether it was seen set or not.
BitAssumed(t) == TRUE

\* volatile_read(t->rl_bitmap) & tls_bitmap_entry
BitStillSet(t) == Has(local[t].bitmap, tls_bitmap_entry[t])

\* The fetch-and-xor, if the bit was seen set.
DeregisterXor(t) ==
    LET v == local[t].version IN
    /\ pc[t] = "dereg"
    /\ rl_bitmap' = IF BitStillSet(t)
                    THEN [rl_bitmap EXCEPT ![v] = @ ^^ tls_bitmap_entry[t]]
                    ELSE rl_bitmap
    /\ reads' = [reads EXCEPT ![t] = Tail(@)]
    /\ local' = [local EXCEPT ![t] = NoLocal]
    /\ pc' = [pc EXCEPT ![t] = "post"]
    /\ UNCHANGED <<slotVars, listVars, xid, snapshot, next_xid, ssnVars, aged, cur_lsn,
                   untracked>>

-----------------------------------------------------------------------------
(* The updater: it overwrites a version, and in pre-commit inspects the    *)
(* readers of every version it has overwritten.                            *)

\* An update installs the new version of v; one updater at a time.
Update(t, v) ==
    /\ pc[t] = "tx"
    /\ writer[v] = 0
    /\ writer' = [writer EXCEPT ![v] = xid[t]]
    /\ UNCHANGED <<slotVars, rl_bitmap, listVars, pc, local, txVars, marker, ctx,
                   oldstamps, successor, aged, cur_lsn, untracked>>

\* The updater locks out the readers to come that take v for an old version.
LockMarker(t, v) ==
    /\ pc[t] = "pre"
    /\ v \in Written(t) \ ctx[t].done
    /\ marker' = [marker EXCEPT ![v].lock = TRUE]
    /\ local' = [local EXCEPT ![t].version = v]
    /\ pc' = [pc EXCEPT ![t] = "snap"]
    /\ UNCHANGED <<slotVars, rl_bitmap, listVars, txVars, writer, ctx, oldstamps,
                   successor, aged, cur_lsn, untracked>>

\* It reads the bitmap of v, without its own bit.
Snapshot(t) ==
    /\ pc[t] = "snap"
    /\ local' = [local EXCEPT ![t].bitmap = serial_get_tuple_readers(local[t].version, t, TRUE)]
    /\ pc' = [pc EXCEPT ![t] = "bit"]
    /\ UNCHANGED <<slotVars, rl_bitmap, listVars, txVars, ssnVars, aged, cur_lsn, untracked>>

\* For the lowest bit left, it reads the XID of the bit's entry.
ResolveXid(t) ==
    /\ pc[t] = "bit"
    /\ local[t].bitmap # 0
    /\ local' = [local EXCEPT ![t].xid = xids[ctz(local[t].bitmap)]]
    /\ pc' = [pc EXCEPT ![t] = "ctx"]
    /\ UNCHANGED <<slotVars, rl_bitmap, listVars, txVars, ssnVars, aged, cur_lsn, untracked>>

\* The threads on which transaction x has a context: none once it has left.
Context(x) == {u \in Threads : x # 0 /\ xid[u] = x}

\* The reader r is in pre-commit and commits before the updater w.
Earlier(r, w) == 0 < ctx[r].cstamp /\ ctx[r].cstamp < ctx[w].cstamp

\* The updater w spins on the outcome of the reader r.
SpinsOn(w, r) ==
    /\ pc[w] = "ctx"
    /\ r \in Context(local[w].xid)
    /\ Earlier(r, w)
    /\ ctx[r].state = "COMMITTING"

\* The reader r runs and will try to commit after the updater w.
Later(r, w) == ~Earlier(r, w) /\ ctx[r].state \in {"ACTIVE", "COMMITTING"}

\* The stamps the updater t takes from the bit's entry i: the commit stamp of
\* a reader that committed before it, and the last commit stamp of the entry
\* for a reader that aborted, has finished or is gone.
Predecessors(t, i) ==
    LET present == Context(local[t].xid) IN
    IF present = {} THEN {serial_get_last_read_mostly_cstamp(i)}
    ELSE {IF Earlier(r, t) /\ ctx[r].state = "COMMITTED"
          THEN ctx[r].cstamp
          ELSE serial_get_last_read_mostly_cstamp(i) : r \in present}

\* The bit is done: the inspection goes on with the next one.
NextBit(t) ==
    /\ local' = [local EXCEPT ![t] = [NoLocal EXCEPT
                    !.bitmap = local[t].bitmap ^^ Bit(ctz(local[t].bitmap)),
                    !.version = local[t].version]]
    /\ pc' = [pc EXCEPT ![t] = "bit"]

\* The updater gives up: it aborts, whatever it was inspecting.
GiveUp(t) == Aborted(t) /\ local' = [local EXCEPT ![t] = NoLocal]

\* It fetches the context of the XID, once the outcome of a reader it has to
\* wait for is known.  For a running reader that will commit after it the
\* updater reads the reader's state, to set the reader's successor stamp
\* next; any other reader is accounted for in the predecessor stamp.
ResolveContext(t) ==
    LET present == Context(local[t].xid) IN
    /\ pc[t] = "ctx"
    /\ \A r \in Threads : ~SpinsOn(t, r)
    /\ \/ \E r \in present :
            /\ Later(r, t)
            /\ local' = [local EXCEPT ![t].seen = ctx[r].state]
            /\ pc' = [pc EXCEPT ![t] = "edge"]
            /\ UNCHANGED ctx
       \/ /\ \A r \in present : ~Later(r, t)
          /\ ctx' = [ctx EXCEPT ![t].pstamp =
                        Max({@} \cup Predecessors(t, ctz(local[t].bitmap)))]
          /\ NextBit(t)
    /\ UNCHANGED <<slotVars, rl_bitmap, listVars, txVars, marker, writer, oldstamps,
                   successor, aged, cur_lsn, untracked>>

\* The back-edge: a compare-and-swap lowers the successor stamp of the
\* reader, if its context is still there, to the updater's.
BackEdge(t) ==
    /\ pc[t] = "edge"
    /\ ctx' = [r \in Threads |->
                 IF r \in Context(local[t].xid)
                 THEN [ctx[r] EXCEPT !.sstamp = Lowered(@, ctx[t].sstamp)]
                 ELSE ctx[r]]
    /\ pc' = [pc EXCEPT ![t] = "check"]
    /\ UNCHANGED <<slotVars, rl_bitmap, listVars, local, txVars, marker, writer,
                   oldstamps, successor, aged, cur_lsn, untracked>>

\* The reader is in the state it was in before the stamp was set: it has not
\* looked at its successor stamp for the last time yet.
StateUnchanged(t) == \E r \in Context(local[t].xid) : ctx[r].state = local[t].seen

\* The updater reads the reader's state again; if it has changed the updater
\* has missed its opportunity, and it aborts rather than spin.
Validate(t) ==
    /\ pc[t] = "check"
    /\ IF StateUnchanged(t) THEN NextBit(t) /\ UNCHANGED <<ctx, writer>>
                            ELSE GiveUp(t)
    /\ UNCHANGED <<slotVars, rl_bitmap, listVars, txVars, marker, oldstamps, successor,
                   aged, cur_lsn, untracked>>


\* The entries gone over once the bits are done: all, when v is marked.
SweptSlots(v) == IF marker[v].mark THEN Slots ELSE {}

\* The bits are done: a marked version has readers that no bit may show, and
\* the last commit stamp of every entry is taken; v is inspected.
Sweep(t) ==
    LET v == local[t].version IN
    /\ pc[t] = "bit"
    /\ local[t].bitmap = 0
    /\ ctx' = [ctx EXCEPT
                 ![t].pstamp = Max({@} \cup {serial_get_last_read_mostly_cstamp(i) :
                                                i \in SweptSlots(v)}),
                 ![t].done = @ \cup {v}]
    /\ local' = [local EXCEPT ![t] = NoLocal]
    /\ pc' = [pc EXCEPT ![t] = "pre"]
    /\ UNCHANGED <<slotVars, rl_bitmap, listVars, txVars, marker, writer, oldstamps,
                   successor, aged, cur_lsn, untracked>>

-----------------------------------------------------------------------------
\* Time passes: a version becomes old to the transactions that begin later.
Age(v) ==
    /\ v \notin aged
    /\ aged' = aged \cup {v}
    /\ UNCHANGED <<slotVars, rl_bitmap, listVars, pc, local, txVars, ssnVars, cur_lsn,
                   untracked>>

Init ==
    /\ claimed_bitmap_entries = 0
    /\ tls_bitmap_entry = [t \in Threads |-> 0]
    /\ rl_bitmap = [v \in Versions |-> 0]
    /\ marker = [v \in Versions |-> [lock |-> FALSE, mark |-> FALSE]]
    /\ writer = [v \in Versions |-> 0]
    /\ xids = [i \in Slots |-> 0]
    /\ last_read_mostly_clsns = [i \in Slots |-> 0]
    /\ ctx = [t \in Threads |-> NoContext]
    /\ pc = [t \in Threads |-> "off"]
    /\ local = [t \in Threads |-> NoLocal]
    /\ xid = [t \in Threads |-> 0]
    /\ reads = [t \in Threads |-> <<>>]
    /\ snapshot = [t \in Threads |-> {}]
    /\ aged = {}
    /\ next_xid = 1
    /\ cur_lsn = 1
    /\ untracked = [v \in Versions |-> {}]
    /\ oldstamps = [v \in Versions |-> {}]
    /\ successor = [v \in Versions |-> NoStamps]
    /\ smashed = FALSE

\* The model's horizon: every thread waits for an XID past the bound.
Horizon ==
    /\ next_xid > MaxXid
    /\ \A t \in Threads : pc[t] = "idle"
    /\ UNCHANGED vars

Next ==
    \/ \E t \in Threads : AssignRead(t)
    \/ \E t \in Threads : AssignCas(t)
    \/ \E t \in Threads : deassign_reader_bitmap_entry(t)
    \/ \E t \in Threads : serial_register_tx(t)
    \/ \E t \in Threads : PreCommit(t)
    \/ \E t \in Threads : Validation(t)
    \/ \E t \in Threads : serial_stamp_last_committed_lsn(t)
    \/ \E t \in Threads : Commit(t)
    \/ \E t \in Threads : Abort(t)
    \/ \E t \in Threads : TxEnd(t)
    \/ \E t \in Threads : Leave(t)
    \/ \E t \in Threads, v \in Versions : MarkOld(t, v)
    \/ \E t \in Threads, v \in Versions : RegisterRead(t, v)
    \/ \E t \in Threads : RegisterOr(t)
    \/ \E t \in Threads : DeregisterRead(t)
    \/ \E t \in Threads : DeregisterXor(t)
    \/ \E t \in Threads, v \in Versions : Update(t, v)
    \/ \E t \in Threads, v \in Versions : LockMarker(t, v)
    \/ \E t \in Threads : Snapshot(t)
    \/ \E t \in Threads : ResolveXid(t)
    \/ \E t \in Threads : ResolveContext(t)
    \/ \E t \in Threads : BackEdge(t)
    \/ \E t \in Threads : Validate(t)
    \/ \E t \in Threads : Sweep(t)
    \/ \E v \in Versions : Age(v)
    \/ Horizon

Spec == Init /\ [][Next]_vars

-----------------------------------------------------------------------------
TypeOK ==
    /\ claimed_bitmap_entries \in 0 .. Word - 1
    /\ tls_bitmap_entry \in [Threads -> 0 .. Word - 1]
    /\ rl_bitmap \in [Versions -> 0 .. Word - 1]
    /\ marker \in [Versions -> [lock : BOOLEAN, mark : BOOLEAN]]
    /\ writer \in [Versions -> 0 .. next_xid - 1]
    /\ xids \in [Slots -> 0 .. next_xid - 1]
    /\ last_read_mostly_clsns \in [Slots -> 0 .. cur_lsn - 1]
    /\ ctx \in [Threads -> [state : {"ACTIVE", "COMMITTING", "COMMITTED", "ABORTED"},
                            cstamp : 0 .. cur_lsn - 1, pstamp : 0 .. cur_lsn - 1,
                            sstamp : 0 .. cur_lsn - 1, old : SUBSET Versions,
                            done : SUBSET Versions]]
    /\ pc \in [Threads -> {"off", "cas", "idle", "tx", "old", "reg", "pre", "snap",
                           "bit", "ctx", "edge", "check", "sure", "stamped", "post",
                           "dereg", "end"}]
    /\ local \in [Threads -> [bitmap : 0 .. Word - 1, version : Versions, xid : 0 .. MaxXid,
                              seen : {"ACTIVE", "COMMITTING"}]]
    /\ xid \in [Threads -> 0 .. MaxXid]
    /\ reads \in [Threads -> Seq(Versions)]
    /\ \A t \in Threads : Len(reads[t]) <= MaxReads
    /\ snapshot \in [Threads -> SUBSET Versions]
    /\ aged \subseteq Versions
    /\ next_xid \in 1 .. MaxXid + 1
    /\ cur_lsn \in 1 .. MaxLsn + 1
    /\ untracked \in [Versions -> SUBSET (0 .. Word - 1)]
    /\ oldstamps \in [Versions -> SUBSET [cstamp : 1 .. MaxLsn, sstamp : 1 .. MaxLsn]]
    /\ successor \in [Versions -> [cstamp : 0 .. MaxLsn, sstamp : 0 .. MaxLsn]]
    /\ smashed \in BOOLEAN
-----------------------------------------------------------------------------
(* Safety.                                                                 *)

\* The threads that hold an entry.
Owners(b) == {t \in Threads : tls_bitmap_entry[t] = b}

\* The race of assign_reader_bitmap_entry against itself and against
\* deassign_reader_bitmap_entry leaves every bit of the claimed word with
\* exactly one thread, and no thread with a bit outside it.
SlotsExclusive ==
    /\ \A i \in Slots :
         Cardinality(Owners(Bit(i))) = IF Has(claimed_bitmap_entries, Bit(i)) THEN 1 ELSE 0
    /\ \A t \in Threads : tls_bitmap_entry[t] \in {0} \cup {Bit(i) : i \in Slots}

\* Where a transaction stands before its outcome is known.
Running == {"tx", "old", "reg", "pre", "snap", "bit", "ctx", "edge", "check", "sure",
            "stamped"}

\* The bits a writer must find in the bitmap of v: those of the running
\* transactions that track a read of v, and those that reads of v as an old
\* version have left.
Readers(v) ==
    {tls_bitmap_entry[t] : t \in {u \in Threads : /\ pc[u] \in Running
                                                  /\ \E n \in DOMAIN reads[u] : reads[u][n] = v}}
        \cup untracked[v]

\* serial_get_tuple_readers shows a writer every reader of the version: a
\* bit set by serial_register_reader_tx stays until its own transaction takes
\* it back in post-commit, whoever else registers and deregisters meanwhile
\* and whoever owns the bit later.
ReadersVisible ==
    \A v \in Versions : \A b \in Readers(v) : \A w \in Threads :
        /\ Has(serial_get_tuple_readers(v, w, FALSE), b)
        /\ b # tls_bitmap_entry[w] => Has(serial_get_tuple_readers(v, w, TRUE), b)

\* A bit in a version's bitmap stands for a reader: for a transaction that
\* has the version in its read set or is registering on it, or for a read of
\* an old version.  serial_deregister_reader_tx, called once for every read
\* of the version, leaves no bit of its own behind.
NoStrayBits ==
    \A v \in Versions : \A i \in Slots :
        Has(rl_bitmap[v], Bit(i)) =>
            \/ Bit(i) \in untracked[v]
            \/ \E t \in Owners(Bit(i)) : \E n \in DOMAIN reads[t] : reads[t][n] = v

\* The entry of a bit in rlist.xids holds the XID of the transaction that
\* runs on the thread owning the bit, and 0 when none does (the ASSERT of
\* serial_register_tx): a writer that resolves a bit finds its reader, from
\* serial_register_tx until serial_deregister_tx.
XidOfOwner ==
    /\ \A i \in Slots : xids[i] # 0 => \E t \in Owners(Bit(i)) : xid[t] = xids[i]
    /\ \A t \in Threads : xid[t] # 0 /\ tls_bitmap_entry[t] # 0 /\ pc[t] # "end"
                              => xids[ctz(tls_bitmap_entry[t])] = xid[t]

\* The reads of an old version are accounted for by the updater: when it has
\* inspected v, its predecessor stamp is no lower than the commit stamp of
\* any transaction that read v as an old version and committed before it,
\* although such a reader tracks nothing, may have left, and may have left
\* its bit and its entry of the readers list to a later transaction.
OldReadersAccounted ==
    \A t \in Threads : \A v \in ctx[t].done : \A r \in oldstamps[v] :
        r.cstamp < ctx[t].cstamp => r.cstamp <= ctx[t].pstamp

\* The readers of v as an old version that committed after the updater of v
\* that has committed.
LaterReaders(v) == {r \in oldstamps[v] : 0 < successor[v].cstamp
                                         /\ successor[v].cstamp < r.cstamp}

-----------------------------------------------------------------------------
(* What the design says and the code does not keep.                        *)

\* "Obviously the updater will find the reader's bitmap bit is set and the
\* persistent reader marker's LSB=1": locking the marker is to make what the
\* updater sees of the old-version readers definitive, so that every one of
\* them that commits after it knows of it by its successor stamp.  The
\* reader marks the version and then claims its bit; an updater that locks
\* and reads the bitmap between the two finds the mark and no bit.
OldReaderWarned ==
    \A v \in Versions : \A r \in LaterReaders(v) : r.sstamp <= successor[v].sstamp

\* "No free reader-bitmap slot is fatal at thread registration", and the
\* ASSERTs of deassign_reader_bitmap_entry and serial_deregister_reader_tx:
\* a thread that has left assign_reader_bitmap_entry owns a bit.
SlotAssigned ==
    \A t \in Threads : pc[t] \notin {"off", "cas"} => tls_bitmap_entry[t] # 0
=============================================================================
