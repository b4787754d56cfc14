--------------------------- MODULE RegionAllocator ---------------------------
(***************************************************************************)
(* The per-socket region allocator of src/dbcore/sm-alloc.cpp: the hot     *)
(* ring of NumSegments segments with its bump cursor, the cold region, the *)
(* GC state of each allocator, the callbacks it registers with the epoch   *)
(* manager, and the reclaim daemon of each socket.  The daemon's walk over *)
(* the version chains is abstracted here to the allocations it makes;      *)
(* module ChainReclaim models the walk itself.                             *)
(*                                                                         *)
(* Offsets are counted in allocation units, never masked: the ring         *)
(* position of offset o is o % HotCapacity (the code's o & _hot_mask) and  *)
(* its segment is o \div SegmentSize (the code's o >> _segment_bits).      *)
(***************************************************************************)
EXTENDS EpochManager, FiniteSets

CONSTANTS
    NumSockets,       \* ra_nsock
    SegmentSize,      \* 1 << _segment_bits, in allocation units
    NumSegments,      \* NUM_SEGMENTS, segments of the hot ring
    Sizes,            \* the sizes callers ask for
    TrimMark,         \* RA::TRIM_MARK
    CounterModulus,   \* _allocated wraps at this value (2^64 in the code)
    MaxLsn,           \* bound: the log's cur_lsn stops here
    MaxOffset,        \* bound: the hot cursor is not bumped beyond this offset
    MaxCold,          \* bound: the cold cursor is not bumped beyond this offset
    MaxHeld,          \* bound: chunks a transaction allocates
    MaxCopies,        \* bound: versions the daemon copies in one pass
    SpuriousWakeups   \* may _reclaim_cv.wait return without a notify?

ASSUME /\ NumSockets \in Nat \ {0}
       /\ SegmentSize \in Nat \ {0}
       /\ NumSegments \in Nat \ {0}
       /\ Sizes \subseteq 1 .. SegmentSize
       /\ TrimMark < CounterModulus
       /\ SpuriousWakeups \in BOOLEAN

Sockets      == 0 .. NumSockets - 1
Callers      == Threads \cup Sockets      \* socket s stands for its daemon
HotCapacity  == NumSegments * SegmentSize \* _hot_capacity
ColdCapacity == 2 * SegmentSize           \* _cold_capacity

RA_NORMAL       == 0
RA_GC_REQUESTED == 1
RA_GC_IN_PROG   == 2
RA_GC_FINISHED  == 3

INVALID_LSN == 0       \* the least LSN: no commit stamp is below it
NoCookie    == MaxLsn + 1   \* epoch_ended returned NULL
NoRa        == NumSockets   \* tls_ra = 0
NoSeg       == MaxOffset    \* no segment index reaches it

VARIABLES
    hot,             \* [s] _allocated_hot_offset
    cold,            \* [s] _allocated_cold_offset
    reclaimed,       \* [s] _reclaimed_offset
    allocated,       \* [s] _allocated
    state,           \* [s] _state
    trim_lsn,        \* RA::trim_lsn
    system_loading,  \* RA::system_loading
    ra_nthreads,     \* RA::ra_nthreads
    tls_ra,          \* [t] the socket of RA::tls_ra, or NoRa
    initialized,     \* [t] epoch_tls.initialized
    cur_lsn,         \* what transaction_base::logger->cur_lsn() returns
    pc,              \* [c] where caller c stands
    frame,           \* [c] the locals of c's call: ra, size, noffset, seen
    held,            \* [t] chunks returned to t's running transaction
    signalled,       \* [s] a notify reached the daemon waiting on _reclaim_cv
    pass,            \* [s] the daemon's pass: tlsn, copies made, segment, cursor past it
    drained          \* [s] history: segments drained after the cursor left them

raVars     == <<hot, cold, reclaimed, allocated, state>>
globalVars == <<trim_lsn, system_loading, ra_nthreads, tls_ra, initialized, cur_lsn>>
epochVars  == <<active, closed>>
callVars   == <<pc, frame, held>>
daemonVars == <<signalled, pass>>
history    == <<drained>>
vars == <<raVars, globalVars, epochVars, callVars, daemonVars, history>>

Chunk == [ra : Sockets, cold : BOOLEAN, off : 0 .. MaxOffset + MaxCold, size : Sizes]

Segment(o) == o \div SegmentSize

\* The ring positions (cold: the offsets) a chunk occupies.
Bytes(h) ==
    { <<h.ra, h.cold, IF h.cold THEN o ELSE o % HotCapacity>> :
        o \in h.off .. h.off + h.size - 1 }

-----------------------------------------------------------------------------
(* Control transfer out of allocate and allocate_cold.                     *)

\* An exception left the daemon thread: std::terminate.
Aborted == \E s \in Sockets : pc[s] = "dead"

\* A worker goes on with its transaction; the daemon goes on with its walk.
Resume(c) == IF c \in Threads THEN "in" ELSE "pass"

NoFrame == [ra |-> 0, size |-> 0, noffset |-> 0, seen |-> 0]
NoPass  == [tlsn |-> INVALID_LSN, copies |-> 0, seg |-> NoSeg, full |-> FALSE]

Return(c, chunk) ==
    /\ pc' = [pc EXCEPT ![c] = Resume(c)]
    /\ frame' = [frame EXCEPT ![c] = NoFrame]
    /\ held' = IF c \in Threads THEN [held EXCEPT ![c] = @ \cup {chunk}] ELSE held

\* THROW_IF and throw: a worker's caller catches the exception and its
\* transaction goes on or ends; nothing catches it in the detached daemon
\* thread, and std::terminate ends the process, every thread with it.
Throw(c) ==
    /\ pc' = IF c \in Threads THEN [pc EXCEPT ![c] = "in"]
                              ELSE [x \in Callers |-> "dead"]
    /\ frame' = [frame EXCEPT ![c] = NoFrame]

Call(c, s, size, entry) ==
    /\ pc' = [pc EXCEPT ![c] = entry]
    /\ frame' = [frame EXCEPT ![c] = [ra |-> s, size |-> size, noffset |-> 0, seen |-> 0]]

\* The chunk spans a segment boundary.
Spans(noffset, size) == Segment(noffset - 1) # Segment(noffset - size)

\* Variant: the window is never checked.
FitsAlways(s, noffset) == TRUE

\* The chunk ends inside the window the collector has given back.
Fits(s, noffset) == reclaimed[s] >= noffset

\* Variant: a collection is requested whatever the state.
GcIdleAlways(s) == TRUE

\* No collection is under way: one may be requested.
GcIdle(s) == state[s] = RA_NORMAL

\* Variant: _allocated is kept without its 64-bit wrap.
WrapNone(n) == n

\* Arithmetic on the uint64_t counter _allocated.
Wrap(n) == n % CounterModulus

-----------------------------------------------------------------------------
(* Epoch manager callbacks.                                                *)

\* RCU::rcu_is_active(): the caller runs inside a transaction's region.
rcu_is_active(c) == c \in active

epoch_ended(c) ==
    IF \E s \in Sockets : state[s] \in {RA_GC_REQUESTED, RA_GC_FINISHED}
    THEN IF rcu_is_active(c) THEN cur_lsn ELSE INVALID_LSN
    ELSE NoCookie

\* trigger_reclaim: notify_all reaches the daemon only if it is waiting.
trigger_reclaim(s) == pc[s] = "wait"

\* Variant: the callback takes a request for a finished collection.
NextStateSkipsPass(s) ==
    CASE state[s] = RA_GC_REQUESTED -> RA_GC_FINISHED
      [] state[s] = RA_GC_FINISHED  -> RA_NORMAL
      [] OTHER                      -> state[s]

\* Variant: the callback wakes the daemon and forgets set_state(RA_GC_IN_PROG).
NextStateForgetsInProg(s) ==
    CASE state[s] = RA_GC_FINISHED  -> RA_NORMAL
      [] OTHER                      -> state[s]

\* What epoch_reclaimed makes of an allocator's state.
NextState(s) ==
    CASE state[s] = RA_GC_REQUESTED -> RA_GC_IN_PROG
      [] state[s] = RA_GC_FINISHED  -> RA_NORMAL
      [] OTHER                      -> state[s]

\* Variant: the window is moved on by the whole ring.
SparedRing(s) == reclaimed[s] + HotCapacity

\* "spared": _reclaimed_offset moves on by the segment that was drained.
Spared(s) == reclaimed[s] + SegmentSize

\* Variant: the cookie of a thread's exit is taken for an LSN.
NewTrimUnchecked(cookie) == cookie

\* The trim LSN after epoch_reclaimed: an INVALID_LSN cookie leaves it alone.
NewTrim(cookie) == IF cookie # INVALID_LSN THEN cookie ELSE trim_lsn

epoch_reclaimed ==
    /\ ~Aborted
    /\ reclaim
    /\ LET cookie == Head(closed).cookie IN
         IF cookie = NoCookie
         THEN UNCHANGED <<trim_lsn, state, reclaimed, signalled>>
         ELSE /\ trim_lsn' = NewTrim(cookie)
              /\ state' = [s \in Sockets |-> NextState(s)]
              /\ reclaimed' = [s \in Sockets |->
                    IF state[s] = RA_GC_FINISHED THEN Spared(s) ELSE reclaimed[s]]
              /\ signalled' = [s \in Sockets |->
                    signalled[s] \/ (state[s] = RA_GC_REQUESTED /\ trigger_reclaim(s))]
    /\ UNCHANGED <<hot, cold, allocated, system_loading, ra_nthreads, tls_ra,
                   initialized, cur_lsn, callVars, pass, history>>

-----------------------------------------------------------------------------
(* Worker threads.                                                         *)

\* Called by a worker as it starts, before its first transaction.
register_thread(t) ==
    /\ pc[t] = "out"
    /\ ~initialized[t]
    /\ tls_ra[t] = NoRa
    /\ tls_ra' = [tls_ra EXCEPT ![t] = ra_nthreads % NumSockets]
    /\ ra_nthreads' = ra_nthreads + 1
    /\ UNCHANGED <<raVars, trim_lsn, system_loading, initialized, cur_lsn,
                   epochVars, callVars, daemonVars, history>>

\* The callback of thread_init: the epoch manager knows the thread.
thread_registered(t) == initialized' = [initialized EXCEPT ![t] = TRUE]

\* A transaction begins; a thread the epoch manager has not seen registers.
epoch_enter(t) ==
    /\ pc[t] = "out"
    /\ thread_enter(t)
    /\ thread_registered(t)
    /\ pc' = [pc EXCEPT ![t] = "in"]
    /\ UNCHANGED <<raVars, trim_lsn, system_loading, ra_nthreads, tls_ra, cur_lsn,
                   frame, held, daemonVars, history>>

\* The transaction is over: what it allocated is linked or abandoned.
epoch_thread_quiesce(t) ==
    /\ pc[t] = "in"
    /\ thread_quiesce(t)
    /\ held' = [held EXCEPT ![t] = {}]
    /\ UNCHANGED <<raVars, globalVars, pc, frame, daemonVars, history>>

epoch_exit(t) ==
    /\ pc[t] = "in"
    /\ thread_exit(t)
    /\ held' = [held EXCEPT ![t] = {}]
    /\ pc' = [pc EXCEPT ![t] = "out"]
    /\ UNCHANGED <<raVars, globalVars, frame, daemonVars, history>>

\* thread_deregistered: the thread's data is marked uninitialized.
thread_deregistered(t) == initialized' = [initialized EXCEPT ![t] = FALSE]

\* A thread ends: the epoch manager deregisters it and, as the comment in
\* epoch_ended says, closes the epoch outside any transaction.
thread_fini(t) ==
    /\ pc[t] = "out"
    /\ initialized[t]
    /\ thread_deregistered(t)
    /\ IF new_epoch_possible THEN new_epoch(epoch_ended(t)) ELSE UNCHANGED epochVars
    /\ UNCHANGED <<raVars, trim_lsn, system_loading, ra_nthreads, tls_ra, cur_lsn,
                   callVars, daemonVars, history>>

\* The sockets RA::allocate may pick for t: its own, or the one of the cpu
\* it happens to run on.
Ra(t) == IF tls_ra[t] = NoRa THEN Sockets ELSE {tls_ra[t]}

allocate(t, size) ==
    /\ pc[t] = "in"
    /\ Cardinality(held[t]) < MaxHeld
    /\ \E s \in Ra(t) : Call(t, s, size, IF system_loading THEN "cold" ELSE "bump")
    /\ UNCHANGED <<raVars, globalVars, epochVars, held, daemonVars, history>>

allocate_cold(t, size) ==
    /\ pc[t] = "in"
    /\ Cardinality(held[t]) < MaxHeld
    /\ \E s \in Ra(t) : Call(t, s, size, "cold")
    /\ UNCHANGED <<raVars, globalVars, epochVars, held, daemonVars, history>>

-----------------------------------------------------------------------------
(* region_allocator::allocate, one action per access to shared state.      *)

\* retry: the fetch-and-add on the cursor.
AllocBump(c) ==
    LET s == frame[c].ra  noffset == hot[s] + frame[c].size IN
    /\ pc[c] = "bump"
    /\ noffset <= MaxOffset
    /\ hot' = [hot EXCEPT ![s] = noffset]
    /\ frame' = [frame EXCEPT ![c].noffset = noffset]
    /\ pc' = [pc EXCEPT ![c] = "check"]
    /\ UNCHANGED <<cold, reclaimed, allocated, state, globalVars, epochVars,
                   held, daemonVars, history>>

\* The window check, and the count of what was allocated.
AllocCheck(c) ==
    LET s == frame[c].ra  f == frame[c] IN
    /\ pc[c] = "check"
    /\ IF ~Fits(s, f.noffset)
       THEN /\ Throw(c)
            /\ UNCHANGED allocated
       ELSE /\ allocated' = [allocated EXCEPT ![s] = Wrap(@ + f.size)]
            /\ pc' = [pc EXCEPT ![c] = IF Spans(f.noffset, f.size) THEN "span" ELSE "trim"]
            /\ UNCHANGED frame
    /\ UNCHANGED <<hot, cold, reclaimed, state, globalVars, epochVars, held,
                   daemonVars, history>>

\* The chunk spans two segments: unusable, and a GC is due.
AllocSpan(c) ==
    /\ pc[c] = "span"
    /\ IF ~GcIdle(frame[c].ra)
       THEN Throw(c)
       ELSE pc' = [pc EXCEPT ![c] = "request"] /\ UNCHANGED frame
    /\ UNCHANGED <<raVars, globalVars, epochVars, held, daemonVars, history>>

\* Variant: the request wakes the daemon at once, without an epoch.
AllocRequestEager(c) ==
    LET s == frame[c].ra IN
    /\ pc[c] = "request"
    /\ state' = [state EXCEPT ![s] = RA_GC_IN_PROG]
    /\ signalled' = [signalled EXCEPT ![s] = @ \/ trigger_reclaim(s)]
    /\ pc' = [pc EXCEPT ![c] = "bump"]
    /\ UNCHANGED <<hot, cold, reclaimed, allocated, globalVars, epochVars,
                   frame, held, pass, history>>

AllocRequest(c) ==
    /\ pc[c] = "request"
    /\ state' = [state EXCEPT ![frame[c].ra] = RA_GC_REQUESTED]
    /\ pc' = [pc EXCEPT ![c] = "bump"]
    /\ UNCHANGED <<hot, cold, reclaimed, allocated, globalVars, epochVars,
                   frame, held, daemonVars, history>>

HotChunk(c) ==
    [ra |-> frame[c].ra, cold |-> FALSE,
     off |-> frame[c].noffset - frame[c].size, size |-> frame[c].size]

\* Enough was allocated to ask for a new epoch; epoch_ended runs in new_epoch.
AllocTrim(c) ==
    LET s == frame[c].ra IN
    /\ pc[c] = "trim"
    /\ IF allocated[s] >= TrimMark /\ new_epoch_possible
       THEN /\ new_epoch(epoch_ended(c))
            /\ frame' = [frame EXCEPT ![c].seen = allocated[s]]
            /\ pc' = [pc EXCEPT ![c] = "reset"]
            /\ UNCHANGED held
       ELSE /\ Return(c, HotChunk(c))
            /\ UNCHANGED epochVars
    /\ UNCHANGED <<raVars, globalVars, daemonVars, history>>

\* __sync_add_and_fetch(&_allocated, -_allocated), the operand read before.
AllocReset(c) ==
    LET s == frame[c].ra IN
    /\ pc[c] = "reset"
    /\ allocated' = [allocated EXCEPT ![s] = Wrap(@ + CounterModulus - frame[c].seen)]
    /\ Return(c, HotChunk(c))
    /\ UNCHANGED <<hot, cold, reclaimed, state, globalVars, epochVars, daemonVars, history>>

\* region_allocator::allocate_cold.
AllocCold(c) ==
    LET s == frame[c].ra  noffset == cold[s] + frame[c].size IN
    /\ pc[c] = "cold"
    /\ noffset <= MaxCold
    /\ cold' = [cold EXCEPT ![s] = noffset]
    /\ IF ColdCapacity < noffset
       THEN Throw(c) /\ UNCHANGED held
       ELSE Return(c, [ra |-> s, cold |-> TRUE, off |-> cold[s], size |-> frame[c].size])
    /\ UNCHANGED <<hot, reclaimed, allocated, state, globalVars, epochVars,
                   daemonVars, history>>

-----------------------------------------------------------------------------
(* region_allocator::reclaim_daemon.                                       *)

\* Variant: the pass is made over the segment the cursor is in.
PassSegmentAtCursor(s) == Segment(hot[s])

\* start_offset: the segment in the ring slot the window opens next.
PassSegment(s) == Segment(reclaimed[s]) - NumSegments

\* The daemon reaches _reclaim_cv.wait.
DaemonWait(s) ==
    /\ pc[s] = "arm"
    /\ pc' = [pc EXCEPT ![s] = "wait"]
    /\ UNCHANGED <<raVars, globalVars, epochVars, frame, held, daemonVars, history>>

\* wait returns; the daemon fixes the trim LSN and the segment to drain.
DaemonWake(s) ==
    LET seg == PassSegment(s) IN
    /\ pc[s] = "wait"
    /\ signalled[s] \/ (SpuriousWakeups /\ reclaimed[s] < MaxOffset)
    /\ signalled' = [signalled EXCEPT ![s] = FALSE]
    /\ pass' = [pass EXCEPT ![s] =
                  [tlsn |-> trim_lsn, copies |-> 0, seg |-> seg,
                   full |-> hot[s] >= (seg + 1) * SegmentSize]]
    /\ pc' = [pc EXCEPT ![s] = "pass"]
    /\ UNCHANGED <<raVars, globalVars, epochVars, frame, held, history>>

\* A chain head older than the trim LSN moves to the cold region.
DaemonCopyCold(s, size) ==
    /\ pc[s] = "pass"
    /\ pass[s].copies < MaxCopies
    /\ pass[s].tlsn > INVALID_LSN
    /\ pass' = [pass EXCEPT ![s].copies = @ + 1]
    /\ Call(s, s, size, "cold")
    /\ UNCHANGED <<raVars, globalVars, epochVars, held, signalled, history>>

\* A version still in use moves to the segment being filled.
DaemonCopyHot(s, size) ==
    /\ pc[s] = "pass"
    /\ pass[s].copies < MaxCopies
    /\ pass' = [pass EXCEPT ![s].copies = @ + 1]
    /\ Call(s, s, size, "bump")
    /\ UNCHANGED <<raVars, globalVars, epochVars, held, signalled, history>>

DaemonFinish(s) ==
    /\ pc[s] = "pass"
    /\ state' = [state EXCEPT ![s] = RA_GC_FINISHED]
    /\ drained' = [drained EXCEPT
                     ![s] = IF pass[s].full THEN @ \cup {pass[s].seg} ELSE @]
    /\ pass' = [pass EXCEPT ![s] = NoPass]
    /\ pc' = [pc EXCEPT ![s] = "arm"]
    /\ UNCHANGED <<hot, cold, reclaimed, allocated, globalVars, epochVars,
                   frame, held, signalled>>

-----------------------------------------------------------------------------
(* The environment: the benchmark driver and the log.                      *)

FinishLoading ==
    /\ ~Aborted
    /\ system_loading
    /\ system_loading' = FALSE
    /\ UNCHANGED <<raVars, trim_lsn, ra_nthreads, tls_ra, initialized, cur_lsn,
                   epochVars, callVars, daemonVars, history>>

LogAdvance ==
    /\ ~Aborted
    /\ cur_lsn < MaxLsn
    /\ cur_lsn' = cur_lsn + 1
    /\ UNCHANGED <<raVars, trim_lsn, system_loading, ra_nthreads, tls_ra,
                   initialized, epochVars, callVars, daemonVars, history>>

\* The model's horizon: a call would bump a cursor beyond its bound.
Horizon ==
    \E c \in Callers :
        \/ pc[c] = "bump" /\ hot[frame[c].ra] + frame[c].size > MaxOffset
        \/ pc[c] = "cold" /\ cold[frame[c].ra] + frame[c].size > MaxCold

\* The process has ended, or the model has reached its horizon.
Halted == (Aborted \/ Horizon) /\ UNCHANGED vars

-----------------------------------------------------------------------------
\* The region_allocator constructor: an empty ring, all of it open.
Constructed ==
    /\ hot = [s \in Sockets |-> 0]
    /\ cold = [s \in Sockets |-> 0]
    /\ reclaimed = [s \in Sockets |-> HotCapacity]
    /\ allocated = [s \in Sockets |-> 0]
    /\ state = [s \in Sockets |-> RA_NORMAL]

\* RA::init, which constructs the allocator of every socket.
Init ==
    /\ Constructed
    /\ trim_lsn = INVALID_LSN
    /\ system_loading = TRUE
    /\ ra_nthreads = 0
    /\ tls_ra = [t \in Threads |-> NoRa]
    /\ initialized = [t \in Threads |-> FALSE]
    /\ cur_lsn = 1
    /\ EpochInit
    /\ pc = [c \in Callers |-> IF c \in Threads THEN "out" ELSE "arm"]
    /\ frame = [c \in Callers |-> NoFrame]
    /\ held = [t \in Threads |-> {}]
    /\ signalled = [s \in Sockets |-> FALSE]
    /\ pass = [s \in Sockets |-> NoPass]
    /\ drained = [s \in Sockets |-> {}]

Next ==
    \/ \E t \in Threads : register_thread(t)
    \/ \E t \in Threads : epoch_enter(t)
    \/ \E t \in Threads : epoch_thread_quiesce(t)
    \/ \E t \in Threads : epoch_exit(t)
    \/ \E t \in Threads : thread_fini(t)
    \/ \E t \in Threads, size \in Sizes : allocate(t, size)
    \/ \E t \in Threads, size \in Sizes : allocate_cold(t, size)
    \/ \E c \in Callers : AllocBump(c)
    \/ \E c \in Callers : AllocCheck(c)
    \/ \E c \in Callers : AllocSpan(c)
    \/ \E c \in Callers : AllocRequest(c)
    \/ \E c \in Callers : AllocTrim(c)
    \/ \E c \in Callers : AllocReset(c)
    \/ \E c \in Callers : AllocCold(c)
    \/ \E s \in Sockets : DaemonWait(s)
    \/ \E s \in Sockets : DaemonWake(s)
    \/ \E s \in Sockets, size \in Sizes : DaemonCopyCold(s, size)
    \/ \E s \in Sockets, size \in Sizes : DaemonCopyHot(s, size)
    \/ \E s \in Sockets : DaemonFinish(s)
    \/ epoch_reclaimed
    \/ FinishLoading
    \/ LogAdvance
    \/ Halted

Spec == Init /\ [][Next]_vars

\* The daemon is a thread of its own: it reaches its wait, returns from it
\* once it has been notified, and ends a pass it has begun.
DaemonFairness ==
    \A s \in Sockets : /\ WF_vars(DaemonWait(s))
                       /\ WF_vars(DaemonWake(s))
                       /\ WF_vars(DaemonFinish(s))

FairSpec == Spec /\ DaemonFairness

-----------------------------------------------------------------------------
TypeOK ==
    /\ hot \in [Sockets -> 0 .. MaxOffset]
    /\ cold \in [Sockets -> 0 .. MaxCold]
    /\ reclaimed \in [Sockets -> { n * SegmentSize : n \in NumSegments .. NumSegments + MaxOffset }]
    /\ allocated \in [Sockets -> 0 .. CounterModulus - 1]
    /\ state \in [Sockets -> RA_NORMAL .. RA_GC_FINISHED]
    /\ trim_lsn \in INVALID_LSN .. MaxLsn
    /\ system_loading \in BOOLEAN
    /\ ra_nthreads \in 0 .. Cardinality(Threads)
    /\ tls_ra \in [Threads -> Sockets \cup {NoRa}]
    /\ initialized \in [Threads -> BOOLEAN]
    /\ cur_lsn \in 1 .. MaxLsn
    /\ active \subseteq Threads
    /\ closed \in Seq([cookie : INVALID_LSN .. NoCookie, inside : SUBSET Threads])
    /\ Len(closed) <= EpochDepth
    /\ pc \in [Callers -> {"out", "in", "arm", "wait", "pass", "dead",
                           "bump", "check", "span", "request", "trim", "reset", "cold"}]
    /\ \A t \in Threads : pc[t] \notin {"arm", "wait", "pass"}
    /\ \A s \in Sockets : pc[s] \notin {"out", "in"}
    /\ frame \in [Callers -> [ra : Sockets, size : Sizes \cup {0},
                              noffset : 0 .. MaxOffset, seen : 0 .. CounterModulus - 1]]
    /\ held \in [Threads -> SUBSET Chunk]
    /\ signalled \in [Sockets -> BOOLEAN]
    /\ pass \in [Sockets -> [tlsn : INVALID_LSN .. MaxLsn, copies : 0 .. MaxCopies,
                             seg : 0 .. NoSeg, full : BOOLEAN]]
    /\ \A s \in Sockets : drained[s] \subseteq 0 .. NoSeg
-----------------------------------------------------------------------------
(* What the properties speak of.                                           *)

\* The hot chunks allocate has granted to c: those its transaction holds and
\* the one its call is about to return.
Granted(c) ==
    (IF c \in Threads THEN {h \in held[c] : ~h.cold} ELSE {})
        \cup (IF pc[c] \in {"trim", "reset"} THEN {HotChunk(c)} ELSE {})

\* The daemon of s is between its wake-up and set_state(RA_GC_FINISHED).
InPass(s) == pc[s] \notin {"arm", "wait", "dead"}

RingSlot(seg) == seg % NumSegments

\* The segments of s with a chunk that is granted and not yet linked.
Taken(s) ==
    {Segment(h.off) : h \in {g \in UNION {Granted(c) : c \in Callers} : g.ra = s}}

Window == INSTANCE SegmentWindow WITH
    Rings  <- Sockets,
    taken  <- [s \in Sockets |-> Taken(s)],
    swept  <- drained,
    window <- [s \in Sockets |-> Segment(reclaimed[s])]

-----------------------------------------------------------------------------
(* Safety.                                                                 *)

\* No two chunks that allocate has granted and that are still private to a
\* transaction share a byte of the ring, and none spans two segments: the
\* cursor of region_allocator::allocate wraps over the ring only as far as
\* the window check against _reclaimed_offset lets it.
RingExclusive ==
    \A c1, c2 \in Callers : \A h1 \in Granted(c1), h2 \in Granted(c2) :
        /\ Segment(h1.off) = Segment(h1.off + h1.size - 1)
        /\ h1 # h2 => Bytes(h1) \cap Bytes(h2) = {}

\* A chunk is granted in a segment of the ring that was used before only
\* after reclaim_daemon has made a pass over that segment, started after the
\* cursor had left it: _reclaimed_offset moves in epoch_reclaimed only on
\* RA_GC_FINISHED, which only the daemon's pass sets.
NoReuseBeforeDrain ==
    \A c \in Callers : \A h \in Granted(c) :
        Segment(h.off) >= NumSegments
            => Segment(h.off) - NumSegments \in drained[h.ra]

\* While reclaim_daemon walks the chains for a segment, no transaction holds
\* a chunk of that segment that it has not linked yet: the epoch between
\* RA_GC_REQUESTED and RA_GC_IN_PROG has seen every such transaction out.
PassAfterQuiescence ==
    \A s \in Sockets : InPass(s) =>
        \A t \in Threads : \A h \in Granted(t) :
            h.ra = s => RingSlot(Segment(h.off)) # RingSlot(pass[s].seg)

\* The ASSERT at the end of reclaim_daemon, for the whole pass: the daemon
\* works only while its allocator is in RA_GC_IN_PROG.
PassOnlyInProg ==
    \A s \in Sockets : InPass(s) => state[s] = RA_GC_IN_PROG

\* The copies reclaim_daemon makes through allocate never land in the ring
\* slot it is draining: the pass is over the oldest segment of the window,
\* which the cursor left before the request, and the window check keeps the
\* cursor from coming round to it.  ChainReclaim relies on it: a copy is
\* outside the segment.
CopiesLeaveSegment ==
    \A s \in Sockets : \A h \in Granted(s) :
        RingSlot(Segment(h.off)) # RingSlot(pass[s].seg)

\* allocate, epoch_reclaimed and reclaim_daemon together implement the
\* window of segments of SegmentWindow: every step of theirs grants a chunk
\* inside the window in a slot that was swept, settles chunks, sweeps the
\* oldest segment while no transaction holds a chunk of it, opens the window
\* over a swept segment, or changes nothing the window shows.
ImplementsWindow == Window!Spec

\* The GC state of an allocator only moves round the cycle NORMAL, REQUESTED,
\* IN_PROG, FINISHED, NORMAL, whichever of allocate, epoch_reclaimed and
\* reclaim_daemon writes it and however they interleave, and _reclaimed_offset
\* moves by one segment, on the step from FINISHED to NORMAL only.
GcCycleOrder ==
    [][\A s \in Sockets :
         /\ state'[s] # state[s] => state'[s] = (state[s] + 1) % 4
         /\ reclaimed'[s] # reclaimed[s] =>
              /\ reclaimed'[s] = reclaimed[s] + SegmentSize
              /\ state[s] = RA_GC_FINISHED /\ state'[s] = RA_NORMAL]_vars

\* RA::trim_lsn never moves back: the cookies epoch_ended hands out reach
\* epoch_reclaimed in the order of the log, and the INVALID_LSN cookie of an
\* epoch that a thread's exit closed is ignored.
TrimNeverRetreats == [][trim_lsn' >= trim_lsn]_vars
-----------------------------------------------------------------------------
(* What the design says of the allocator and the code does not keep.       *)

\* "reclaimed_offset - allocated_hot_offset is in [0, hot_capacity] at all
\* times": the cursor of region_allocator::allocate stays inside the window.
WindowBounds ==
    \A s \in Sockets :
        hot[s] <= reclaimed[s] /\ reclaimed[s] <= hot[s] + HotCapacity

\* The collections of s that are finished, under way, or about to be
\* requested by a caller that holds a spanning chunk.
Collections(s) ==
    reclaimed[s] \div SegmentSize - NumSegments
        + (IF state[s] # RA_NORMAL THEN 1 ELSE 0)
        + Cardinality({c \in Callers : /\ pc[c] \in {"check", "span", "request"}
                                       /\ frame[c].ra = s
                                       /\ Spans(frame[c].noffset, frame[c].size)})

\* "Waits on a condition until signaled", then drains the segment and moves
\* RA_GC_IN_PROG to RA_GC_FINISHED: a collection that epoch_reclaimed has
\* started is finished by reclaim_daemon.
CollectionFinishes ==
    \A s \in Sockets : (state[s] = RA_GC_IN_PROG) ~> (state[s] = RA_GC_FINISHED)

\* A version's storage is released when its segment drains: by the time
\* allocate grants a chunk in a segment, a collection has been asked for
\* every segment the cursor has left behind.
EveryCrossingCollected ==
    \A c \in Callers : \A h \in Granted(c) : Segment(h.off) <= Collections(h.ra)
=============================================================================
