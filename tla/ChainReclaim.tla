---------------------------- MODULE ChainReclaim ----------------------------
(***************************************************************************)
(* The walk of region_allocator::reclaim_daemon (src/dbcore/sm-alloc.cpp)  *)
(* over the version chain of one oid.  Every socket has a daemon, and each *)
(* walks every chain for the objects of its own segment, while writers     *)
(* install new heads with a compare-and-swap on the same head pointer.     *)
(* The allocators are abstracted to where an object lies: in the segment   *)
(* the daemon of its socket drains, elsewhere in a hot ring, or in a cold  *)
(* region (module RegionAllocator has the allocator itself).               *)
(*                                                                         *)
(* The chain is first built in the segments that are being filled; once    *)
(* the cursor has left a segment and the transactions that allocated from  *)
(* it are over, the daemon of the socket makes its pass.  That wait is the *)
(* epoch protocol's, which module RegionAllocator has (its property        *)
(* PassAfterQuiescence); here it is the assumption EpochOver.  The writers *)
(* are modelled from the design: the version code lies outside             *)
(* sm-alloc.cpp.                                                           *)
(***************************************************************************)
EXTENDS Naturals, Sequences, FiniteSets

CONSTANTS
    Sockets,      \* the sockets: an allocator and a daemon each
    Writers,      \* threads that install versions
    MaxObjects,   \* bound: objects ever allocated
    MaxLsn        \* bound: commit stamps handed out

ASSUME MaxObjects \in Nat /\ MaxLsn \in Nat

Objects == 1 .. MaxObjects
Null    == 0
INVALID_LSN == 0
Installer   == MaxLsn + 1   \* what clsn holds before the commit, no LSN
NoCookie    == MaxLsn + 2   \* no epoch has ended: epoch_ended returned NULL

RA_NORMAL       == "RA_NORMAL"
RA_GC_REQUESTED == "RA_GC_REQUESTED"
RA_GC_IN_PROG   == "RA_GC_IN_PROG"

VARIABLES
    obj,       \* [o] the object: _next, the clsn of its version, where it lies
    head,      \* *v->begin_ptr(oid)
    state,     \* [s] region_allocator::_state
    cookie,    \* the cookie of the epoch that has ended and is not reclaimed
    cur_lsn,   \* the next commit stamp
    trim_lsn,  \* RA::trim_lsn
    dpc,       \* [s] where the daemon of s stands
    d,         \* [s] its locals: tlsn, head, cur, prev, new_obj
    wpc,       \* [w] where writer w stands
    mine,      \* [w] the object w is installing
    linked     \* history: the commit stamps of the versions ever linked

vars == <<obj, head, state, cookie, cur_lsn, trim_lsn, dpc, d, wpc, mine, linked>>

Free == [next |-> Null, clsn |-> INVALID_LSN, at |-> "free"]

\* The object the next allocation returns.
Fresh == CHOOSE o \in Objects : obj[o].at = "free" /\ \A p \in 1 .. o - 1 : obj[p].at # "free"

CanAllocate == \E o \in Objects : obj[o].at = "free"

\* offset >= start_offset && offset + size <= end_offset, the offset taken
\* from myra->_hot_data: the object lies in the segment s drains.
InSegment(s, o) == obj[o].at = s

RECURSIVE From(_, _)
From(o, n) == IF o = Null \/ n = 0 THEN <<>> ELSE <<o>> \o From(obj[o].next, n - 1)

\* What an index traversal meets from the head on.
Chain == From(head, MaxObjects + 1)

Reachable == {Chain[n] : n \in DOMAIN Chain}

-----------------------------------------------------------------------------
(* Writers: allocate a version over the head they see, with the installer  *)
(* value for a commit stamp; link it if the head is still the same, give   *)
(* up if it is not; after the commit write the stamp into the version.     *)

\* The head is no version whose writer has yet to commit: a record has one
\* updater at a time.
HeadCommitted == head # Null => obj[head].clsn # Installer

\* RA::allocate takes the allocator of the socket the writer runs on.  Until
\* an allocation crosses the boundary the object lies in the segment that the
\* daemon drains next, afterwards in the segment that follows.
WriteBegin(w) ==
    /\ wpc[w] = "idle"
    /\ CanAllocate
    /\ HeadCommitted
    /\ cur_lsn <= MaxLsn
    /\ \E s \in Sockets :
        obj' = [obj EXCEPT ![Fresh] = [next |-> head, clsn |-> Installer,
                                      at |-> IF state[s] = RA_NORMAL THEN s ELSE "hot"]]
    /\ mine' = [mine EXCEPT ![w] = Fresh]
    /\ wpc' = [wpc EXCEPT ![w] = "link"]
    /\ UNCHANGED <<head, state, cookie, cur_lsn, trim_lsn, dpc, d, linked>>

WriteLink(w) ==
    LET o == mine[w] IN
    /\ wpc[w] = "link"
    /\ IF head = obj[o].next
       THEN /\ head' = o
            /\ wpc' = [wpc EXCEPT ![w] = "commit"]
            /\ UNCHANGED mine
       ELSE /\ mine' = [mine EXCEPT ![w] = Null]
            /\ wpc' = [wpc EXCEPT ![w] = "idle"]
            /\ UNCHANGED head
    /\ UNCHANGED <<obj, state, cookie, cur_lsn, trim_lsn, dpc, d, linked>>

\* Post-commit: the commit stamp replaces the installer value in the version
\* the writer allocated.
WriteCommit(w) ==
    /\ wpc[w] = "commit"
    /\ obj' = [obj EXCEPT ![mine[w]].clsn = cur_lsn]
    /\ linked' = linked \cup {cur_lsn}
    /\ cur_lsn' = cur_lsn + 1
    /\ mine' = [mine EXCEPT ![w] = Null]
    /\ wpc' = [wpc EXCEPT ![w] = "idle"]
    /\ UNCHANGED <<head, state, cookie, trim_lsn, dpc, d>>

\* allocate: the chunk spans a segment boundary, and the allocator asks for
\* the segment behind it to be drained.  (With a request pending the code
\* throws; module RegionAllocator has that path.)
LeaveSegment(s) ==
    /\ state[s] = RA_NORMAL
    /\ state' = [state EXCEPT ![s] = RA_GC_REQUESTED]
    /\ UNCHANGED <<obj, head, cookie, cur_lsn, trim_lsn, dpc, d, wpc, mine, linked>>

-----------------------------------------------------------------------------
(* The daemon of socket s, one action per access to the chain.             *)

NoLocals == [tlsn |-> INVALID_LSN, head |-> Null, cur |-> Null, prev |-> Null, new |-> Null]

\* No transaction is at work on a version of the segment s drains.
Quiescent(s) == \A w \in Writers : mine[w] # Null => ~InSegment(s, mine[w])

\* What the allocator expects of the epoch manager: when it reclaims an
\* epoch, the transactions that allocated from a segment whose draining is
\* requested are over.  Module RegionAllocator has the epochs themselves and
\* shows where the code does not keep this (its PassAfterQuiescence).
EpochOver == \A s \in Sockets : state[s] = RA_GC_REQUESTED => Quiescent(s)

\* The epoch ends while some allocator has a request pending: the cookie is
\* the log position, or INVALID_LSN at the exit of a thread.
epoch_ended ==
    /\ cookie = NoCookie
    /\ \E s \in Sockets : state[s] = RA_GC_REQUESTED
    /\ cookie' \in {cur_lsn, INVALID_LSN}
    /\ UNCHANGED <<obj, head, state, cur_lsn, trim_lsn, dpc, d, wpc, mine, linked>>

\* The epoch is reclaimed: a valid cookie becomes the trim LSN, and every
\* allocator with a request goes to RA_GC_IN_PROG and notifies its daemon.
epoch_reclaimed ==
    /\ cookie # NoCookie
    /\ EpochOver
    /\ trim_lsn' = IF cookie # INVALID_LSN THEN cookie ELSE trim_lsn
    /\ state' = [s \in Sockets |-> IF state[s] = RA_GC_REQUESTED
                                   THEN RA_GC_IN_PROG ELSE state[s]]
    /\ cookie' = NoCookie
    /\ UNCHANGED <<obj, head, cur_lsn, dpc, d, wpc, mine, linked>>

\* _reclaim_cv.wait returns on the notification of epoch_reclaimed, and the
\* daemon reads the trim LSN.
DaemonWake(s) ==
    /\ dpc[s] = "wait"
    /\ state[s] = RA_GC_IN_PROG
    /\ d' = [d EXCEPT ![s] = [NoLocals EXCEPT !.tlsn = trim_lsn]]
    /\ dpc' = [dpc EXCEPT ![s] = "start"]
    /\ UNCHANGED <<obj, head, state, cookie, cur_lsn, trim_lsn, wpc, mine, linked>>

\* Where the daemon of s goes next; the locals of the walk are declared at
\* start_over and go out of scope when the walk over the chain is over.
Goto(s, label) ==
    /\ dpc' = [dpc EXCEPT ![s] = label]
    /\ d' = [d EXCEPT ![s] = [NoLocals EXCEPT !.tlsn = d[s].tlsn]]

\* Variant: a failed compare-and-swap is tried again with what was read.
try_again(s) == UNCHANGED <<dpc, d>>

\* goto start_over: the walk begins again and reads the head anew.
start_over(s) == Goto(s, "start")

\* continue: the walk over this chain is over.
continue(s) == Goto(s, "done")

\* Variant: the cold object is linked without the memcpy.
ColdCopyBlank(o) == [Free EXCEPT !.at = "cold"]

\* memcpy into the cold region, then new_obj->_next = NULL.
ColdCopy(o) == [obj[o] EXCEPT !.at = "cold", !.next = Null]

\* Variant: the copy is linked in front of its original.
HotCopyChained(o) == [obj[o] EXCEPT !.at = "hot", !.next = o]

\* memcpy into the hot ring: the copy has the successor of its original.
HotCopy(o) == [obj[o] EXCEPT !.at = "hot"]

\* start_over: read the head; an old head in the segment is copied to the
\* cold region with no successor.
StartOver(s) ==
    /\ dpc[s] = "start"
    /\ LET h == head IN
         IF h = Null
         THEN continue(s) /\ UNCHANGED obj
         ELSE IF InSegment(s, h) /\ obj[h].clsn < d[s].tlsn
         THEN /\ CanAllocate
              /\ obj' = [obj EXCEPT ![Fresh] = ColdCopy(h)]
              /\ d' = [d EXCEPT ![s].head = h, ![s].cur = h, ![s].prev = Null,
                                ![s].new = Fresh]
              /\ dpc' = [dpc EXCEPT ![s] = "cold"]
         ELSE /\ d' = [d EXCEPT ![s].head = h, ![s].cur = h, ![s].prev = Null]
              /\ dpc' = [dpc EXCEPT ![s] = "walk"]
              /\ UNCHANGED obj
    /\ UNCHANGED <<head, state, cookie, cur_lsn, trim_lsn, wpc, mine, linked>>

\* The compare-and-swap of the head pointer to the cold copy.
ColdSwap(s) ==
    /\ dpc[s] = "cold"
    /\ IF head = d[s].cur
       THEN head' = d[s].new /\ continue(s)
       ELSE start_over(s) /\ UNCHANGED head
    /\ UNCHANGED <<obj, state, cookie, cur_lsn, trim_lsn, wpc, mine, linked>>

\* prev = volatile_read(cur); cur = volatile_read(cur->_next)
Advance(s) ==
    [d EXCEPT ![s].prev = d[s].cur, ![s].cur = obj[d[s].cur].next, ![s].new = Null]

\* The head of the loop: the end of the chain, a version outside the
\* segment, an old version to cut off, or a version to copy.
Walk(s) ==
    LET cur == d[s].cur IN
    /\ dpc[s] = "walk"
    /\ IF cur = Null
       THEN continue(s) /\ UNCHANGED obj
       ELSE IF ~InSegment(s, cur)
       THEN d' = Advance(s) /\ UNCHANGED <<dpc, obj>>
       ELSE IF obj[cur].clsn < d[s].tlsn /\ d[s].prev # Null
       THEN dpc' = [dpc EXCEPT ![s] = "cut"] /\ UNCHANGED <<d, obj>>
       ELSE /\ CanAllocate
            /\ obj' = [obj EXCEPT ![Fresh] = HotCopy(cur)]
            /\ d' = [d EXCEPT ![s].new = Fresh]
            /\ dpc' = [dpc EXCEPT ![s] = "swap"]
    /\ UNCHANGED <<head, state, cookie, cur_lsn, trim_lsn, wpc, mine, linked>>

\* The compare-and-swap of prev->_next to NULL, which ends the walk.
Cut(s) ==
    /\ dpc[s] = "cut"
    /\ IF obj[d[s].prev].next = d[s].cur
       THEN obj' = [obj EXCEPT ![d[s].prev].next = Null] /\ continue(s)
       ELSE start_over(s) /\ UNCHANGED obj
    /\ UNCHANGED <<head, state, cookie, cur_lsn, trim_lsn, wpc, mine, linked>>

\* Variant: the copy is stored in the head pointer without comparing.
SwapStores(s) ==
    /\ dpc[s] = "swap"
    /\ IF d[s].cur = d[s].head
       THEN head' = d[s].new /\ UNCHANGED obj
       ELSE obj' = [obj EXCEPT ![d[s].prev].next = d[s].new] /\ UNCHANGED head
    /\ d' = Advance(s)
    /\ dpc' = [dpc EXCEPT ![s] = "walk"]
    /\ UNCHANGED <<state, cookie, cur_lsn, trim_lsn, wpc, mine, linked>>

\* The compare-and-swap of the copy into the chain, at the head pointer or at
\* prev->_next, and the step to the next version.
Swap(s) ==
    LET cur == d[s].cur  prev == d[s].prev
        won == IF cur = d[s].head THEN head = cur ELSE obj[prev].next = cur IN
    /\ dpc[s] = "swap"
    /\ IF won
       THEN /\ IF cur = d[s].head
               THEN head' = d[s].new /\ UNCHANGED obj
               ELSE obj' = [obj EXCEPT ![prev].next = d[s].new] /\ UNCHANGED head
            /\ d' = Advance(s)
            /\ dpc' = [dpc EXCEPT ![s] = "walk"]
       ELSE start_over(s) /\ UNCHANGED <<head, obj>>
    /\ UNCHANGED <<state, cookie, cur_lsn, trim_lsn, wpc, mine, linked>>

-----------------------------------------------------------------------------
Init ==
    /\ obj = [o \in Objects |-> Free]
    /\ head = Null
    /\ state = [s \in Sockets |-> RA_NORMAL]
    /\ cookie = NoCookie
    /\ cur_lsn = 1
    /\ trim_lsn = INVALID_LSN
    /\ dpc = [s \in Sockets |-> "wait"]
    /\ d = [s \in Sockets |-> NoLocals]
    /\ wpc = [w \in Writers |-> "idle"]
    /\ mine = [w \in Writers |-> Null]
    /\ linked = {}

\* The model's horizon: no object or no commit stamp is left, or every
\* daemon has made its pass.
Horizon ==
    /\ \/ ~CanAllocate
       \/ cur_lsn > MaxLsn
       \/ \A s \in Sockets : dpc[s] = "done"
    /\ UNCHANGED vars

Next ==
    \/ \E w \in Writers : WriteBegin(w)
    \/ \E w \in Writers : WriteLink(w)
    \/ \E w \in Writers : WriteCommit(w)
    \/ \E s \in Sockets : LeaveSegment(s)
    \/ epoch_ended
    \/ epoch_reclaimed
    \/ \E s \in Sockets : DaemonWake(s)
    \/ \E s \in Sockets : StartOver(s)
    \/ \E s \in Sockets : ColdSwap(s)
    \/ \E s \in Sockets : Walk(s)
    \/ \E s \in Sockets : Cut(s)
    \/ \E s \in Sockets : Swap(s)
    \/ Horizon

Spec == Init /\ [][Next]_vars

\* A daemon is a thread of its own: a step of its pass that stays possible
\* is taken.  Nothing is assumed of the writers.
Pass(s) == StartOver(s) \/ ColdSwap(s) \/ Walk(s) \/ Cut(s) \/ Swap(s)

FairSpec == Spec /\ \A s \in Sockets : WF_vars(Pass(s))

-----------------------------------------------------------------------------
TypeOK ==
    /\ obj \in [Objects -> [next : Objects \cup {Null}, clsn : INVALID_LSN .. Installer,
                            at : {"free", "hot", "cold"} \cup Sockets]]
    /\ head \in Objects \cup {Null}
    /\ state \in [Sockets -> {RA_NORMAL, RA_GC_REQUESTED, RA_GC_IN_PROG}]
    /\ cookie \in (INVALID_LSN .. cur_lsn) \cup {NoCookie}
    /\ cur_lsn \in 1 .. MaxLsn + 1
    /\ trim_lsn \in INVALID_LSN .. cur_lsn
    /\ dpc \in [Sockets -> {"wait", "start", "cold", "walk", "cut", "swap", "done"}]
    /\ d \in [Sockets -> [tlsn : INVALID_LSN .. trim_lsn, head : Objects \cup {Null},
                          cur : Objects \cup {Null}, prev : Objects \cup {Null},
                          new : Objects \cup {Null}]]
    /\ wpc \in [Writers -> {"idle", "link", "commit"}]
    /\ mine \in [Writers -> Objects \cup {Null}]
    /\ linked \subseteq 1 .. MaxLsn
    /\ \A o \in Reachable : obj[o].at # "free" /\ obj[o].clsn \in linked \cup {Installer}

-----------------------------------------------------------------------------
(* Safety.                                                                 *)

\* The commit stamps an index traversal meets.
Stamps == {obj[o].clsn : o \in Reachable}

\* Whatever the daemons and the writers do to the head pointer and to the
\* _next fields, in whatever order, a version that was linked and is not
\* older than the trim LSN stays linked: a daemon's compare-and-swap never
\* takes a writer's new head away, a copy carries its successors with it,
\* and of a version that two daemons handle at once the original or a copy
\* stays in the chain (DrainedStaysDrained below is about which of them).
NoLiveVersionLost ==
    \A c \in linked : c >= trim_lsn => c \in Stamps

\* The chain stays a chain: from the head on the commit stamps go down, so it
\* has no cycle and shows no version twice, a copy and its original.
ChainDescends ==
    \A n \in 1 .. Len(Chain) - 1 : obj[Chain[n]].clsn > obj[Chain[n + 1]].clsn

-----------------------------------------------------------------------------
(* Liveness.                                                               *)

\* The walk is lock-free: every compare-and-swap the daemon loses was won by
\* a writer, and after goto start_over the next one is made on what the chain
\* has become, so the pass over the chain ends once the writers leave the
\* head alone (or the model has no object left for a copy).
WalkEnds ==
    \A s \in Sockets : dpc[s] = "start" ~> (dpc[s] = "done" \/ ~CanAllocate)

-----------------------------------------------------------------------------
(* What the design says and the code does not keep.                        *)

\* "Original storage is released when its segment drains": when the pass
\* of a daemon over the chain is over, no version in the chain lies in its
\* segment.
SegmentDrained ==
    \A s \in Sockets : dpc[s] = "done" => \A o \in Reachable : ~InSegment(s, o)

\* The versions of the chain that lie in the segment of s.
InChainOf(s) == {o \in Reachable : InSegment(s, o)}

\* "... then releases the drained segment": once the daemon of a socket has
\* made its pass and the segment is about to be handed back to allocate, no
\* step of anyone links an object of that segment into the chain.  Another
\* daemon breaks it: its memcpy took the _next of a version before this
\* daemon cut off or replaced the successor, and its compare-and-swap, which
\* compares the pointer to the version and not the version's _next, links
\* the stale copy.
DrainedStaysDrained ==
    [][\A s \in Sockets : dpc[s] = "done" => InChainOf(s)' \subseteq InChainOf(s)]_vars

\* The version a transaction with begin stamp b reads: the newest one that
\* was committed before b.
VisibleAt(b) == {c \in linked : c < b /\ \A e \in linked : e < b => e <= c}

\* "The dropped versions are unreachable because clsn < trim_lsn implies no
\* transaction can observe them": whatever reclaim_daemon cuts off or leaves
\* behind, the version that a transaction which began at or after the trim
\* LSN of the pass reads is still met by an index traversal.
SnapshotVersionKept ==
    \A b \in trim_lsn .. cur_lsn : VisibleAt(b) \subseteq Stamps
=============================================================================
