---------------------------- MODULE SegmentWindow ----------------------------
(***************************************************************************)
(* What the region allocator of src/dbcore/sm-alloc.cpp promises, told in  *)
(* whole segments and without cursors, GC states, epochs or a daemon.      *)
(* Segments are numbered in the order the cursor meets them; segment n     *)
(* lies in slot n % NumSegments of the ring.  Memory is granted below the  *)
(* window only; a segment is swept once, after the last chunk was granted  *)
(* in it and while no transaction holds an unlinked chunk of its slot; the *)
(* window opens by one segment only over a segment that was swept.         *)
(* RegionAllocator implements this specification (ImplementsWindow).       *)
(***************************************************************************)
EXTENDS Naturals

CONSTANTS
    Rings,        \* the allocators
    NumSegments   \* segments of a ring

VARIABLES
    taken,    \* [r] segments with a chunk that is granted and not yet linked
    swept,    \* [r] segments the collector has drained
    window    \* [r] the segments below window[r] are open to allocation

vars == <<taken, swept, window>>

Slot(seg) == seg % NumSegments

\* The segment whose slot the window opens next.
Oldest(r) == window[r] - NumSegments

Init ==
    /\ taken = [r \in Rings |-> {}]
    /\ swept = [r \in Rings |-> {}]
    /\ window = [r \in Rings |-> NumSegments]

\* A chunk of segment seg is granted: the segment is inside the window, is
\* not swept yet, and what lay in its slot before was swept.
Grant(r, seg) ==
    /\ seg < window[r]
    /\ seg \notin swept[r]
    /\ seg >= NumSegments => seg - NumSegments \in swept[r]
    /\ taken' = [taken EXCEPT ![r] = @ \cup {seg}]
    /\ UNCHANGED <<swept, window>>

\* Transactions end: what they were granted is linked or given up.
Settle ==
    /\ \A r \in Rings : taken'[r] \subseteq taken[r]
    /\ UNCHANGED <<swept, window>>

\* The collector has drained the oldest segment.
Sweep(r) ==
    /\ \A seg \in taken[r] : Slot(seg) # Slot(Oldest(r))
    /\ swept' = [swept EXCEPT ![r] = @ \cup {Oldest(r)}]
    /\ UNCHANGED <<taken, window>>

\* The window opens over the oldest segments of the rings in R.
Release(R) ==
    /\ \A r \in R : Oldest(r) \in swept[r]
    /\ window' = [r \in Rings |-> IF r \in R THEN window[r] + 1 ELSE window[r]]
    /\ UNCHANGED <<taken, swept>>

Next ==
    \/ \E r \in Rings : \E seg \in 0 .. window[r] : Grant(r, seg)
    \/ Settle
    \/ \E r \in Rings : Sweep(r)
    \/ \E R \in SUBSET Rings : Release(R)

Spec == Init /\ [][Next]_vars
=============================================================================
