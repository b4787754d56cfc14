\* One socket and two workers, a ring of three segments of four units, chunks
\* of three units: every chunk but the first spans a boundary, so a chunk can
\* ask for a collection while one is under way, the daemon's own copies go
\* to the ring, and the cursor comes round to the first segment.
SPECIFICATION Spec
CONSTANTS
    Threads = {t1, t2}
    EpochDepth = 1
    NumSockets = 1
    SegmentSize = 4
    NumSegments = 3
    Sizes = {3}
    TrimMark = 2
    CounterModulus = 8
    MaxLsn = 2
    MaxOffset = 15
    MaxCold = 3
    MaxHeld = 1
    MaxCopies = 1
    SpuriousWakeups = FALSE
SYMMETRY ThreadSymmetry
INVARIANT TypeOK
INVARIANT RingExclusive
INVARIANT NoReuseBeforeDrain
INVARIANT PassAfterQuiescence
INVARIANT PassOnlyInProg
INVARIANT CopiesLeaveSegment
PROPERTY TrimNeverRetreats
PROPERTY ImplementsWindow
PROPERTY GcCycleOrder
