\* The bounds of RegionAllocator.cfg with room for a third chunk in the cold
\* region of two segments: allocate_cold finds it full and throws, in a
\* transaction and in the daemon.
SPECIFICATION Spec
CONSTANTS
    Threads = {t1, t2}
    EpochDepth = 1
    NumSockets = 1
    SegmentSize = 4
    NumSegments = 3
    Sizes = {3}
    TrimMark = 2
    CounterModulus = 8
    MaxLsn = 2
    MaxOffset = 15
    MaxCold = 9
    MaxHeld = 1
    MaxCopies = 1
    SpuriousWakeups = FALSE
SYMMETRY ThreadSymmetry
INVARIANT TypeOK
INVARIANT RingExclusive
INVARIANT NoReuseBeforeDrain
INVARIANT PassAfterQuiescence
INVARIANT PassOnlyInProg
INVARIANT CopiesLeaveSegment
PROPERTY TrimNeverRetreats
PROPERTY ImplementsWindow
PROPERTY GcCycleOrder
