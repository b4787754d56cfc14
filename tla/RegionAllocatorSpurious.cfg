SPECIFICATION Spec
CONSTANTS
    Threads = {t1, t2}
    EpochDepth = 1
    NumSockets = 1
    SegmentSize = 3
    NumSegments = 2
    Sizes = {2}
    TrimMark = 2
    CounterModulus = 8
    MaxLsn = 2
    MaxOffset = 8
    MaxCold = 2
    MaxHeld = 1
    MaxCopies = 1
    SpuriousWakeups = TRUE
SYMMETRY ThreadSymmetry
INVARIANT PassOnlyInProg
