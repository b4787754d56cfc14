SPECIFICATION Spec
CONSTANTS
    Threads = {t1, t2}
    EpochDepth = 1
    NumSockets = 2
    SegmentSize = 3
    NumSegments = 2
    Sizes = {2}
    TrimMark = 2
    CounterModulus = 8
    MaxLsn = 1
    MaxOffset = 6
    MaxCold = 0
    MaxHeld = 1
    MaxCopies = 1
    SpuriousWakeups = FALSE
SYMMETRY ThreadSymmetry
INVARIANT PassAfterQuiescence
