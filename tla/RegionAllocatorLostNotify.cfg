SPECIFICATION FairSpec
CONSTANTS
    Threads = {t1}
    EpochDepth = 1
    NumSockets = 1
    SegmentSize = 3
    NumSegments = 2
    Sizes = {2}
    TrimMark = 2
    CounterModulus = 8
    MaxLsn = 1
    MaxOffset = 8
    MaxCold = 0
    MaxHeld = 1
    MaxCopies = 0
    SpuriousWakeups = FALSE
PROPERTY CollectionFinishes
