\* One socket: the daemon alone, after the writer has built the chain.
SPECIFICATION Spec
CONSTANTS
    Sockets = {s1}
    Writers = {w1}
    MaxObjects = 5
    MaxLsn = 3
SYMMETRY Symmetry
INVARIANT SegmentDrained
