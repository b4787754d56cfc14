\* Two threads and two bits: every thread finds a bit, bits are given back
\* and taken again, a transaction reads a version twice, and an updater
\* inspects the readers of the version it has overwritten.
SPECIFICATION Spec
CONSTANTS
    Threads = {t1, t2}
    Versions = {v1}
    Width = 2
    MaxXid = 3
    MaxLsn = 2
    MaxReads = 2
SYMMETRY ThreadSymmetry
INVARIANT TypeOK
INVARIANT SlotsExclusive
INVARIANT ReadersVisible
INVARIANT NoStrayBits
INVARIANT XidOfOwner
INVARIANT OldReadersAccounted
