\* Two threads, one version: a reader marks the version as an old one, and
\* an updater locks the marker and reads the bitmap before the reader has
\* set its bit.
SPECIFICATION Spec
CONSTANTS
    Threads = {t1, t2}
    Versions = {v1}
    Width = 2
    MaxXid = 3
    MaxLsn = 2
    MaxReads = 2
SYMMETRY ThreadSymmetry
INVARIANT OldReaderWarned
