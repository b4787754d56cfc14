SPECIFICATION Spec
CONSTANTS
    Threads = {t1, t2, t3}
    Versions = {v1}
    Width = 2
    MaxXid = 3
    MaxLsn = 2
    MaxReads = 1
SYMMETRY ThreadSymmetry
INVARIANT SlotAssigned
