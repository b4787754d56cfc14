\* One socket, one writer, two versions, the older one in the segment and
\* the newer one outside it, and a trim LSN between their commit stamps.
SPECIFICATION Spec
CONSTANTS
    Sockets = {s1}
    Writers = {w1}
    MaxObjects = 4
    MaxLsn = 3
SYMMETRY Symmetry
INVARIANT SnapshotVersionKept
