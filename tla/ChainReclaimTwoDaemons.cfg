\* Two sockets, a version in the segment of each, and both daemons on the
\* chain at once.
SPECIFICATION Spec
CONSTANTS
    Sockets = {s1, s2}
    Writers = {w1}
    MaxObjects = 4
    MaxLsn = 3
SYMMETRY Symmetry
PROPERTY DrainedStaysDrained
