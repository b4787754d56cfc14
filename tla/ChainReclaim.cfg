\* Two sockets with a daemon each and one writer; five objects and three
\* commit stamps: a chain of up to three versions spread over both segments,
\* the copies of both daemons, and new heads during the passes.
SPECIFICATION FairSpec
CONSTANTS
    Sockets = {s1, s2}
    Writers = {w1}
    MaxObjects = 5
    MaxLsn = 3
INVARIANT TypeOK
INVARIANT NoLiveVersionLost
INVARIANT ChainDescends
PROPERTY WalkEnds
