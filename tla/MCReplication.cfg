SPECIFICATION Spec
CONSTANTS
    n1 = n1
    n2 = n2
    n3 = n3
    k1 = k1
    k2 = k2
    Nodes <- MCNodes2
    Keys <- MCKeys1
    Hash <- MCHash
    Kinds <- MCAllKinds
    Flushers <- MCOneFlusher
    MaxChanges <- MCOneThree
    MaxWall = 2
    MaxCrashes = 1
    EventCap = 8
    Fifo = FALSE
    Lossy = TRUE
    MaxFails = 1
CHECK_DEADLOCK FALSE
INVARIANT TypeOK
INVARIANT CacheNeverAhead
INVARIANT NoSeqReuse
INVARIANT RowIsNewest
PROPERTY LwwMonotone
