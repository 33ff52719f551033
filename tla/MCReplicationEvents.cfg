SPECIFICATION FairSpec
CONSTANTS
    n1 = n1
    n2 = n2
    n3 = n3
    k1 = k1
    k2 = k2
    Nodes <- MCNodes2
    Keys <- MCKeys1
    Hash <- MCHash
    Kinds <- MCPuts
    Flushers <- MCOneFlusher
    MaxChanges <- MCOneTwo
    MaxWall = 2
    MaxCrashes = 0
    EventCap = 1
    Fifo = TRUE
    Lossy = FALSE
    MaxFails = 0
CHECK_DEADLOCK FALSE
PROPERTY ChangesReachEveryone
