SPECIFICATION FairSpec
CONSTANTS
    n1 = n1
    n2 = n2
    n3 = n3
    k1 = k1
    k2 = k2
    Nodes <- MCNodes3
    Keys <- MCKeys1
    Hash <- MCHash
    Kinds <- MCPuts
    Flushers <- MCOneFlusher
    MaxChanges <- MCTwoAndOne
    MaxWall = 1
    MaxCrashes = 0
    EventCap = 8
    Fifo = TRUE
    Lossy = FALSE
    MaxFails = 0
CHECK_DEADLOCK FALSE
PROPERTY ChangesReachEveryone
PROPERTY IsLwwStore
