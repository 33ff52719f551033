SPECIFICATION Spec
CONSTANTS
    s1 = s1
    s2 = s2
    c1 = c1
    br = br
    us = us
    Slots <- MCSlots
    Clients <- MCClients
    Backends <- MCBackends
    KindOf <- MCKindTcp
    Info <- MCInfo
    GeosOf <- MCGeo
    LocalRegion = "us"
    NoGeo = NoGeo
    NoBest = NoBest
    NoClient = NoClient
    NoBackend = NoBackend
    TTL = 0
    MaxTime = 0
    MaxReloads = 1
CHECK_DEADLOCK FALSE
INVARIANT HardLimitIsAbsolute
