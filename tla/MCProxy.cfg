SPECIFICATION HistSpec
CONSTANTS
    s1 = s1
    s2 = s2
    c1 = c1
    br = br
    us = us
    Slots <- MCSlots
    Clients <- MCClients
    Backends <- MCBackends
    KindOf <- MCKindTlsTcp
    Info <- MCInfo
    GeosOf <- MCGeo
    LocalRegion = "us"
    NoGeo = NoGeo
    NoBest = NoBest
    NoClient = NoClient
    NoBackend = NoBackend
    TTL = 0
    MaxTime = 2
    MaxReloads = 2
CHECK_DEADLOCK FALSE
INVARIANT TypeOK
INVARIANT CountsAreExact
INVARIANT RefusedOnlyWithoutRoom
INVARIANT ChosenWasHealthy
INVARIANT AffinityIsKept
