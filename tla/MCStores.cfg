SPECIFICATION StoresSpec
CONSTANTS
    LocalRegion = "us"
    NoGeo = NoGeo
    NoBest = NoBest
    Ids <- MCIds
    Lists <- MCLists
    b1 = b1
    b2 = b2
    b3 = b3
    Profiles <- MCProfiles
    Counts <- MCCounts
    Geos <- MCGeos
    Borrowers = {t1, t2, t3}
    MaxConnections = 2
    CounterSize = 8
    MaxClears = 1
    Reporters = {r1, r2}
    Hosts = {h1, h2}
    RttValues = {2, 3}
    MaxCalls = 3
    BackendIds = {b1, b2}
    MaxListed = 2
    MaxVersion = 2
    Hubs = {n1, n2}
    Casters = {n1}
    Closers = {n2}
    Lines = {1, 2}
    Casts = {k1}
    EventRoom = 1
    NoHub = NoHub
INVARIANT StoresTypeOK
INVARIANT PickIsFirstMinimum
INVARIANT GeoDominatesBelowHundred
INVARIANT LoadRepels
INVARIANT InUseIsExact
INVARIANT ExportAddsUp
INVARIANT SameVersionSameList
INVARIANT DeliveredOnce
