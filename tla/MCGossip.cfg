SPECIFICATION Spec
CONSTANTS
    LocalRegion = "SouthAmerica"
    NoGeo = NoGeo
    NoBest = NoBest
    n1 = n1
    n2 = n2
    n3 = n3
    Nodes <- MCNodes2
    Boot <- MCBoot
    Ordered = FALSE
    BindAny = FALSE
    Timeout = 2
    EventCap = 4
    MaxCrashes <- MCCrashes
    MaxCuts = 1
    MaxLosses = 2
CHECK_DEADLOCK FALSE
INVARIANT TypeOK
PROPERTY DeathIsReal
