SPECIFICATION FairSpec
CONSTANTS
    LocalRegion = "SouthAmerica"
    NoGeo = NoGeo
    NoBest = NoBest
    n1 = n1
    n2 = n2
    n3 = n3
    Nodes <- MCNodes2
    Boot <- MCBoot
    Ordered = TRUE
    BindAny = TRUE
    Timeout = 1
    EventCap = 4
    MaxCrashes <- MCNoCrashes
    MaxCuts = 0
    MaxLosses = 0
CHECK_DEADLOCK FALSE
PROPERTY MeshForms
