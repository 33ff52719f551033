SPECIFICATION FairSpec
CONSTANTS
    LocalRegion = "SouthAmerica"
    NoGeo = NoGeo
    NoBest = NoBest
    n1 = n1
    n2 = n2
    n3 = n3
    Nodes <- MCNodes3
    Boot <- MCBoot
    Ordered = TRUE
    BindAny = FALSE
    Timeout = 1
    EventCap = 4
    MaxCrashes <- MCOneCrash
    MaxCuts = 0
    MaxLosses = 0
CHECK_DEADLOCK FALSE
PROPERTY DeadAreForgotten
PROPERTY MeshForms
PROPERTY DeathIsReal
