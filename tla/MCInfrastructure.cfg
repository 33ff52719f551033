SPECIFICATION InfraSpec
CONSTANTS
    MaxRequests = 2
    Window = 3
    Burst = 3
    Costs = {1, 2}
    MaxAge = 5
    LimiterEnd = 9
    NoBucket = NoBucket
    Users = {u1, u2}
    FailureThreshold = 2
    SuccessThreshold = 1
    ResetTimeout = 1
    FailureWindow = 0
    HealthyThreshold = 2
    UnhealthyThreshold = 3
    Agents = {a1, a2}
    HeartbeatTtl = 2
    Guards = {g1, g2}
    Stoppers = {s1, s2}
    Drainers = {d1}
    Subscribers = {r1}
    Setters = {s1, s2}
    Values = {v1, v2}
    NoValue = NoValue
    ChannelSize = 1
    LastMtime = 2
    Unwatched = Unwatched
    RawFlags = {"yes", "TRUE"}
    GossipRoom = 1
INVARIANT InfraTypeOK
INVARIANT RateBounded
INVARIANT FullCountTrips
PROPERTY BreakerRecovers
PROPERTY ChangeHasCause
PROPERTY HealthSettles
PROPERTY GoneIsForgotten
INVARIANT DrainIsReal
PROPERTY WaitsEnd
INVARIANT EventsAddUp
PROPERTY ModificationIsAnnounced
PROPERTY OptionalPartsAreOptional
PROPERTY StopEndsLoops
