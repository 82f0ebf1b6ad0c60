SPECIFICATION Spec
CONSTANTS
    WindowSize = 2
    WindowSeconds = 2
    Latencies <- TheLatencies
    Batches = {b1, b2}
    b1 = b1
    b2 = b2
    Base = 6
    AdaptiveMax = 16
    AdaptiveEnabled = TRUE
    RuntimeAdaptive = TRUE
    Cooldown = 2
    MinSamples = 2
    LatencyUp = 4
    LatencyDown = 8
    FailureUpPct = 1
    FailureDownPct = 10
    Ends <- AllEnds
INVARIANT TypeOK
PROPERTY FollowsMode
PROPERTY RaisedOnEvidence
PROPERTY LoweredForCause
PROPERTY ReachesCeiling
