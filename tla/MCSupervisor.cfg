SPECIFICATION SupFairSpec
CONSTANTS
    Waiting = {w}
    Oneshot = {o}
    Inits = {i}
    None = None
    MaxBackoff = 3
    MaxFaults = 2
    MaxActive = 2
    MaxExpiries = 1
INVARIANTS
    ExclusiveVolume
    SignalsOwnGroup
    RejectedNotRetried
    InitTruthful
    StatusReachable
CHECK_DEADLOCK FALSE
PROPERTIES
    StopEnds
    ServiceRecovers
