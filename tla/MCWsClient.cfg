CONSTANTS
    Groups = {g1, g2}
    Watched = g1
    ChanCap = 1
    Heartbeat = 2
    IdleTimeout = 3
    MaxBatches = 2
    MaxCuts = 1
    MaxBad = 1
    MaxCrashes = 1
SPECIFICATION WsSpec
PROPERTIES ImplementsBus EventuallyApplied
CHECK_DEADLOCK FALSE
