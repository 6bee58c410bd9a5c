SPECIFICATION FairSpec
CONSTANTS
    Mail = {m1}
    Folder = {f1, f2}
    None = None
    Batch <- BatchRecord
    ChanCap = 1
    MaxBatches = 2
    MaxDrops = 1
    MaxCrashes = 0
    MayExpire = FALSE
    InitFolders = {f1}
    MaxFails = 1
INVARIANTS
    NoGap
PROPERTIES
    EventuallyAccounted
    EventuallyMirrors
CHECK_DEADLOCK FALSE
