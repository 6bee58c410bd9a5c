SPECIFICATION Spec
CONSTANTS
    Mail = {m1}
    Folder = {f1, f2}
    None = None
    Batch <- BatchRecord
    ChanCap = 2
    MaxBatches = 1
    MaxDrops = 0
    MaxCrashes = 0
    MayExpire = FALSE
    InitFolders = {f1, f2}
    MaxFails = 1
INVARIANTS
    FailedLoadLosesNothing
CHECK_DEADLOCK FALSE
