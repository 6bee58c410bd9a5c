SPECIFICATION Spec
CONSTANTS
    Mail = {m1, m2}
    Folder = {f1, f2}
    None = None
    Batch <- BatchRecord
    ChanCap = 1
    MaxBatches = 2
    MaxDrops = 0
    MaxCrashes = 1
    MayExpire = TRUE
    InitFolders = {f1, f2}
    MaxFails = 1
SYMMETRY Symmetry
CONSTRAINT AtMostThree
INVARIANTS
    NoMailMissed
    FailedSyncIsRetried
    UidsNotShared
PROPERTIES
    MoveKeepsBody
CHECK_DEADLOCK FALSE
