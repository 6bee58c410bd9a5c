CONSTANTS
    Mail <- TwoMails
    Size <- Sizes
    MaxBytes = 2
    Conn = {c1}
    File <- Files
    Attached <- Attachments
    ListOf <- FileLists
    Window = 1
    OldMail = {1}
    None = None
    MaxFails = 1
    MaxDeletes = 1
    MaxCrashes = 1
SPECIFICATION BodiesSpec
INVARIANTS CacheWithinBudget FileGoesWithItsMail OnlyWholeBodies
PROPERTIES StubHasACause BodiesArrive
CHECK_DEADLOCK FALSE
