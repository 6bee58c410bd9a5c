CONSTANTS
    Folder <- Folders
    Kind <- Kinds
    Parent <- Parents
    Mail = {1, 2}
    Home <- Homes
    ListOf <- Lists
    CachedMail = {1}
    FolderLimit = 3
    None = None
    MaxFails = 1
    MaxCrashes = 1
    MaxRuns = 2
SPECIFICATION BackupSpec
INVARIANTS ExportIsComplete
CHECK_DEADLOCK FALSE
