SPECIFICATION FairSpec
CONSTANTS
    Mail = {m1, m2, m3}
    None = None
    InitMails = {m1}
    InitUids = {1, 3}
    InitNext = 2
    MaxChanges = 2
INVARIANTS NumbersAgree OnlyPickedLeave
PROPERTIES IdleCatchesUp
CHECK_DEADLOCK FALSE
