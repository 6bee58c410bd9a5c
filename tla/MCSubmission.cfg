CONSTANTS
    Callers = {c1, c2, o1}
    Conns = {c1, c2}
    MAX_IN_FLIGHT = 2
    BackoffBase = 1
    MaxDefaultBackoff = 2
    MaxServerBackoff = 2
    ServerDelays = {3}
    MaxThrottles = 2
    NoHint = NoHint
    MAX_CONNECTIONS = 2
    Addrs = {a}
    Kinds <- Submitted
    MailIds = {m1, m2}
    MaxLines = 2
    MaxMessage = 1
    PasswordSet = TRUE
    MaxSentIds = 1
    MaxSends = 2
    MaxThrottledSends = 1
    MaxDialogues = 1
    None = None
SPECIFICATION SubSpec
SYMMETRY Interchangeable
INVARIANTS DeliveredAsSubmitted NeverMisaddressed DuplicatesOnlyFromLostAnswers AnsweredOkWasSent
PROPERTIES SuspensionHonoured
CHECK_DEADLOCK FALSE
