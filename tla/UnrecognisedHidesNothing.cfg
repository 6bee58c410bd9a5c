CONSTANTS
    Message <- MCMessage
    Vocabulary <- MCVocabulary
    MaxTokens = 3
    CivilOf <- MCCivilOf
    NumberOf <- MCNumberOf
    PartsOf <- MCPartsOf
    None = None
SPECIFICATION SearchSpec
INVARIANTS UnrecognisedHidesNothing
CHECK_DEADLOCK FALSE
