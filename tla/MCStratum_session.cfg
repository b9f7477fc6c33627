SPECIFICATION FairSpec
CONSTANTS
    Shares = {s1, s2}
    None = None
    MAX_RETRY = 1
    MaxPush = 1
    InTime = TRUE
CHECK_DEADLOCK FALSE
INVARIANTS TypeOK AnswersMatch JobsOfThisConnection CountedOnce
PROPERTIES ImplementsSession
