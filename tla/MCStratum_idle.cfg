SPECIFICATION FairSpec
CONSTANTS
    Shares = {s1}
    None = None
    MAX_RETRY = 1
    MaxPush = 1
    InTime = TRUE
CHECK_DEADLOCK FALSE
PROPERTIES IdleSessionEnds
