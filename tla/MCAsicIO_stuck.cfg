SPECIFICATION FairSpec
CONSTANTS
    p = p
    q = q
    None = None
    Hit = Hit
    Callers = {a, b}
    Payload <- MCPayload
    Requests <- MCSame
    Objs = {x, y}
    QueueCap = 1
    RespCap = 1
    MaxWire = 1
    MaxCalls = 2
    Endless = FALSE
    Lossy = TRUE
    Dead <- MCNoDead
CHECK_DEADLOCK FALSE
PROPERTIES ReadsReturn
