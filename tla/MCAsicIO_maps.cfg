SPECIFICATION Spec
CONSTANTS
    p = p
    q = q
    None = None
    Hit = Hit
    Callers = {a, b}
    Payload <- MCPayload
    Requests <- MCOverlap
    Objs = {x, y}
    QueueCap = 1
    RespCap = 1
    MaxWire = 2
    MaxCalls = 2
    Endless = FALSE
    Lossy = TRUE
    Dead <- MCNoDead
CHECK_DEADLOCK FALSE
SYMMETRY Symmetry
INVARIANTS TypeOK MapsAgree CallerNotForgotten ResultComplete SentOnce
