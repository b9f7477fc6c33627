SPECIFICATION Spec
CONSTANTS
    Stream <- MCStream
    BufSize = 33
    RSP_LEN_HIT = 18
    MaxLost = 2
    Losable <- MCLosable
CHECK_DEADLOCK FALSE
INVARIANTS TypeOK FramesInOrder LossIsLocal
