SPECIFICATION FairSpec
CONSTANTS
    NBoards = 1
    Kinds <- MCKinds
    HbPowerSupport = TRUE
    BusFails = TRUE
    OpenFails = TRUE
CHECK_DEADLOCK FALSE
INVARIANTS TypeOK ResetInterlock CacheInSync
PROPERTIES PoweredUpRight MonitorRight WorkGoesOn
