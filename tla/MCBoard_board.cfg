SPECIFICATION Spec
CONSTANTS
    LowHigh = 1
    HiLow = 4
    HiHigh = 4
    hitMax = 1
    statsRingSize = 2
    PollBatch = 2
    noResponseLimit = 1
    MaxAsicsInChain = 2
    Readings <- MCReadings
    MinFound = 3
    MaxHits = 2
    Faulty = {0, 1}
    MaxLost = 1
INVARIANTS TypeOK HitsAccounted
PROPERTIES GivenUpRightly HitsCollected
