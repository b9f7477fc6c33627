SPECIFICATION Spec
CONSTANTS
    IDMin = 1
    IDMax = 2
    MaxBurst = 1
    MaxJobs = 4
    MaxReports = 2
    MaxUpdates = 1
INVARIANTS TypeOK ForItsJob SubmittedOnce
PROPERTIES NewestIsMined HitsReachPool
