SPECIFICATION Spec
CONSTANTS
    VoutMin = 1
    VSysMin = 1
    VMax = 8
    LowerBy = 3
    RaiseBy <- Steps
    MinThsRate = 1
    OrgTHS = 3
    MaxSleep = 2
    Bogus = FALSE
    BusFails = FALSE
PROPERTIES TargetApplied
