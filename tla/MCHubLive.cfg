SPECIFICATION FairSpec
CONSTANTS
    Cap = 3
    Buffer = 2
    TagOf <- UniqueTag
INVARIANTS
    CapacityRespected
    DemandBound
PROPERTIES
    ShutdownCompletes
    Replenished
CHECK_DEADLOCK FALSE
