SPECIFICATION Spec
CONSTANTS
    Cap = 4
    Buffer = 3
    TagOf <- UniqueTag
INVARIANTS
    TypeOK
    CapacityRespected
    DemandBound
    SingleHolder
    NoLabLost
    AllClosedAtEnd
PROPERTY
    RefinesPool
CHECK_DEADLOCK FALSE
