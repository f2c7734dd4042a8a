SPECIFICATION Spec
CONSTANTS
    Cap = 1
    Buffer = 2
    TagOf <- UniqueTag
INVARIANT CapacityRespected
CHECK_DEADLOCK FALSE
