SPECIFICATION Spec
CONSTANTS
    Cap = 3
    Buffer = 3
    TagOf <- UniqueTag
INVARIANT WorkersFinished
CHECK_DEADLOCK FALSE
