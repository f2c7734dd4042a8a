SPECIFICATION FairSpec
CONSTANTS
    Conns = 2
    MaxClicks = 2
    MaxHooks = 1
    LabCount = 2
INVARIANTS
    TypeOK
    ListedOnce
    OneLab
    ConfThere
PROPERTIES
    ResetFreed
CHECK_DEADLOCK FALSE
