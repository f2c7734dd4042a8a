SPECIFICATION FairSpec
CONSTANTS
    MaxVersion = 1
    MaxReloads = 1
    MaxDrops = 1
    Updates = {u1}
INVARIANTS
    TypeOK
    ConnectionPerReload
    UpdateAfterOneMore
PROPERTIES
    NoStepBack
    ReloadShown
CHECK_DEADLOCK FALSE
