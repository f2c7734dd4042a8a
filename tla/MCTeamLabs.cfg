SPECIFICATION Spec
CONSTANTS
    r1 = r1
    r2 = r2
    d1 = d1
    d2 = d2
    n1 = n1
    n2 = n2
    Names = {n1, n2}
    Requests = {r1}
    Boot = boot
    Deleters = {d1}
    Modes = {"NoVPN", "VPN", "VPNBrowser"}
    Capacity = 2
    LabCount = 2
    Stored = 2
    MaxTeams = 3
    MaxDeletes = 1
SYMMETRY Interchangeable
CHECK_DEADLOCK FALSE
INVARIANTS
    TypeOK
    ExclusiveLabs
    ConnectionMatches
PROPERTY LabKept
