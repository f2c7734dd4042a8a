SPECIFICATION Spec
CONSTANTS
    r1 = r1
    r2 = r2
    d1 = d1
    d2 = d2
    n1 = n1
    n2 = n2
    Names = {n1}
    Requests = {r1}
    Boot = boot
    Deleters = {d1, d2}
    Modes = {"NoVPN"}
    Capacity = 2
    LabCount = 2
    Stored = 2
    MaxTeams = 3
    MaxDeletes = 2
SYMMETRY Interchangeable
CHECK_DEADLOCK FALSE
INVARIANTS
    NamesMatchTeams
    ExclusiveLabs
