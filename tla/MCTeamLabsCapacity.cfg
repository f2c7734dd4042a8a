SPECIFICATION Spec
CONSTANTS
    r1 = r1
    r2 = r2
    d1 = d1
    d2 = d2
    n1 = n1
    n2 = n2
    Names = {n1, n2}
    Requests = {r1, r2}
    Boot = boot
    Deleters = {d1}
    Modes = {"NoVPN"}
    Capacity = 1
    LabCount = 1
    Stored = 0
    MaxTeams = 2
    MaxDeletes = 0
CHECK_DEADLOCK FALSE
INVARIANT TeamsWithinCapacity
