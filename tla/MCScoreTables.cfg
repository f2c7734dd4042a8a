SPECIFICATION Spec
CONSTANTS
    c1 = c1
    c2 = c2
    c3 = c3
    web = web
    crypto = crypto
    Teams = {t1, t2}
    MaxEntries = 4
    TagOf <- FourEntries
    CategoryOf <- Category
    PointsOf <- Points
    MaxSolves = 3
INVARIANTS
    ColumnsAligned
    RankedByScore
    GraphEndsAtScore
    GroupsAgree
SYMMETRY Interchangeable
CHECK_DEADLOCK FALSE
