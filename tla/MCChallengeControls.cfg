SPECIFICATION FairSpec
CONSTANTS
    c1 = c1
    c2 = c2
    p1 = p1
    Sessions = {s1, s2}
    Chals = {c1, c2}
    Exercises = {p1}
    ParentOf <- OneExercise
    MaxReqs = 2
    MaxLost = 1
INVARIANTS
    TypeOK
    ListMatchesMachines
    OnePerButton
PROPERTIES
    ButtonFreed
    SolvedDisabled
CHECK_DEADLOCK FALSE
