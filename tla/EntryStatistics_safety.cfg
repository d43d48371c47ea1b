SPECIFICATION Spec
CONSTANTS
    Moments = {m1, m2}
    Journals = {j1, j2}
    Requests = {r1, r2}
    MaxDay = 3
    MaxOps = 4
    None = None
INVARIANTS TypeOK StreaksAgree CountIsRight StreakIsRight
SYMMETRY Symmetry
CHECK_DEADLOCK FALSE
