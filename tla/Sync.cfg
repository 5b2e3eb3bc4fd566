SPECIFICATION Spec
CONSTANTS
    None = None
    Page = 1
    Overlap = 2
    Late = 1
    MaxId = 3
    MaxTime = 1
    MaxLosses = 2
INVARIANTS
    NoHoles
    MoreIsTrue
    NoneMissed
    CaughtUp
CHECK_DEADLOCK FALSE
