SPECIFICATION Spec
CONSTANTS
    A = A
    B = B
    a1 = a1
    a2 = a2
    b1 = b1
    None = None
    User = {A, B}
    Conn = {a1, a2}
    Owner <- MCOwner
    Cost = 2
    Burst = 5
    MaxTime = 5
    MaxBacks = 1
INVARIANTS
    RateLimit
PROPERTIES
    RefusalJustified
CHECK_DEADLOCK FALSE
