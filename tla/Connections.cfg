SPECIFICATION Spec
CONSTANTS
    A = A
    B = B
    s = s
    t1 = t1
    t2 = t2
    t3 = t3
    t4 = t4
    c1 = c1
    c2 = c2
    c3 = c3
    c4 = c4
    None = None
    User = {A, B}
    Token = {t1, t2, t3, t4}
    State = {s}
    Thread = {w1, w2}
    Conn = {c1, c2, c3, c4}
    Call <- MCCalls
    Open <- MCOpen
    Owner <- MCOwner
    SessionTTL = 2
    PendingTTL = 1
    MaxEvents = 4
SYMMETRY Symmetry
INVARIANTS
    TypeOK
    OnlyTheSignedIn
    EveryDeviceReached
PROPERTIES
    HandedOver
CHECK_DEADLOCK FALSE
