SPECIFICATION Spec
CONSTANTS
    A = A
    B = B
    C = C
    D = C
    None = None
    User = {A, B, C}
    Thread = {w1}
    Call <- MCCalls
    Start <- MCStrangers
    TTL = 2
    Cooldown = 1
    RateWindow = 1
    MaxPending = 1
    MaxDaily = 3
    MaxEvents = 4
PROPERTIES
    RefusalHolds
CHECK_DEADLOCK FALSE
