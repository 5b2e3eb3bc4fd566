SPECIFICATION FairSpec
CONSTANTS
    A = A
    B = B
    C = C
    D = D
    None = None
    User = {A, B, C, D}
    Thread = {w1, w2}
    Call <- MCCalls
    Start <- MCPairs
    TTL = 2
    Cooldown = 1
    RateWindow = 1
    MaxPending = 1
    MaxDaily = 3
    MaxEvents = 3
INVARIANTS
    TypeOK
    Consent
    PendingBounded
    ToldTruly
PROPERTIES
    EveryCallAnswered
    RowsBelongToOwners
CHECK_DEADLOCK FALSE
