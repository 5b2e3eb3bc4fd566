SPECIFICATION FairSpec
CONSTANTS
    A = A
    B = B
    a1 = a1
    a2 = a2
    b1 = b1
    h1 = h1
    c1 = c1
    c2 = c2
    k1 = k1
    k2 = k2
    s1 = s1
    s2 = s2
    None = None
    User = {A, B}
    Conv = {c1, c2}
    Dm = {c1}
    Founders <- MCDmAndA
    Stripe = {s1, s2}
    StripeOf <- MCStripeOf
    Conn = {a1}
    Http = {h1}
    Owner <- MCOwner
    Key = {k1}
    MaxSends = 2
    MaxRemoves = 1
    MaxJoins = 1
    MaxFreezes = 1
    MaxDrops = 0
    MaxFaults = 1
    MaxLosses = 1
    MaxCrashes = 1
INVARIANTS
    AckMeansStored
PROPERTIES
    EveryRequestAnswered
CHECK_DEADLOCK FALSE
