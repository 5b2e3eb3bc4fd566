SPECIFICATION Spec
CONSTANTS
    A = A
    B = B
    a1 = a1
    a2 = a2
    b1 = b1
    h1 = h1
    c1 = c1
    c2 = c2
    k1 = k1
    k2 = k2
    s1 = s1
    s2 = s2
    None = None
    User = {A, B}
    Conv = {c1}
    Dm = {}
    Founders <- MCOnlyA
    Stripe = {s1}
    StripeOf <- MCStripeOf
    Conn = {a1, b1}
    Http = {h1}
    Owner <- MCOwner
    Key = {k1}
    MaxSends = 3
    MaxRemoves = 2
    MaxJoins = 1
    MaxFreezes = 0
    MaxDrops = 0
    MaxFaults = 2
    MaxLosses = 0
    MaxCrashes = 0
INVARIANTS
    AnswersAreTrue
CHECK_DEADLOCK FALSE
