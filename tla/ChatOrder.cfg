SPECIFICATION Spec
CONSTANTS
    A = A
    B = B
    a1 = a1
    a2 = a2
    b1 = b1
    h1 = h1
    c1 = c1
    c2 = c2
    k1 = k1
    k2 = k2
    s1 = s1
    s2 = s2
    None = None
    User = {A, B}
    Conv = {c1}
    Dm = {}
    Founders <- MCOnlyA
    Stripe = {s1}
    StripeOf <- MCStripeOf
    Conn = {a1, a2, b1}
    Http = {h1}
    Owner <- MCOwner
    Key = {k1, k2}
    MaxSends = 2
    MaxRemoves = 2
    MaxJoins = 1
    MaxFreezes = 0
    MaxDrops = 1
    MaxFaults = 0
    MaxLosses = 0
    MaxCrashes = 0
SYMMETRY Symmetry
INVARIANTS
    TypeOK
    OrderedDelivery
    NothingSkipped
    EveryMemberTold
    RemovedMeansTold
    DeleteAfterMessage
    DuplicateMeansDelivered
    DeliveredOncePerKey
PROPERTIES
    CommitsInIdOrder
    ChatSpec
CHECK_DEADLOCK FALSE
