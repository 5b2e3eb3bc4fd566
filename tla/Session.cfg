SPECIFICATION FairSpec
CONSTANTS
    reader = reader
    s1 = s1
    s2 = s2
    small = small
    large = large
    Reader = reader
    Sender = {s1, s2}
    Frame = {small, large}
    Size <- MCSize
    None = None
    MaxFrames = 2
    MaxBytes = 3
    MaxPushes = 4
INVARIANTS
    NothingDropped
    BytesExact
PROPERTIES
    QueueSpec
    StreamSpec
    QuietAfterTeardown
    EveryFrameServed
    WriterEnds
    TeardownEnds
CHECK_DEADLOCK FALSE
