SPECIFICATION MCSpec
CONSTANTS
    FrameSizes = {1, 2, 3}
    Block = 2
    InitialBuffer = 3
    PartialBuffer = 1
    PartialIncrement = 1
    MaxPartial = 3
    DefaultMaxBuffer = 8
    MaxIncrement = 1
    MaxMaxBuffer = 3
    Setups = {s1, s2, s3}
    Pages = 2
    MaxTurns = 2
    MaxQueued = 2
    MaxRequests = 1
INVARIANTS
    LagIsBounded
    HeaderFirst
    InterruptedIsLast
PROPERTIES
    PlaysOn
    InterruptionArrives
CHECK_DEADLOCK FALSE
