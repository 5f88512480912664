SPECIFICATION FairSpec
CONSTANTS
    Removers = {r1, r2}
    StartPackets = 2
    AudioBuffer = 1
    MaxItems = 3
    MaxTime = 4
INVARIANTS
    NothingHeldBack
    OnlyServerFailsSend
PROPERTIES
    InOrder
    ShutdownReturns
    IterationEnds
CHECK_DEADLOCK FALSE
