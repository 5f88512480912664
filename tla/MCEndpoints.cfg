SPECIFICATION MCSpec
CONSTANTS
    r1 = r1
    r2 = r2
    Requests = {r1, r2}
    Length = 2
    Delay = 1
    MaxBatches = 2
    Capacity = 1
    Processes = {p1, p2}
    Submissions = {a, b}
    Minutes = 1
    Hour = 2
    Horizon = 3
INVARIANTS
    WholeAnswer
    OkIsKept
PROPERTIES
    AudioAnswerComes
    SpentOnce
    SharedAnHour
CHECK_DEADLOCK FALSE
