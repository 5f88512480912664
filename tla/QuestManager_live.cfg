SPECIFICATION Spec
CONSTANTS
    recv = recv
    qstt = qstt
    qllm1 = qllm1
    qllm2 = qllm2
    qllm3 = qllm3
    qtts1 = qtts1
    qtts2 = qtts2
    qtts3 = qtts3
    NoQuest = NoQuest
    Quests = {qstt, qllm1, qtts1}
    Tasks = {recv}
    Names <- MCNames
    NameOf <- MCNameOf
    HasClose <- MCHasClose
    MadeBy <- CodeMadeBy
    RemovedBy <- CodeRemovedBy
INVARIANTS
    LeavesAllClosed
PROPERTIES
    FailureSurfaces
CHECK_DEADLOCK FALSE
