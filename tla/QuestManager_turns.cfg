SPECIFICATION Spec
CONSTANTS
    recv = recv
    qstt = qstt
    qllm1 = qllm1
    qllm2 = qllm2
    qllm3 = qllm3
    qtts1 = qtts1
    qtts2 = qtts2
    qtts3 = qtts3
    NoQuest = NoQuest
    Quests = {qllm1, qllm2, qllm3, qtts1, qtts2, qtts3}
    Tasks = {recv}
    Names <- MCNames
    NameOf <- MCNameOf
    HasClose <- MCHasClose
    MadeBy <- CodeMadeBy
    RemovedBy <- CodeRemovedBy
INVARIANTS
    NoOrphan
    NoLeak
CONSTRAINT ThreeTurns
CHECK_DEADLOCK FALSE
