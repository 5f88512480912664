SPECIFICATION MCSpec
CONSTANTS
    UserWords = {"u"}
    BotWords = {"b"}
    MaxMessages = 5
    MaxWords = 3
    Letters = {"x", "y"}
    MaxChunk = 3
    MaxText = 5
    MaxNMessages = 5
    MaxTurns = 3
    MaxWire = 2
    MaxDisturbed = 1
INVARIANTS
    ContextShape
    ContextKeepsWords
    DashOnlyIfContinued
    WholeWords
    PastIsDeleted
    RightTimes
CHECK_DEADLOCK FALSE
