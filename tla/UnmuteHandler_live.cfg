SPECIFICATION FairSpec
CONSTANTS
    MaxTurns = 1
    MaxDeltas = 2
    MaxUserWords = 1
    ByeTurns = {}
PROPERTIES
    InterruptedTurnStops
    TurnEnds
    PauseIsAnswered
CHECK_DEADLOCK FALSE
