SPECIFICATION Spec
CONSTANTS
    MaxTurns = 2
    MaxDeltas = 1
    MaxUserWords = 1
    ByeTurns = {1}
INVARIANTS
    HitsItsTurn
    MessagePerTurn
    NoStaleVoice
    AnswersTheUser
PROPERTIES
    TakesTurns
CHECK_DEADLOCK FALSE
