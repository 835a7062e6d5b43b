SPECIFICATION FairTurnsSpec
CONSTANTS
    MaxTurns = 2
INVARIANTS
    NewestIsReachable
    FiledWasChecked
PROPERTIES
    AnswerIsFiled
    RelayIsReleased
CHECK_DEADLOCK FALSE
