SPECIFICATION FairPairSpec
CONSTANTS
    Code = {k1, k2}
    Wrong = Wrong
    Thread = {t1, t2}
    MaxAttempts = 2
    Limit = 2
    Window = 2
    MaxCrash = 1
    None = None
INVARIANTS
    CodePairsOnce
    EventHasOneRow
    RetryAfterIsRight
PROPERTIES
    WindowReopens
CHECK_DEADLOCK FALSE
