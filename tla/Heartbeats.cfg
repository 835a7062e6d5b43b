SPECIFICATION HbSpec
CONSTANTS
    Worker = {w1, w2}
    Interval = {1, 2}
    Deploys <- MCTwoDeploys
    RetryAfter = 1
    None = None
SYMMETRY MCSymmetry
INVARIANTS
    RunsAlone
    JoinedRunEnded
    SkipIsOwed
PROPERTIES
    RestartKeepsChoice
CHECK_DEADLOCK FALSE
