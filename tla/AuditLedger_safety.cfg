SPECIFICATION LedgerSpec
CONSTANTS
    Event = {e1, e2, e3}
    Writer = {w1}
    MaxGaps = 1
    MaxTorn = 1
    None = None
SYMMETRY MCSymmetry
INVARIANTS
    LossLeavesHole
    NumbersAccounted
    GapsAreTrue
CHECK_DEADLOCK FALSE
