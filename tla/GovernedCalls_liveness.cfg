SPECIFICATION FairSpec
CONSTANTS
    Approval = {a1}
    Sweeper = {s1, s2}
    Proc = {p1, p2}
    Call = {c1}
    None = None
    MaxAborts = 1
PROPERTIES
    QueueKeepsContract
    OverdueSettles
    LapseIsHeard
    ApprovedIsReported
    RowSettles
CHECK_DEADLOCK FALSE
