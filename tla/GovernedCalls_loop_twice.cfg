SPECIFICATION Spec
CONSTANTS
    Approval = {a1}
    Sweeper = {s1}
    Proc = {p1, p2}
    Call = {c1, c2}
    None = None
    MaxAborts = 0
INVARIANT LoopRunsOnce
CHECK_DEADLOCK FALSE
