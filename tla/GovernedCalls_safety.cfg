SPECIFICATION Spec
CONSTANTS
    Approval = {a1}
    Sweeper = {s1}
    Proc = {p1, p2}
    Call = {c1, c2}
    None = None
    MaxAborts = 1
SYMMETRY MCSymmetry
INVARIANTS
    DeferredRunsOnce
    RunsOnlyApproved
    EffectHasRow
    CompletedDidRun
    NoOrphanRow
    ToldTheTruth
PROPERTIES
    OpenApprovalStops
    CallsKeepContract
CHECK_DEADLOCK FALSE
