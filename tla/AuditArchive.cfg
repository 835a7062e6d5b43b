SPECIFICATION ArchiveSpec
CONSTANTS
    r1 = r1
    r2 = r2
    b1 = b1
    d1 = d1
    d2 = d2
    Row = {r1, r2}
    Db = {b1}
    DbOf <- OneDbOf
    Root = {d1, d2}
    Serves <- TwoServe
    Run = {n1, n2, n3}
    MonthOf <- MCMonthOf
    MaxGen = 2
    None = None
SYMMETRY MCSymmetry
INVARIANTS
    MarkerIsTrue
    NothingLost
    CopyInOnePlace
CHECK_DEADLOCK FALSE
