SPECIFICATION FairRtSpec
CONSTANTS
    t1 = t1
    t2 = t2
    t3 = t3
    p1 = p1
    p2 = p2
    Thread = {t1, t2, t3}
    Ticker = {t1, t3}
    Process = {p1, p2}
    ProcOf <- ThreeThreads
    Every = 1
    MaxTime = 2
    MaxCrash = 1
    None = None
PROPERTIES
    SlotsAreApart
    UnracedSaveKeepsRest
    SlotIsServed
CHECK_DEADLOCK FALSE
