SPECIFICATION FairRemSpec
CONSTANTS
    Reminder = {r1, r2, r3}
    Asked = {r1}
    Sender = {s1, s2}
    Commander = {o1}
    Channels = 2
    MaxAttempts = 2
    MaxTime = 1
    MaxCommands = 1
    MaxCuts = 1
    None = None
INVARIANTS
    SeriesGoesOn
    HeardOnce
    MissedWasNotHeard
PROPERTIES
    DueIsSent
CHECK_DEADLOCK FALSE
