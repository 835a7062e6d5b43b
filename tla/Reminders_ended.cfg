SPECIFICATION RemSpec
CONSTANTS
    Reminder = {r1, r2, r3}
    Asked = {r1}
    Sender = {s1}
    Commander = {o1}
    Channels = 2
    MaxAttempts = 2
    MaxTime = 1
    MaxCommands = 1
    MaxCuts = 0
    None = None
PROPERTIES
    EndedStaysEnded
CHECK_DEADLOCK FALSE
