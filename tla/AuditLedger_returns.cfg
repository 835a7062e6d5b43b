SPECIFICATION FairLedgerSpec
CONSTANTS
    Event = {e1, e2}
    Writer = {w1, w2}
    MaxGaps = 1
    MaxTorn = 1
    None = None
INVARIANT EffectIsKept
PROPERTY WriteReturns
CHECK_DEADLOCK FALSE
