SPECIFICATION FairSpec
CONSTANTS
    often = often
    secs = secs
    Jobs = {often, secs}
    Period <- MCPeriod
    Matching <- MCMatching
    Ticks = {t1, t2}
    MaxRestarts = 1
    MinuteLength = 2
    MaxTime = 3
    None = None
INVARIANTS TypeOK OncePerMinuteInTurn NoMinuteMissed StopDrainsInTurn
PROPERTIES StopReturns
CHECK_DEADLOCK FALSE
