SPECIFICATION FairSpec
CONSTANTS
    Ids = {1, 2, 3, 4}
    Batch = 2
    Ticks = {t1, t2}
    Unrecordable = {1, 3}
    MaxFaults = 2
    None = None
INVARIANTS TypeOK NothingLost SentTwiceOnlyAfterFault
PROPERTIES EveryRequestAnswered
CHECK_DEADLOCK FALSE
