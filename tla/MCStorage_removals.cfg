SPECIFICATION FairSpec
CONSTANTS
    Reqs = {r1, r2}
    Keys = {k1, k2}
    Sizes = {2}
    Ops = {"upload", "remove", "move"}
    QuotaChoices = {1, 3}
    Faults = {"torn", "crash"}
    MaxInFlight = 2
    None = None
PROPERTIES EveryRequestAnswered
CHECK_DEADLOCK FALSE
