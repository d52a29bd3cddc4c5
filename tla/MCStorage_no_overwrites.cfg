SPECIFICATION Spec
CONSTANTS
    Reqs = {r1, r2, r3}
    Keys = {k1, k2}
    Sizes = {1}
    Ops = {"upload", "copy"}
    QuotaChoices = {None, 2}
    Faults = {"put"}
    MaxInFlight = 2
    None = None
INVARIANTS AnsweredWriteKept
PROPERTIES BehavesAsOneStore
CHECK_DEADLOCK FALSE
