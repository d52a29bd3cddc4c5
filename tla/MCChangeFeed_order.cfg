SPECIFICATION Spec
CONSTANTS
    Users = {u1, Anon}
    Anon = Anon
    Service = Service
    NSubs = 2
    MaxChanges = 2
    MaxDdl = 0
    Hook = TRUE
    MaxFaults = 1
    MaxMoves = 0
    None = None
INVARIANTS TypeOK NoOvertaking NoChangeMissed
CHECK_DEADLOCK FALSE
