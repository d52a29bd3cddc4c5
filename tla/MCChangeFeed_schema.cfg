SPECIFICATION Spec
CONSTANTS
    Users = {u1, Anon}
    Anon = Anon
    Service = Service
    NSubs = 1
    MaxChanges = 2
    MaxDdl = 1
    Hook = FALSE
    MaxFaults = 1
    MaxMoves = 1
    None = None
VIEW SchemaView
INVARIANTS RecordWasVisible CachesCurrent
CHECK_DEADLOCK FALSE
