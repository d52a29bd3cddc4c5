SPECIFICATION Spec
CONSTANTS
    Runs = {p1, p2, p3}
    NFiles = 2
    NTables = 2
    MaxFaults = 1
    None = None
INVARIANTS TypeOK AppliedOnceInOrder BaselineHonest
SYMMETRY Symmetry
CHECK_DEADLOCK FALSE
