SPECIFICATION Spec
CONSTANTS
    Reqs = {r1, r2, r3}
    Keys = {k1, k2}
    Sizes = {1, 2}
    Ops = {"upload", "upsert"}
    QuotaChoices = {2, 3}
    Faults = {"torn"}
    MaxInFlight = 2
    None = None
SYMMETRY Symmetry
INVARIANTS TypeOK RowsMatchBytes
PROPERTIES GrowthWithinCheckedQuota
CHECK_DEADLOCK FALSE
