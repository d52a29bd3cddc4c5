SPECIFICATION Spec
CONSTANTS
    Reqs = {r1, r2, r3}
    Uploads = {u1, u2}
    Length = 3
    Upserts = {FALSE, TRUE}
    Faults = {"put", "crash"}
    None = None
SYMMETRY Symmetry
INVARIANTS TypeOK OffsetReceived StoredKept
 
CHECK_DEADLOCK FALSE
