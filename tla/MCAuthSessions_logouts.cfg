SPECIFICATION Spec
CONSTANTS
    Reqs = {r1, r2, r3, r4}
    Users = {u1, u2}
    JwtExpiry = 1
    Timebox = 2
    MaxTime = 2
    None = None
INVARIANTS SessionTypeOK StaysEnded SessionRefreshable OneUsableToken
PROPERTIES EndsWhatItSays
SYMMETRY Symmetry
CHECK_DEADLOCK FALSE
