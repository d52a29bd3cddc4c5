SPECIFICATION TokenSpec
CONSTANTS
    Calls = {r1, r2, r3, r4}
    Addrs = {a1, a2}
    First = a1
    MaxAttempts = 2
    Secure = TRUE
    Nil = Nil
INVARIANTS TokenTypeOK RedeemedOnce
PROPERTIES RedeemedInTime MovedWithConsent
SYMMETRY Symmetry
CHECK_DEADLOCK FALSE
