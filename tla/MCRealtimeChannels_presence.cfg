SPECIFICATION Spec
CONSTANTS
    Conns = {c1, c2}
    Msgs = {m1, m2, m3}
    Keys = {k1, k2}
    Tokens = {t1, t2}
    Readers = {t1}
    MaxRefs = 2
    None = None
INVARIANTS TypeOK PresenceMirrored PresenceTruthful NewestTokenInForce
SYMMETRY Symmetry
CHECK_DEADLOCK FALSE
