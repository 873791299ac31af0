CONSTANTS
    c1 = c1
    c2 = c2
    p = p
    q = q
    t1 = t1
    None = None
    Ids = {c1, c2}
    Staff = {p, q}
    Tables = {t1}
    MAX_PLAYERS = 2
SPECIFICATION Spec
INVARIANTS OneCroupier
CHECK_DEADLOCK FALSE
