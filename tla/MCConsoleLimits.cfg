SPECIFICATION Spec
CONSTANTS
    Browsers = {b1, b2}
    Sessions = {s1, s2}
    NoSession = none
    Tables = {t1, t2}
    BadTable = bad
    Passwords = {p1, p2}
    NoPassword = empty
    TTL = 1
    MaxOps = 4
    MaxFaults = 1
SYMMETRY Symmetry
INVARIANT OffStaysOff
CHECK_DEADLOCK FALSE
