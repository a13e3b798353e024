SPECIFICATION Spec
CONSTANTS
    Browsers = {b1, b2}
    Sessions = {s1, s2}
    NoSession = none
    Tables = {t1, t2}
    BadTable = bad
    Passwords = {p1, p2}
    NoPassword = empty
    TTL = 2
    MaxOps = 4
    MaxFaults = 2
SYMMETRY Symmetry
INVARIANTS TypeOK DiskStarts EditsKept DataFound
PROPERTY SessionsExpire
CHECK_DEADLOCK FALSE
