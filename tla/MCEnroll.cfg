CONSTANTS
  Hub = hub
  Commands = {cli}
  Conns = {a1, a2}
  Codes = {c1, c2}
  Keys = {k1}
  Wrong = Wrong
  None = None
  EnrollTTL = 1
  MaxAttempts = 2
  MaxNow = 2
  MaxOps = 4
  MayFail = TRUE
SPECIFICATION Spec
SYMMETRY Symmetric
INVARIANTS TypeOK TokensAccounted
PROPERTIES SingleUse 
CHECK_DEADLOCK FALSE
