CONSTANTS
  Addrs = {a1, a2}
  Allowed = {a1}
  ConnLimit = 3
  Period = 2
  MaxFailures = 3
  BanDuration = 2
  MaxBan = 5
  FailureWindow = 2
  SweepEvery = 1
  MaxPending = 3
  MaxTime = 8
SPECIFICATION Spec
INVARIANTS TypeOK ConnectionsLimited FailuresBounded
PROPERTIES BanNeedsBurst EscalatesWithinMemory
CHECK_DEADLOCK FALSE
