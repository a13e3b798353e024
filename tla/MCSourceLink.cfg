CONSTANTS
  Readers = {r1, r2}
  Sockets = {s1, s2}
  Players = {p1, p2}
  NoConn = NoConn
  MaxFaults = 3
SPECIFICATION Spec
INVARIANTS TypeOK OneReader AnnouncedTruth
PROPERTY SourceRecovers
CHECK_DEADLOCK FALSE
