CONSTANTS
  Conns = {c1, c2}
  Keys = {k1}
  KeyOf <- OneServer
  MaxAgents = 1
  Names = {old, new}
  OldName = old
  Renames = {r1}
  RenameTo <- MCRenameTo
  Probes = {p1}
  ProbeOf <- MCProbeOf
  ReplyBuffer = 1
  MaxCalls = 1
  None = None
  c1 = c1
  c2 = c2
  k1 = k1
  k2 = k2
  r1 = r1
  old = old
  new = new
SPECIFICATION Spec
INVARIANTS TypeOK RegisteredIsLive ProbesSettle
PROPERTIES OnlyOwnEndRemoves SessionsEnd ShutdownCompletes
CHECK_DEADLOCK FALSE
