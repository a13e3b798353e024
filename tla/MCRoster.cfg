CONSTANTS
  Procs = {hub, cli}
  Keys = {k1, k2}
  Names = {n1}
  None = None
  FileThere = FALSE
  MayFail = TRUE
  MaxOps = 3
SPECIFICATION RosterSpec
SYMMETRY Symmetric
INVARIANTS RosterTypeOK NoLostUpdate ChecksAreCurrent
CHECK_DEADLOCK FALSE
