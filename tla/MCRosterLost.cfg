CONSTANTS
  Procs = {hub, cli}
  Keys = {k1, k2}
  Names = {n1}
  None = None
  FileThere = TRUE
  MayFail = FALSE
  MaxOps = 3
SPECIFICATION RosterSpec
SYMMETRY Symmetric
INVARIANT AdditionsSurvive
CHECK_DEADLOCK FALSE
