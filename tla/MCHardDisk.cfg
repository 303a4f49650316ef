CONSTANTS
  Task = {t1, t2, t3}
  Block = {1, 2, 3}
  NR_REQUEST = 2
  MAX_ERRORS = 1
  Cmd = {"WIN_READ", "WIN_WRITE"}
  Fault = {"error", "no_drq"}
SPECIFICATION Spec
SYMMETRY TaskSymmetry
INVARIANTS  HandlerMatchesCommand HalvesMatchSectors
CHECK_DEADLOCK FALSE
