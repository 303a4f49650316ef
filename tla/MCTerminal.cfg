CONSTANTS
  LINES = 3
  COLUMNS = 4
  SCREEN_END = 18
  Tab = 2
  Seven = 1
  Eight = 2
  NPAR = 2
  Digit = {0, 1, 2, 3, 5, 7}
  MaxPar = 1
  MaxOps = 1
  Reader = {r}
  Writer = {w}
  Group = {r, w}
  Idle = Idle
  TTY_BUF_SIZE = 3
  Room = 2
  Near = 1
  startup = 1
  Request = {3}
  MaxCalls = 2
  MaxTyped = 3
  MaxNest = 2
SPECIFICATION TerminalSpec
INVARIANTS  LinesCounted 
PROPERTIES   WriterServed
CHECK_DEADLOCK FALSE
