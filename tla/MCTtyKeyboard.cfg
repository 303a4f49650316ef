CONSTANTS
  Reader = {r}
  Writer = {w}
  Group = {r, w}
  Idle = Idle
  TTY_BUF_SIZE = 3
  Room = 2
  Near = 1
  startup = 1
  Request = {3}
  MaxCalls = 2
  MaxTyped = 2
  MaxNest = 1
SPECIFICATION Spec
PROPERTY KeyboardInterruptsWork
CHECK_DEADLOCK FALSE
