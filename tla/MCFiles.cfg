SPECIFICATION Spec
CONSTANTS
  Task = {t1, t2}
  NR_OPEN = 2
  NR_FILE = 2
  Pipe = {1}
  PAGE_SIZE = 4
  Byte = {0, 1}
  Message <- MCMessage
  MaxCount = 2
SYMMETRY TaskSymmetry
INVARIANTS FileCounts PipeEnds NoIdleSleeper
PROPERTIES PipeIsFifo
CHECK_DEADLOCK FALSE
