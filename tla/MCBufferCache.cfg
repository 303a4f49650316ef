CONSTANTS
  Task = {t1, t2}
  NoTask = NoTask
  NR_BUFFERS = 3
  Block = {1, 2, 3, 4}
  Pinned = {1}
  Written = {1, 2}
  MaxHold = 1
  MaxVersion = 1
  IoErrors = TRUE
SPECIFICATION Spec
SYMMETRY TaskSymmetry
INVARIANTS OneBufferPerBlock CountMatchesUsers FreeListIsRing
  NotMultiplyLocked 
PROPERTIES HeldKeepsBlock
