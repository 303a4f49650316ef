CONSTANTS
  NR_TASKS = 3
  PAGING_PAGES = 7
  DIRS = 2
  PTRS = 1
  Written = {0}
SPECIFICATION Spec
INVARIANTS PageCounts WritableAlone VerifiedStays
PROPERTIES IsPrivateMemory
CHECK_DEADLOCK FALSE
