CONSTANTS
  t1 = t1
  t2 = t2
  Task <- MCTask
  Nobody = Nobody
  NR_INODE = 4
  NInodes = 4
  NBlocks = 3
  DIR_ENTRIES_PER_BLOCK = 3
  Path <- MCPath
  Common <- MCCommon
  Tree <- MCTree
  MaxCalls = 3
SPECIFICATION Spec
INVARIANTS CountMatchesUsers OneCopy  
CHECK_DEADLOCK FALSE
