CONSTANTS
  NR_TASKS = 4
  MaxPid = 4
  Arguments <- MCArguments
  MaxCalls = 5
SPECIFICATION Spec
INVARIANTS FathersLive NoChildMissed 
PROPERTY KilledDies
CHECK_DEADLOCK FALSE
