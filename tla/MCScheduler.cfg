CONSTANTS
  NR_TASKS = 4
  MaxPriority = 2
  Nicer = {2}
  Alarmed = {1}
  MaxAlarm = 1
  Forks = TRUE
SPECIFICATION FairSched
INVARIANTS TypeOK
PROPERTIES PickedHasTime NoStarvation AlarmNoticed
