CONSTANTS
  Task = {t1, t2, t3}
  UQueue = {q1, q2}
  IQueue = {i1}
  Spare = {q2}
  NoTask = NoTask
SPECIFICATION RegimeSpec
INVARIANTS NoLostSleeper ChainSound
PROPERTIES IsWaitSet
