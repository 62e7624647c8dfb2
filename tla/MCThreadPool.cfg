CONSTANTS
  w1 = w1
  w2 = w2
  p1 = p1
  p2 = p2
  x1 = x1
  x2 = x2
  x3 = x3
  x4 = x4
  Workers = {w1, w2}
  Producers = {p1, p2}
  Tasks = {x1, x2, x3, x4}
  MaxQueueSize = 2
  Nested = TRUE
SPECIFICATION FairSpec
CHECK_DEADLOCK FALSE
INVARIANTS
  NoIdleWorker
  NoIdleSlot
PROPERTIES
  StopReturns
  EveryTaskRuns
