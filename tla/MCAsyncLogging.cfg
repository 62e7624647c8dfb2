CONSTANTS
  RollSize = 2
  MaxClock = 2
  MaxFailures = 1
  BufferSize = 3
  LineLens = {1, 2}
  MaxPending = 2
  NoticeLen = 1
  MaxLines = 4
SPECIFICATION FairSpec
CHECK_DEADLOCK FALSE
INVARIANTS
  SparesReturn
  LinesInOrder
  HolesAreNoted
PROPERTIES
  EveryLineWritten
  StopReturns
