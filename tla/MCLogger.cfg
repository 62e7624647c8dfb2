SPECIFICATION Spec
CONSTANTS
  t1 = t1
  t2 = t2
  Threads = {t1, t2}
  Statements <- MCStatements
  MaxClock = 2
  MaxLines = 2
INVARIANTS
  LineIsWhole
  WithinBuffer
CHECK_DEADLOCK FALSE
