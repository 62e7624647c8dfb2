CONSTANTS
  a1 = a1
  a2 = a2
  t1 = t1
  Addrs = {a1, a2}
  Callers = {t1}
  Delays = {0, 2}
  Intervals = {0, 1}
  MaxSeq = 3
  MaxTime = 4
  ShareIds = FALSE
SPECIFICATION Spec
CHECK_DEADLOCK FALSE
SYMMETRY Symmetry
INVARIANTS
  Consistent
  ArmedInTime
  CancelIsFinal
