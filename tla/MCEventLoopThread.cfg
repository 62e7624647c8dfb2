CONSTANTS
  f1 = f1
  f2 = f2
  owner = owner
  Functors = {f1, f2}
  Callers = {owner}
  Owner = owner
  Channels = {}
  Wakeup = Wakeup
  EventfdMax = 1
SPECIFICATION ThreadFairSpec
CHECK_DEADLOCK FALSE
INVARIANTS
  OwnerSafe
PROPERTIES
  DestructorReturns
