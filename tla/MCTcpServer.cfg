CONSTANTS
  l1 = l1
  l2 = l2
  c1 = c1
  c2 = c2
  Loops = {l1, l2}
  Clients = {c1, c2}
  Programs <- MCPrograms
SPECIFICATION Spec
CHECK_DEADLOCK FALSE
INVARIANTS
  FdsOwned
  NoCrossTalk
  AssertionsHold
PROPERTIES
  ClientsAnswered
  ConnectionsReclaimed
  StopReturns
