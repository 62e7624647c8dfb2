CONSTANTS
  l1 = l1
  c1 = c1
  c2 = c2
  Loops = {l1}
  Clients = {c1, c2}
  Programs <- MCScarce
SPECIFICATION Spec
CHECK_DEADLOCK FALSE
PROPERTIES
  RefusalEnds
