CONSTANTS
  f1 = f1
  f2 = f2
  f3 = f3
  t1 = t1
  t2 = t2
  c1 = c1
  Functors = {f1, f2, f3}
  Callers = {t1, t2}
  Channels = {c1}
  Wakeup = Wakeup
  EventfdMax = 2
SPECIFICATION FairSpec
INVARIANTS
  NoLostWakeup
  NoLostQuit
PROPERTIES
  ImplementsExecutor
  EveryFunctorRuns
  QuitStopsLoop
