CONSTANTS
  t1 = t1
  m1 = m1
  m2 = m2
  Callers = {t1}
  Messages = {m1, m2}
  MsgLen = 2
  HighWaterMark = 3
  Users <- MCUsers
  MaxQueue = 1
SPECIFICATION PeerReadsSpec
CONSTRAINT Defined
CHECK_DEADLOCK FALSE
INVARIANTS
  StreamIntegrity
  SenderOrder
  WritingIffBuffered
  FlushedBeforeShutdown
  AssertionsHold
PROPERTIES
  ClosedIsReclaimed
  ShutdownCompletes
