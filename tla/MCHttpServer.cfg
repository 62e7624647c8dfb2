CONSTANTS
  Requests <- MCRequests
  MaxRequests = 3
SPECIFICATION Spec
CHECK_DEADLOCK FALSE
INVARIANTS
  AnswersMatch
  AnsweredAtOnce
