SPECIFICATION Spec
CONSTANTS
  c1 = c1
  c2 = c2
  c3 = c3
  None = None
  Callers <- MCCallers
  Scripts <- MCScripts
  PageSize = 2
  LimitTries = 2
  SellTries = 4
  MaxFaults = 1
CHECK_DEADLOCK FALSE
INVARIANTS
  AtMostOnce
  SignedAsSent
  AnswersHold
PROPERTY CallsEnd
