SPECIFICATION Spec
CONSTANTS
  a = a
  b = b
  Task <- Tasks
  Free = Free
  MinShares = 3
  Attempts = 2
  MaxOrders = 4
  MaxBuys = 2
  MaxLot = 3
  FaultSets <- Mixes
SYMMETRY SymmetryOfTasks
CHECK_DEADLOCK FALSE
INVARIANTS
  OneTakeProfit
  LedgerInStep
  Covered
  DuplicatesMerged
