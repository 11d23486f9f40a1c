SPECIFICATION FairSpec
CONSTANTS
  up1 = up1
  down1 = down1
  up2 = up2
  NoToken = NoToken
  Token <- Tokens
  WindowOf <- Windows
  MaxPositions = 1
  LotsPerOrder = 2
  Inner = 2
  Outer = 2
  Scenarios <- MCScenarios
  MaxRunners = 2
  MaxSells = 2
  MaxReports = 2
  MaxWindow = 2
INVARIANTS
  WithinCapacity
  ExposureReserved
  LedgerSettled
PROPERTY ReservationReleased
