SPECIFICATION Spec
CONSTANTS
  up1 = up1
  down1 = down1
  up2 = up2
  NoToken = NoToken
  Token <- Tokens
  WindowOf <- Windows
  MaxPositions = 1
  LotsPerOrder = 2
  Inner = 1
  Outer = 1
  Scenarios <- SellsOverlap
  MaxRunners = 2
  MaxSells = 1
  MaxReports = 2
  MaxWindow = 1
INVARIANT ExposureWithinCapacity
