SPECIFICATION Spec
CONSTANTS
  up = up
  NoToken = NoToken
  Token <- One
  MaxParallel = 1
  Attempts = 2
  Scenarios <- StopOverlaps
  Lot = 2
  MaxTasks = 2
PROPERTY StopLossOwnsExit
