SPECIFICATION FairSpec
CONSTANTS
  up = up
  NoToken = NoToken
  Token <- One
  MaxParallel = 1
  Attempts = 2
  Scenarios <- MCScenarios
  Lot = 2
  MaxTasks = 3
INVARIANTS
  TrippedExits
  Protected
PROPERTIES
  ExitStartsAlone
  ExitReported
