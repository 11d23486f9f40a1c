SPECIFICATION Spec
CONSTANTS
  up = up
  down = down
  Pair <- Tokens
  NoValue = NoValue
  MinShares = 5000
  BumpLimit = 20
  Below <- FloatsBelow
  Above <- FloatsAbove
  Intents <- AllIntents
  QuirkSets <- Alone
CHECK_DEADLOCK FALSE
INVARIANTS
  AsAsked
  TakeProfitEarns
  AckIsFill
  RowsRight
  PositionIsWallet
