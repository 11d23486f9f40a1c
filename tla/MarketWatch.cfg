SPECIFICATION Spec
CONSTANTS
  None = None
  btc = btc
  eth = eth
  Assets = {btc, eth}
  Window <- MCWindow
  Day = 2
  Noon = 1
  DownFirst = {eth}
  EventCap = 2
  MarketCap = 1
  MaxBooks = 4
  Scenarios <- MCScenarios
INVARIANTS
  HoldersOfShown
PROPERTIES
  RollsForward
  MarketShown
  BooksFollow
  UserChannelFollows
  SpotFollows
  PriceToBeatFollows
CHECK_DEADLOCK FALSE
