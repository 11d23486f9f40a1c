SPECIFICATION FairSpec
CONSTANTS
  t1 = t1
  t2 = t2
  t3 = t3
  t4 = t4
  t5 = t5
  o1 = o1
  o2 = o2
  o3 = o3
  o4 = o4
  NoTrade = NoTrade
  Trade <- MCTrade
  Order <- MCOrder
  OrderOf <- MCOrderOf
  Qty <- MCQty
  SideOf <- MCSide
  WindowOf <- MCWindow
  TakerTrade <- MCTakerTrade
  Scenarios <- MCScenarios
  MaxWindow = 2
  ChanCap = 2
  MaxWait = 2
INVARIANTS
  FillRowsOnce
  NoCrossedSlots
  SettledExact
  SettledNotShort
PROPERTY AckBooked
