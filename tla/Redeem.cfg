SPECIFICATION Spec
CONSTANTS
  None = None
  Scenarios <- MCScenarios
  RedeemChunk = 2
  ApiRows = 5
  BusyTries = 2
INVARIANTS
  OneRedeem
  ApprovedFirst
PROPERTIES
  PanelCovers
  GateReleased
  AllRedeemed
