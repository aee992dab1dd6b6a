SPECIFICATION Spec
CONSTANTS
  Setups <- SomeSetups
  IdCode <- Ids
  ManufBits = 3
  RestBits = 2
  MarkerBits = 3
  MaxDevices = 4
  SprBits = 1
  DataBits = 2
  Calls <- SomeCalls
  NoCall = NoCall
  Failed = Failed
  X = X
  CatchErrors = TRUE
CHECK_DEADLOCK FALSE
INVARIANT
  OperationsStartIdle
