SPECIFICATION Spec
CONSTANTS
  Programs <- Interrupted
  NWords = 18
  MaxSp = 4
  StackSize = 10
  ReadOnly = {5}
  NoAccess = {7}
  MaxTicks = 1
  WlMax = 16
  MaxInstrs = 30
  MaxDepth = 5
  RestartNmiInsts = 1
  SwapStoreHooked = FALSE
  LengthAfterKSpecEm = TRUE
  LengthAfterSpec = TRUE
  Nmis = TRUE
INVARIANTS
  DepthMatches HandlerNotSpeculative
PROPERTIES
  Contract
