SPECIFICATION Spec
CONSTANTS
  Programs <- DeepCallee
  NWords = 18
  MaxSp = 4
  StackSize = 10
  ReadOnly = {5}
  NoAccess = {7}
  MaxTicks = 0
  WlMax = 16
  MaxInstrs = 30
  MaxDepth = 5
  RestartNmiInsts = 1
  SwapStoreHooked = TRUE
  LengthAfterKSpecEm = FALSE
  LengthAfterSpec = FALSE
  Nmis = FALSE
INVARIANTS
  SparesInUse
