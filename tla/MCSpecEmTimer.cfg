SPECIFICATION Spec
CONSTANTS
  Programs <- Limited
  NWords = 17
  MaxSp = 3
  StackSize = 9
  ReadOnly = {5}
  NoAccess = {7}
  MaxTicks = 1
  WlMax = 8
  MaxInstrs = 5
  MaxDepth = 2
  RestartNmiInsts = 1
  SwapStoreHooked = TRUE
  LengthAfterKSpecEm = FALSE
  LengthAfterSpec = TRUE
  Nmis = FALSE
PROPERTIES
  TimerHandled
