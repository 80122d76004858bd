SPECIFICATION FairSpec
CONSTANTS
  Programs <- Emulated
  NWords = 17
  MaxSp = 3
  StackSize = 9
  ReadOnly = {5}
  NoAccess = {7}
  MaxTicks = 1
  WlMax = 5
  MaxInstrs = 7
  MaxDepth = 2
  RestartNmiInsts = 1
  SwapStoreHooked = TRUE
  LengthAfterKSpecEm = FALSE
  LengthAfterSpec = FALSE
  Nmis = FALSE
INVARIANTS
  TypeOK RuntimeReleased AssertsHold DepthMatches HandlerNotSpeculative GuardedFramesIntact
PROPERTIES
  Transparent RollbackExact CheckpointExact Contract SpeculationEnds ThreadFinishes
