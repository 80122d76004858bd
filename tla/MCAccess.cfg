SPECIFICATION Spec
CONSTANTS
  NWords = 6
  Mapped = {1, 2, 3, 4}
  Dummy = 2
  DUMMY_REGION_SIZE = 2
  Validities <- AllValidities
  WRITELOG_MAXLEN = 3
  MaxSize = 3
  Vals = {0, 1}
INVARIANTS TypeOK MemoryExact RedirectContained
CHECK_DEADLOCK FALSE
