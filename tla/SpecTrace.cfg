SPECIFICATION Spec
CONSTANTS
  Size = 5
  MaxDepth = 3
INVARIANTS TypeOK TraceExplains
PROPERTIES Contract
