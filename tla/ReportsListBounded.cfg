SPECIFICATION Spec
CONSTANTS
  Ips = {i1, i2}
  AccessTypes = {MDS_ACCESS, KASAN_ACCESS}
  BugsListSize = 2
  MaxReports = 4
  MaxWindows = 2
  MaxDepth = 1
  PrintLevels = {"DEFAULT"}
INVARIANT
  ListBounded
