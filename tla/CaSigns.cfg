\* ca signs what it writes.
SPECIFICATION Spec
CONSTANTS
  None = None
  InitDisk <- MCDisk
  Contents <- MCContents
  Lines <- MCLines
  LinesAfter <- MCLinesAfter
  MaxRuns = 3
  HashMax = 2
  Base64Max = 2
INVARIANTS
  CaAlwaysSigns
CHECK_DEADLOCK FALSE
