CONSTANTS
  Ranges <- OneRange
  File = File
  NoRow = NoRow
  MaxScans = 2
  MaxCalls = 2
  MaxOpens = 0
  MaxToggles = 0
  MaxActs = 3
  InOrder = TRUE
SPECIFICATION Spec
INVARIANTS
  ButtonShowsTheScan
CHECK_DEADLOCK FALSE
