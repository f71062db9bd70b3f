CONSTANTS
  Ranges <- OneRange
  File = File
  NoRow = NoRow
  MaxScans = 2
  MaxCalls = 2
  MaxOpens = 1
  MaxToggles = 1
  MaxActs = 3
  InOrder = TRUE
SPECIFICATION Spec
INVARIANTS
  RowsAreObserved
CHECK_DEADLOCK FALSE
