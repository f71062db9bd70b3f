CONSTANTS
  Ranges <- OneAddress
  File = File
  NoRow = NoRow
  MaxScans = 2
  MaxCalls = 2
  MaxOpens = 1
  MaxToggles = 1
  MaxActs = 3
  InOrder = FALSE
SPECIFICATION Spec
INVARIANTS
  RunIsOwn
  CancelReachesTheScan
  UIAgrees
  MonitorAlive
PROPERTIES
  EveryScanEnds
CHECK_DEADLOCK FALSE
