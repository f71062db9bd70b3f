CONSTANTS
  NumHosts = 2
  NumPorts = 2
  Concurrency = 2
  Capacity = 1
  Bits = 6
SPECIFICATION Spec
INVARIANTS
  NoSendOnClosed
  FinishedIsLast
  FinalProgress
PROPERTIES
  StreamContract
  ScanCloses
  CancelFreesWorkers
CHECK_DEADLOCK FALSE
