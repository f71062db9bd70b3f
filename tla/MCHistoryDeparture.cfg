CONSTANTS
  CIDRs <- TwoRanges
  Macs = {m1}
  NoMac = NoMac
  NoRun = NoRun
  Keep = 2
  MaxScans = 3
  Uses <- OneUser
SPECIFICATION StoreSpec
INVARIANTS
  DepartureReported
CHECK_DEADLOCK FALSE
