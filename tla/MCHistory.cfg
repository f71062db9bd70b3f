CONSTANTS
  CIDRs <- TwoRanges
  Macs = {m1}
  NoMac = NoMac
  NoRun = NoRun
  Keep = 2
  MaxScans = 4
  Uses <- AnyUse
SPECIFICATION StoreSpec
PROPERTIES
  StoresChanges
  SuccessMeansStored
  ChangeIsVisible
CHECK_DEADLOCK FALSE
