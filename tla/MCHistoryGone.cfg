CONSTANTS
  CIDRs <- TwoRanges
  Macs = {m1}
  NoMac = NoMac
  NoRun = NoRun
  Keep = 2
  MaxScans = 3
  Uses <- UserDeletes
SPECIFICATION StoreSpec
PROPERTIES
  EverySuccessIsStored
CHECK_DEADLOCK FALSE
