CONSTANTS
  Settings = {a, b}
  Blank = Blank
  Versions = {"v1", "v2"}
  ByHand = FALSE
  MaxFaults = 2
  MaxMoves = 1
SPECIFICATION Spec
INVARIANTS
  NeverTruncated
  StatusIsHonest
PROPERTIES
  ProvisionKeepsItsWord
