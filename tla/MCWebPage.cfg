CONSTANTS
  Octets = {1}
  Sights <- MCSights
  None = None
  Inventories <- MCInventories
  Keep = 1
  Requests = {r1, r2}
  Needles = {"up"}
  Auth = TRUE
  MaxPushes = 2
  MaxBeats = 1
  MaxTrouble = 1
  MaxInputs = 1
SPECIFICATION Spec
INVARIANTS
  OneRun
PROPERTIES
  PageConverges
