CONSTANTS
  NumIPs = 2
  Macs = {m1, m2}
  Answers = Answers
  Named = Named
  Silent = Silent
  NoID = NoID
  NoRecord = NoRecord
  MultiHomed = FALSE
SPECIFICATION LoopSpec
INVARIANTS
  SilentOccupantIsReportedDown
SYMMETRY MacSymmetry
