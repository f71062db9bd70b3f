CONSTANTS
  NumIPs = 3
  Macs = {m1, m2}
  Answers = Answers
  Named = Named
  Silent = Silent
  NoID = NoID
  NoRecord = NoRecord
  MultiHomed = TRUE
SPECIFICATION LoopSpec
INVARIANTS
  IndexConsistent
  ActiveNeverOverwritten
  DownIsAboutTheOccupant
SYMMETRY MacSymmetry
