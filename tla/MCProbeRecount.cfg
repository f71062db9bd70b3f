CONSTANTS
  NumIPs = 2
  Macs = {m1, m2}
  Answers = Answers
  Named = Named
  Silent = Silent
  NoID = NoID
  NoRecord = NoRecord
  Torn = Torn
  Observable = {m1, m2, Silent}
  Ranges <- WholeNetwork
  RetryBaseDelay = 5
  RetryMaxDelay = 15
  Keep = 2
  MaxMoves = 2
  MaxFaults = 2
  MaxRestarts = 0
  MaxEdits = 0
  MaxStops = 0
  MaxTrouble = 4
SPECIFICATION Spec
PROPERTIES
  KnownDeviceIsUpdate
CHECK_DEADLOCK FALSE
