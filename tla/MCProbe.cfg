CONSTANTS
  NumIPs = 2
  Macs = {m1}
  Answers = Answers
  Named = Named
  Silent = Silent
  NoID = NoID
  NoRecord = NoRecord
  Torn = Torn
  Observable = {m1, Silent}
  Ranges <- EitherRange
  RetryBaseDelay = 5
  RetryMaxDelay = 15
  Keep = 1
  MaxMoves = 2
  MaxFaults = 2
  MaxRestarts = 1
  MaxEdits = 1
  MaxStops = 1
  MaxTrouble = 4
SPECIFICATION Spec
INVARIANTS
  TypeOK
  OwedOrDelivered
PROPERTIES
  NoFalseDown
  Converges
CHECK_DEADLOCK FALSE
