CONSTANTS
  MaxRuns = 3
  ListLimit = 2
  Keep = 2
  Uses <- EitherUse
  NotRead = NotRead
SPECIFICATION ListSpec
INVARIANTS
  SelectorsAreListed
PROPERTIES
  ListConverges
CHECK_DEADLOCK FALSE
