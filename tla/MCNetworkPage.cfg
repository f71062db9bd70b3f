CONSTANTS
  Octets = {1, 7, 9}
  Targets = {1, 9}
  Sights <- MCSights
  Files <- MCFiles
  None = None
  Needles = {"printer"}
  LeastCapacity = 2
  MaxReports = 2
  MaxInputs = 3
SPECIFICATION Spec
INVARIANTS
  DetailIsAboutItsDevice
  OnlyRealLosses
  MapFollows
  ArrowsWalk
  SceneRests
PROPERTIES
  SelectionSurvives
CHECK_DEADLOCK FALSE
