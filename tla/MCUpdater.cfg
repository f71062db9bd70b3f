CONSTANTS
  Installed = "v1"
  Release = "v2"
  Damaged = "damaged"
  Platforms = {"linux", "windows", "darwin"}
  Hurried = FALSE
  MaxCrashes = 1
SPECIFICATION Spec
INVARIANTS
  NeverEmpty
PROPERTIES
  FailedSwapKeepsACopy
  UpdateCompletes
