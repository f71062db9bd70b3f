CONSTANTS
  Installed = "v1"
  Release = "v2"
  Damaged = "damaged"
  Platforms = {"linux"}
  Hurried = FALSE
  MaxCrashes = 0
SPECIFICATION Spec
PROPERTIES
  OnlyCompletedSwapsCleaned
