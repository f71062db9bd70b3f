CONSTANTS
  Networks = {"home", "away"}
  Fallback = "home"
  Odd = "odd"
  Junk = "junk"
  Defaults = {22, 445}
  Extras <- MCExtras
  MaxPorts = 2
  Untyped = Untyped
  NoCall = NoCall
  Prompt = TRUE
SPECIFICATION Spec
INVARIANTS
  RangeIsTheUsers
PROPERTIES
  ScansWhatWasChosen
  MonitorGoesOn
