SPECIFICATION Spec
CONSTANTS
  r1 = r1
  r2 = r2
  p1 = p1
  Requests = {r1, r2}
  Background = bg
  None = none
  Ports = {p1}
  Interfaces <- OneInterface
  AllowStealing = TRUE
  Reset = TRUE
  CallModes = {"read"}
  Spellings = {"itoa"}
  MaxTries = 0
  MaxSessions = 1
  MaxPaths = 1
SYMMETRY RequestSymmetry
INVARIANT
  AutoReleaseOnlyOnClose
