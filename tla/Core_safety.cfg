SPECIFICATION Spec
CONSTANTS
  r1 = r1
  r2 = r2
  p1 = p1
  Requests = {r1, r2}
  Background = bg
  None = none
  Ports = {p1}
  Interfaces <- BothInterfaces
  AllowStealing = TRUE
  Reset = TRUE
  CallModes = {}
  Spellings = {"itoa", "zero"}
  MaxTries = 3
  MaxSessions = 2
  MaxPaths = 2
SYMMETRY RequestSymmetry
INVARIANTS
  OneSessionPerPath
  SessionsListed
  AcquireStillRight
PROPERTY
  OwnershipSpec
