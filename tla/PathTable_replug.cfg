SPECIFICATION Spec
CONSTANTS
  Ports = {p1, p2}
  MaxDevices = 4
  MaxPaths = 4
INVARIANT
  DifferentDevicesDifferentPaths
