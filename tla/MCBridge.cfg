SPECIFICATION AllSpec
CONSTANTS
  Ports = {p1, p2}
  MaxDevices = 4
  MaxPaths = 4
  HasDriver = {0}
  Interfaces = {0, 1}
  MaxTries = 1
  MaxHandles = 3
  HidThreads = {"t1", "t2", "t3"}
  HidrawThreads = {"t1", "t2"}
  HidHandles = 2
  PacketLen = 11
  Sizes = {0, 2, 3, 12, 13}
  MaxMessages = 2
  ListenDevices = {"d1", "d2"}
  IterMax = 3
  IterDelay = 500
  MaxChanges = 5
  StartCount = 2
  MaxLineCount = 3
  MaxWrites = 12
CHECK_DEADLOCK FALSE
INVARIANTS
  TypeOK
  IdNamesOnePort
  RetiredStaysRetired
  PathIsUnique
  BusSound
  HidSound
  MessagesSound
  ValidationSound
  LogSound
PROPERTY StepsSound
