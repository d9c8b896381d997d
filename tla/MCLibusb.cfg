SPECIFICATION AllSpec
CONSTANTS
  None = None
  Threads = {"t1", "t2"}
  Closable = {"t1"}
  SyncTransfers = {"s1"}
  AsyncTransfers = {"a1"}
  Timeouts = {1, 2}
  Infinite = 3
  Thread = "t1"
  Handle = "h1"
  Handles = {"h1", "h2"}
  Interfaces = 2
  Configs = {1, 2}
  MaxCalls = 3
  Users = {"u1", "u2", "u3"}
  Sharing = {"u1", "u2"}
  Plugs = {"first", "other"}
  MaxPolls = 1
CHECK_DEADLOCK FALSE
INVARIANTS
  EventsSound
  TransfersSound
  HotplugSound
  LinuxSound
PROPERTY StepsSound
