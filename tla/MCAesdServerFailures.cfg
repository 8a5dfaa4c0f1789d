CONSTANTS
  c1 = c1
  c2 = c2
  Main = Main
  NULL = NULL
  NoFile = NoFile
  Clients <- OneClient
  Script <- OneScript
  Builds = {TRUE, FALSE}
  Capacity = 1
  TimerIds = {id, NULL}
  Failures = {"start", "socket", "memory", "thread", "file", "space", "timer", "close", "reset"}
  MaxSignals = 2
  MaxTicks = 2
  SendBuf = 1
SPECIFICATION Spec
INVARIANTS LockMatchesFile StoppedIsClean
PROPERTY FileIsPacketLog
CHECK_DEADLOCK FALSE
