CONSTANTS
  c1 = c1
  c2 = c2
  Main = Main
  NULL = NULL
  NoFile = NoFile
  Clients <- TwoClients
  Script <- TwoScripts
  Builds = {TRUE, FALSE}
  Capacity = 1
  TimerIds = {NULL}
  Failures = {"reset"}
  MaxSignals = 1
  MaxTicks = 1
  SendBuf = 1
SPECIFICATION Spec
INVARIANTS TypeOK LockMatchesFile WorkersAccounted PacketsContiguous StoppedIsClean
PROPERTY FileIsPacketLog
CHECK_DEADLOCK FALSE
