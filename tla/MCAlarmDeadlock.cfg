CONSTANTS
  c1 = c1
  c2 = c2
  Main = Main
  NULL = NULL
  NoFile = NoFile
  Clients <- OneClient
  Script <- OneScript
  Builds = {FALSE}
  Capacity = 1
  TimerIds = {id}
  Failures = {}
  MaxSignals = 0
  MaxTicks = 2
  SendBuf = 1
SPECIFICATION Spec
INVARIANT HandlerCanLock
CHECK_DEADLOCK FALSE
