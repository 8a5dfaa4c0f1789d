CONSTANTS
  c1 = c1
  c2 = c2
  Main = Main
  NULL = NULL
  NoFile = NoFile
  Clients <- OneClient
  Script <- OneScript
  Builds = {FALSE}
  Capacity = 1
  TimerIds = {id}
  Failures = {"close"}
  MaxSignals = 0
  MaxTicks = 0
  SendBuf = 1
SPECIFICATION FairSpec
PROPERTY ClosedClientEnds
CHECK_DEADLOCK FALSE
