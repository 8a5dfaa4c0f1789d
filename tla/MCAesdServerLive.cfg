CONSTANTS
  c1 = c1
  c2 = c2
  Main = Main
  NULL = NULL
  NoFile = NoFile
  Clients <- TwoClients
  Script <- TwoShort
  Builds = {TRUE, FALSE}
  Capacity = 1
  TimerIds = {NULL}
  Failures = {}
  MaxSignals = 1
  MaxTicks = 2
  SendBuf = 1
SPECIFICATION FairSpec
PROPERTIES ClientsServed ShutdownCompletes
CHECK_DEADLOCK FALSE
