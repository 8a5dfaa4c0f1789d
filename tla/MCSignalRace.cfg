CONSTANTS
  c1 = c1
  c2 = c2
  Main = Main
  NULL = NULL
  NoFile = NoFile
  Clients <- OneClient
  Script <- OneShort
  Builds = {TRUE}
  Capacity = 1
  TimerIds = {id}
  Failures = {}
  MaxSignals = 1
  MaxTicks = 0
  SendBuf = 1
SPECIFICATION FairSpec
PROPERTY SignalEndsAccepting
CHECK_DEADLOCK FALSE
