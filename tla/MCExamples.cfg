CONSTANTS
  WriteStr <- Text
  OldFile = OldFile
  ArgCounts = {2, 3}
  MaxEINTR = 2
  Starts = {t1, t2}
  NoThread = NoThread
  MaxCalls = 3
SPECIFICATION Spec
INVARIANTS StatusTellsFile FailureTellsMutex ResultTellsCommand
PROPERTIES WriterExits ThreadsEnd
CHECK_DEADLOCK FALSE
