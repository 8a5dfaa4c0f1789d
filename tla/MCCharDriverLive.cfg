CONSTANTS
  Slots = 1
  NULL = NULL
  ZeroPtr = ZeroPtr
  NL = NL
  a = a
  Procs = {p1, p2}
  Ptrs = {q1, q2, q3}
  Chunks <- Newline
  ReadCounts = {2}
  Faults = {"read lock", "read copy", "write lock", "write nomem", "write copy new", "write buf lock"}
  MaxEntry = 2
  MaxLeaks = 0
SPECIFICATION FairSpec
PROPERTIES CallsReturn DriverImplementsDevice
CHECK_DEADLOCK FALSE
