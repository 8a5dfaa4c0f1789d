CONSTANTS
  Slots = 1
  NULL = NULL
  ZeroPtr = ZeroPtr
  NL = NL
  a = a
  Procs = {p1}
  Ptrs = {q1, q2, q3}
  Chunks <- Texts
  ReadCounts = {1}
  Faults = {"write copy append"}
  MaxEntry = 2
  MaxLeaks = 0
SPECIFICATION Spec
INVARIANT EntryStoresItsBytes
CHECK_DEADLOCK FALSE
