CONSTANTS
  Slots = 2
  NULL = NULL
  ZeroPtr = ZeroPtr
  NL = NL
  a = a
  Procs = {p1, p2}
  Ptrs = {q1, q2, q3, q4}
  Chunks <- TextsOrNone
  ReadCounts = {2}
  Faults = {"read copy", "write copy new", "write copy append", "write buf lock"}
  MaxEntry = 2
  MaxLeaks = 0
SPECIFICATION Spec
SYMMETRY Same
INVARIANTS TypeOK BlocksOwnedOnce DefinedBehaviour
PROPERTY DriverImplementsDevice
CHECK_DEADLOCK FALSE
