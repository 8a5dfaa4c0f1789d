CONSTANTS
  Slots = 3
  NULL = NULL
  Pointers = {p1, p2, p3}
  Sizes = {1, 3}
  Entries <- MCEntries
SPECIFICATION Spec
INVARIANTS TypeOK OffsetsAgree FindIsIndexing
PROPERTY RingIsRecentList
