SPECIFICATION HeapSpec
CONSTANTS
  PageFrame = {0, 1, 2, 3}
  NoFrame = NoFrame
  Caller = {boot, other}
  Size = {0, 1, 3, 4, 6}
  PG_SZ = 4
  MaxObject = 2
CHECK_DEADLOCK FALSE
INVARIANT PageAligned
