SPECIFICATION ProcessSpec
CONSTANTS
  PG_SZ = 4
  stack_top = 28
  stack_size = 4
  File <- FileBytes
  Image <- Images
  Valid = {TRUE, FALSE}
CHECK_DEADLOCK FALSE
INVARIANT FilePagesExact
