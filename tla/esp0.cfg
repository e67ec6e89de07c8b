SPECIFICATION TrapSpec
CONSTANTS
  TrapThread = {0, 1, 2}
  UserThread = {1, 2}
  TrapIrq = {0, 9}
  Exception = {7, 14}
  MaxWords = 18
CHECK_DEADLOCK FALSE
INVARIANT Esp0OfRunning
