SPECIFICATION UnitSpec
CONSTANTS
  boot = boot k1 = k1 k2 = k2 k3 = k3 k4 = k4 p1 = p1
  none = none noentry = noentry noproc = noproc kernelpd = kernelpd wild = wild
  Thread = {boot, k1, k2, k3}
  BootThread = boot
  NoThread = none
  NoEntry = noentry
  Proc = {p1}
  NoProc = noproc
  KernelPD = kernelpd
  BootProc = {noproc}
  MaxTID = 4
  Creators = {boot}
  Killers = {}
  Irq = {0, 1, 8, 12}
  Mask = {0, 1, 2, 4, 255}
  offset1 = 32
  offset2 = 40
  TrapThread = {0, 1}
  UserThread = {1}
  TrapIrq = {0, 9}
  Exception = {7, 14}
  MaxWords = 18
CHECK_DEADLOCK FALSE
PROPERTY ThreadsProgress
INVARIANT RemapExact
PROPERTY ReturnsWhereInterrupted
PROPERTY TimerServed
