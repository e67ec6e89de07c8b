SPECIFICATION Spec
CONSTANTS
  boot = boot k1 = k1 k2 = k2 k3 = k3 k4 = k4 p1 = p1
  none = none noentry = noentry noproc = noproc kernelpd = kernelpd wild = wild
  Thread = {boot, k1, k2, k3}
  BootThread = boot
  NoThread = none
  NoEntry = noentry
  Proc = {p1}
  NoProc = noproc
  KernelPD = kernelpd
  BootProc = {noproc, wild}
  MaxTID = 3
  Creators = {boot}
  Killers = {}
SYMMETRY KernelThreads
CHECK_DEADLOCK FALSE
INVARIANT KnownPageDirectory
