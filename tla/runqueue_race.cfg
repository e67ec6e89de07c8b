SPECIFICATION Spec
CONSTANTS
  boot = boot k1 = k1 k2 = k2
  Head = Head
  None = None
  Thread = {boot, k1, k2}
  BootThread = boot
  Creators = {boot}
INVARIANT EmptyAssertHolds
