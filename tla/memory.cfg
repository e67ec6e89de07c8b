SPECIFICATION UnitSpec
CONSTANTS
  MaxFrame = 4
  Frame <- Frames
  Request = {0, 1, 2, 3, 6}
  None = None NULL = NULL
  Layout <- WholeMemory
  PageFrame = {0, 1, 2} NoFrame = NoFrame Caller = {boot} Size = {0, 1, 3, 4, 6} PG_SZ = 4 MaxObject = 4
  Entries = 3 Kernel = 1 Huge = {1} LowPage = {1} HeapFrames = 6 Garbage <- Remains
  Device = {20} UserPage = {1} buf = 7 ChangedPage = {1, 7} MaxPages = 2 io_map_start = 6 io_map_sz = 1
  stack_top = 28 stack_size = 4 File <- FileBytes Image <- Images Valid = {TRUE, FALSE}
  Proc = {p1} MaxFd = 2 MaxOffset = 9 SizeMod = 8 Slot = {v1} Root = 2 Count = {5}
  Tree <- Directories Content <- Bytes5 Path <- Paths Seek <- Seeks
  Dentry <- Places root <- Top Address <- Place null = null
INVARIANT FreeCountExact
PROPERTY PFASpec
PROPERTY AllocExact
INVARIANT UsableRegionsExact
INVARIANT BootMemoryKept
INVARIANT HeapSound
INVARIANT WalkExact
INVARIANT TlbCoherent
INVARIANT ProgramMemoryExact
INVARIANT RefsExact
PROPERTY DescriptorsExact
