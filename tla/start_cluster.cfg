SPECIFICATION Fat32Spec
CONSTANTS
  k1 = k1 k2 = k2 n1 = n1 n2 = n2 n3 = n3 l1 = l1 l2 = l2 l3 = l3 t1 = t1 t2 = t2
  Key = {k1, k2}
  Node = {n1, n2, n3}
  Lease = {l1, l2, l3}
  Thread = {t1, t2}
  None = None
  Hint = {0, 1}
  max_ports = 2
  command_slots_per_port = 2
  prdtes_per_command = 2
  SectorsPerEntry = 4
  PageSectors = 2
  MaxSpin = 2
  Sectors = 4
  MaxReads = 3
  Unset = Unset
  SectorsPerPage = 2
  EntriesPerSector = 2
  DirentsPerSector = 1
  LoSize = 8
  DevSectors = 64
  OffsetMod = 1024
  Offset = {0, 1, 2, 4}
  NameLen = 2
  ExtLen = 1
  Disk <- FatDisks
  Component <- Names
  EndOfChain = 90
  Nothing = Nothing
CHECK_DEADLOCK FALSE
INVARIANT StartClusterIdentifies
