------------------------------ MODULE BootFat -------------------------------
(***************************************************************************)
(* How the bootloader finds and reads KERNEL.BIN (boot/copy_kernel.c,      *)
(* boot/fat.c, copy_bytes in boot/stage2.S).  The disk is a function from  *)
(* sector numbers; files are measured in units, UnitsPerSector of which    *)
(* make a sector, so that a file need not end where a sector does.  The    *)
(* disk is within the 4 GiB that a 32-bit byte address reaches.            *)
(***************************************************************************)
EXTENDS Integers, Sequences, FiniteSets, FiniteSetsExt

CONSTANTS UnitsPerSector, DirentsPerSector, EntriesPerSector, SectorsPerCluster,
          EndOfChain,     \* FAT entries from here on end a chain
          MaskMod,        \* 2^28: a FAT entry has four reserved bits above
          LoSize,         \* 2^16, what cluster_lo of a dirent holds
          Disks

(***************************************************************************)
(* A disk: parts are the four MBR entries, [active, fat32]; the partition  *)
(* begins at sector start and has reserved sectors and fats tables of spf  *)
(* sectors; fat maps a cluster to its entry; dir is the root directory, a  *)
(* sequence of dirents in the clusters of rootChain; "KERNEL" stands for   *)
(* the entry of KERNEL.BIN, with its first cluster and its size; requests  *)
(* are the units of the file at which a boot protocol request begins.      *)
(***************************************************************************)

VARIABLES disk, stale,    \* stale: what the sector buffer holds past the sector
          pc, part, cluster, sector, remaining, last_fat_sector, fatbuf, image, answered

vars == <<disk, stale, pc, part, cluster, sector, remaining, last_fat_sector, fatbuf, image, answered>>

ClusterUnits == SectorsPerCluster * UnitsPerSector
_fat32_mask_entry(c) == c % MaskMod
is_last(c) == _fat32_mask_entry(c) >= EndOfChain

\* Where the layout of FAT32 puts things, counted in sectors.
fat_offset(d) == d.start + d.reserved
data_region_offset(d) == fat_offset(d) + d.fats * d.spf
\* Faulty variant: the first two numbers are not left out.
cluster_data_offset_FromZero(d, c) == data_region_offset(d) + _fat32_mask_entry(c) * SectorsPerCluster
cluster_data_offset(d, c) == data_region_offset(d) + (_fat32_mask_entry(c) - 2) * SectorsPerCluster

\* What the BIOS reads at a sector: the directory, a FAT sector or file data.
DirSector(d, k) == [i \in 1..DirentsPerSector |->
                      LET n == (k - 1) * DirentsPerSector + i
                      IN IF n <= Len(d.dir) THEN d.dir[n] ELSE "end"]
FatSector(d, k) == [i \in 0..(EntriesPerSector - 1) |->
                      LET c == k * EntriesPerSector + i
                      IN IF c \in DOMAIN d.fat THEN d.fat[c] ELSE 0]

\* The first cluster of a dirent, of its two parts: (cluster_hi << 2) | cluster_lo
Bit(x, b) == (x \div 2^b) % 2 = 1
Or(x, y) == MapThenSumSet(LAMBDA b : 2^b, {b \in 0..17 : Bit(x, b) \/ Bit(y, b)})
start_cluster(d) == Or(4 * (d.first \div LoSize), d.first % LoSize)

\* copy_bytes() rounds the length down to sectors but always copies one.
sector_count(n) == IF n \div UnitsPerSector = 0 THEN 1 ELSE n \div UnitsPerSector

-----------------------------------------------------------------------------
Init ==
  /\ disk \in Disks /\ stale \in {"end", "other"}
  /\ pc = "part" /\ part = 0 /\ cluster = 0 /\ sector = 0 /\ remaining = 0
  /\ last_fat_sector = -1 /\ fatbuf = <<>> /\ image = <<>> /\ answered = {}

\* copy_kernel(): the first active FAT32 partition, whose VBR is parsed; valid
\* stands for the assertions in fat32_parse_partition().
Candidates == {i \in 1..4 : disk.parts[i].fat32 /\ disk.parts[i].active}
fat32_parse_partition(valid) ==
  /\ pc = "part"
  /\ IF Candidates = {} \/ ~valid THEN pc' = "halt" /\ UNCHANGED <<part, cluster>>
     ELSE part' = Min(Candidates) /\ cluster' = disk.rootChain[1] /\ pc' = "find"
  /\ UNCHANGED <<disk, stale, sector, remaining, last_fat_sector, fatbuf, image, answered>>

\* One sector of the root directory: as many dirents are looked at as FAT entries
\* would fit, so the scan goes on into what the buffer held before.
Hit(s) == {i \in DOMAIN s : s[i] \in {"end", "KERNEL"}}
Scanned(s) == IF Hit(s) # {} THEN s[Min(Hit(s))] ELSE stale

\* The sectors of the directory, in the order of its chain.
DirIndex(d, c) == CHOOSE k \in DOMAIN d.rootChain : d.rootChain[k] = c

find_file_sector ==
  /\ pc = "find" /\ sector < SectorsPerCluster
  /\ LET k == (DirIndex(disk, cluster) - 1) * SectorsPerCluster + sector + 1
         r == Scanned(DirSector(disk, k))
     IN  CASE r = "KERNEL" ->
                /\ pc' = "read" /\ cluster' = start_cluster(disk) /\ remaining' = disk.size
                /\ UNCHANGED sector
           [] r = "end" -> pc' = "halt" /\ UNCHANGED <<cluster, remaining, sector>>
           [] OTHER -> sector' = sector + 1 /\ UNCHANGED <<pc, cluster, remaining>>
  /\ UNCHANGED <<disk, stale, part, last_fat_sector, fatbuf, image, answered>>

\* The next cluster of the directory; its end is an assertion.
find_file_cluster ==
  /\ pc = "find" /\ sector = SectorsPerCluster
  /\ LET next == FatSector(disk, cluster \div EntriesPerSector)[cluster % EntriesPerSector]
     IN  IF is_last(next) THEN pc' = "halt" /\ UNCHANGED <<cluster, sector>>
         ELSE cluster' = _fat32_mask_entry(next) /\ sector' = 0 /\ UNCHANGED pc
  /\ UNCHANGED <<disk, stale, part, remaining, last_fat_sector, fatbuf, image, answered>>

\* One turn of the loop of fat32_read_file(): a cluster of data, then its FAT
\* sector unless the buffer has it.  The number kept is the whole FAT entry, so that
\* with a reserved bit set the sector is far beyond the table.  Faulty variant: the sector is loaded once.
NeedFat_Once(k) == last_fat_sector = -1
NeedFat(k) == k # last_fat_sector

fat32_read_file ==
  /\ pc = "read"
  /\ LET n == IF ClusterUnits > remaining THEN remaining ELSE ClusterUnits
         at == disk.size - remaining
         k == cluster \div EntriesPerSector
         from == cluster_data_offset(disk, cluster)
         copied == [u \in at..(at + sector_count(n) * UnitsPerSector - 1) |->
                      <<from + (u - at) \div UnitsPerSector, (u - at) % UnitsPerSector>>]
     IN  /\ image' = [u \in DOMAIN image \cup DOMAIN copied |->
                        IF u \in DOMAIN copied THEN copied[u] ELSE image[u]]
         /\ remaining' = remaining - n
         /\ IF NeedFat(k) THEN fatbuf' = FatSector(disk, k) /\ last_fat_sector' = k
            ELSE UNCHANGED <<fatbuf, last_fat_sector>>
         /\ cluster' = fatbuf'[cluster % EntriesPerSector]
  /\ pc' = IF cluster >= MaskMod THEN "astray" ELSE IF ~is_last(cluster') THEN "read"
           ELSE IF remaining' = 0 THEN "requests" ELSE "halt"
  /\ UNCHANGED <<disk, stale, part, sector, answered>>

\* The requests found in the image are answered with the address of the map.
\* Faulty variant: only the first sector is searched.
Needles_FirstSector == 0..(UnitsPerSector - 1)
Needles == 0..(disk.size - 1)
_fulfill_boot_protocol_requests ==
  /\ pc = "requests" /\ pc' = "done"
  /\ answered' = disk.requests \cap DOMAIN image \cap Needles
  /\ UNCHANGED <<disk, stale, part, cluster, sector, remaining, last_fat_sector, fatbuf, image>>

Next ==
  \/ \E valid \in BOOLEAN : fat32_parse_partition(valid)
  \/ find_file_sector \/ find_file_cluster \/ fat32_read_file
  \/ _fulfill_boot_protocol_requests

Spec == Init /\ [][Next]_vars /\ WF_vars(Next)

-----------------------------------------------------------------------------
\* The clusters of KERNEL.BIN, and what it holds at unit u.
Chain(d) ==
  LET at[k \in 1..Cardinality(DOMAIN d.fat)] == IF k = 1 THEN d.first ELSE
        IF is_last(at[k - 1]) THEN at[k - 1] ELSE _fat32_mask_entry(d.fat[at[k - 1]])
  IN  at
Content(d, u) ==
  <<d.start + d.reserved + d.fats * d.spf
      + (Chain(d)[(u \div ClusterUnits) + 1] - 2) * SectorsPerCluster
      + (u % ClusterUnits) \div UnitsPerSector,
    u % UnitsPerSector>>

\* The file ends with a sector, or within the first one of its last cluster.
WholeSectors(d) ==
  LET tail == d.size % ClusterUnits IN tail % UnitsPerSector = 0 \/ tail < UnitsPerSector
Readable(d) == d.first < LoSize /\ WholeSectors(d)

\* "Reads the file pointed to by file_desc and writes it to buf" (fat.h:62): when
\* the loop ends, the image is the file, however its clusters are scattered over
\* the FAT and however the FAT sectors repeat, for files that begin below cluster
\* 2^16 and that copy_bytes() can take ("disk_addr and len are sector-aligned",
\* stage2.S:136).
ImageExact ==
  pc \in {"requests", "done"} /\ Readable(disk) =>
    \A u \in 0..(disk.size - 1) : u \in DOMAIN image /\ image[u] = Content(disk, u)

\* The kernel's request for the memory map is answered before it is started.
RequestsAnswered == pc = "done" /\ Readable(disk) => disk.requests \subseteq answered

\* A KERNEL.BIN listed in the first sector of the root directory of the first
\* bootable partition is found: once the VBR is accepted, it is being read or has been,
\* if it begins below cluster 2^16 and no FAT entry has a reserved bit.
ListedFirst == \E i \in 1..DirentsPerSector : i \in DOMAIN disk.dir /\ disk.dir[i] = "KERNEL"
Unreserved(d) == \A c \in DOMAIN d.fat : d.fat[c] < MaskMod
FoundInFirstSector == (pc = "find" /\ ListedFirst /\ disk.first < LoSize /\ Unreserved(disk)) ~> pc = "done"
=============================================================================
