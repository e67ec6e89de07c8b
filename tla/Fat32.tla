-------------------------------- MODULE Fat32 -------------------------------
(***************************************************************************)
(* The FAT32 driver (fs/drivers/fat32.cc) on the page cache's lease of one *)
(* global buffer (fs/page_cache.cc): finding the partition and its regions,*)
(* looking a name up in a directory, and finding the page of the device    *)
(* that holds a page of a file.  A file is the entry of it in the root     *)
(* directory, with its true chain of clusters and size.  Device addresses, *)
(* sizes and offsets are in sectors, disk.spc of which are a cluster.      *)
(* fat_pc ends at a failed assertion and where the code leaves the model:  *)
(* "overrun" of the buffer, "astray" at a page it did not mean to read.    *)
(***************************************************************************)
EXTENDS Integers, Sequences, FiniteSetsExt

CONSTANTS SectorsPerPage,              \* PG_SZ / 512
          EntriesPerSector,            \* FAT entries in a sector
          DirentsPerSector,
          LoSize,                      \* 2^16, what cluster_lo of an entry holds
          DevSectors,                  \* 2^23, what a 32-bit byte address reaches
          OffsetMod,                   \* 2^55, what a 64-bit offset in a file reaches
          NameLen, ExtLen,             \* 8 and 3 in the code
          Disk,                        \* disks to consider
          Component,                   \* names to look up
          Offset,                      \* places in a file to read from
          EndOfChain, Nothing

\* A chain of clusters, as the file allocation table links it.
Linked(fat, c) ==
  /\ c \in Seq(2..(EndOfChain - 1)) /\ c # << >>
  /\ \A k \in 1..(Len(c) - 1) : c[k] \in DOMAIN fat /\ fat[c[k]] = c[k + 1]

\* What formatting and mounting a disk guarantees: the chains of the root directory
\* and of the files are linked, the directory's ends and has no cluster twice, and
\* they hold what they should; a file without clusters is empty.
ASSUME DiskAssumption ==
  /\ SectorsPerPage \in Nat \ {0} /\ EntriesPerSector \in Nat \ {0} /\ DirentsPerSector \in Nat \ {0}
  /\ LoSize \in Nat \ {0} /\ DevSectors \in Nat /\ OffsetMod \in Nat /\ Offset \subseteq 0..(OffsetMod - 1)
  /\ EndOfChain \in Nat
  /\ \A d \in Disk :
       /\ DOMAIN d.parts \subseteq Nat
       /\ \A i \in DOMAIN d.parts : LET p == d.parts[i]
                                    IN  p.start \in Nat /\ p.reserved \in Nat /\ p.fats \in Nat /\ p.spf \in Nat
       /\ d.spc \in Nat \ {0}
       /\ Linked(d.fat, d.chain)
       /\ d.chain[Len(d.chain)] \in DOMAIN d.fat /\ d.fat[d.chain[Len(d.chain)]] >= EndOfChain
       /\ \A i, j \in DOMAIN d.chain : d.chain[i] = d.chain[j] => i = j
       /\ DOMAIN d.dir = 1..Len(d.dir) /\ Len(d.dir) \in 0..(Len(d.chain) * (DirentsPerSector * d.spc))
       /\ \A i \in DOMAIN d.dir : d.dir[i].kind = "file" =>
            LET e == d.dir[i]
            IN  /\ e.size \in Nat /\ (e.chain # << >> => Linked(d.fat, e.chain))
                /\ e.size <= (IF e.chain = << >> THEN 0 ELSE Len(e.chain) * d.spc)

DirentsPerPage == DirentsPerSector * SectorsPerPage

VARIABLES disk, fs, fat_pc,
          inodes,                      \* start_cluster_to_inode
          arg,                         \* what is looked up, or read
          cluster, left,
          held,                        \* the buffer is mapped by a lease
          at,                          \* first sector of the page mapped there
          result

fatVars == <<disk, fs, fat_pc, inodes, arg, cluster, left, held, at, result>>

-----------------------------------------------------------------------------
(* names *)

Pad(s, n) == [i \in 1..n |-> IF i <= Len(s) THEN s[i] ELSE " "]
Cut(s, n) == SubSeq(s, 1, Min({n, Len(s)}))
Dots(s) == {i \in DOMAIN s : s[i] = "."}

convert_normal_to_8_3_filename(s) ==
  IF Dots(s) = {} THEN Pad(Cut(s, NameLen), NameLen + ExtLen)
  ELSE Pad(Cut(SubSeq(s, 1, Min(Dots(s)) - 1), NameLen), NameLen)
         \o Pad(Cut(SubSeq(s, Min(Dots(s)) + 1, Len(s)), ExtLen), ExtLen)

Trim(s) == IF \E i \in DOMAIN s : s[i] = " "
           THEN SubSeq(s, 1, Min({i \in DOMAIN s : s[i] = " "}) - 1) ELSE s
convert_8_3_to_normal_filename(n) ==
  LET ext == Trim(SubSeq(n, NameLen + 1, NameLen + ExtLen))
  IN  Trim(SubSeq(n, 1, NameLen)) \o (IF ext = <<>> THEN <<>> ELSE <<".">> \o ext)

-----------------------------------------------------------------------------
(* the disk *)

\* The first page of the k-th cluster of the root directory.
Dirents(d, k) == [i \in 1..DirentsPerPage |->
                    LET j == (k - 1) * (DirentsPerSector * d.spc) + i
                    IN IF j <= Len(d.dir) THEN d.dir[j] ELSE [kind |-> "end"]]
\* Faulty variant: a cluster is its own successor.
FatEntry_Self(d, c) == c
FatEntry(d, c) == IF c \in DOMAIN d.fat THEN d.fat[c] ELSE 0

\* Filesystem::Filesystem() of the partition found
Regions(p) == [fat_offset_lba |-> p.start + p.reserved,
               data_region_offset_lba |-> p.start + p.reserved + p.fats * p.spf]
ClusterSector(c) == fs.data_region_offset_lba + (c - 2) * disk.spc
SectorCluster(s) == ((s - fs.data_region_offset_lba) \div disk.spc) + 2

floor_page(s) == s - (s % SectorsPerPage)

\* The clusters of a file as its entry gives them: the low 16 bits and the rest.
First(e) == IF e.chain = << >> THEN 0 ELSE Head(e.chain)
cluster_hi(e) == First(e) \div LoSize
cluster_lo(e) == First(e) % LoSize

\* (cluster_hi << 2) | cluster_lo
Bit(x, b) == (x \div 2^b) % 2 = 1
Or(x, y) == MapThenSumSet(LAMBDA b : 2^b, {b \in 0..17 : Bit(x, b) \/ Bit(y, b)})
start_cluster(e) == IF cluster_hi(e) = 0 THEN cluster_lo(e) ELSE Or(4 * cluster_hi(e), cluster_lo(e))

\* Inode::Inode() of an entry, and the root directory's of get_root_dentry().
Inode(e) == [start_cluster |-> start_cluster(e), e |-> e]
Root(d) == [start_cluster |-> Head(d.chain),
            e |-> [kind |-> "root", name |-> Pad(<<>>, NameLen + ExtLen), chain |-> d.chain, size |-> 0, subdir |-> TRUE]]

FatInit ==
  /\ disk \in Disk /\ fs = Nothing /\ fat_pc = "boot" /\ inodes = << >> /\ arg = [op |-> "none"]
  /\ cluster = 0 /\ left = 0 /\ held = FALSE /\ at = 0 /\ result = Nothing

\* find_boot_part(), from_partition() and get_root_dentry(): the first partition of
\* the type, and the inode of its root directory.
Boot ==
  /\ fat_pc = "boot"
  /\ LET ps == {i \in DOMAIN disk.parts : disk.parts[i].fat32}
     IN  IF ps = {} THEN fat_pc' = "no partition" /\ UNCHANGED <<fs, inodes>>
         ELSE /\ fat_pc' = "idle" /\ fs' = Regions(disk.parts[Min(ps)])
              /\ inodes' = [c \in {Head(disk.chain)} |-> Root(disk)]
  /\ UNCHANGED <<disk, arg, cluster, left, held, at, result>>

\* VirtLease::VirtLease() of the page at sector s, whose byte address is a 32-bit
\* number: read_page_direct() wants a page boundary, and the buffer must be free.
VirtLease(s, then) ==
  IF s \notin 0..(DevSectors - 1) THEN fat_pc' = "astray" /\ UNCHANGED <<held, at>>
  ELSE IF s % SectorsPerPage # 0 THEN fat_pc' = "not aligned" /\ UNCHANGED <<held, at>>
  ELSE IF held THEN fat_pc' = "map failed" /\ UNCHANGED <<held, at>>
  ELSE held' = TRUE /\ at' = s /\ fat_pc' = then

\* Faulty variant: the lease lives until the next turn of the loop.
Released_Late == TRUE
Released == FALSE

-----------------------------------------------------------------------------
(* Inode::lookup and iterate_dir *)

\* of a name in the root directory
inode_lookup(name) ==
  /\ fat_pc \in {"idle", "done"}
  /\ fat_pc' = "dir" /\ arg' = [op |-> "lookup", name |-> name] /\ cluster' = Head(disk.chain) /\ result' = Nothing
  /\ UNCHANGED <<disk, fs, inodes, left, held, at>>

\* "Assume that cluster is a multiple of page size" is asserted first.
WholePages == disk.spc % SectorsPerPage = 0
TakeDirPage ==
  /\ fat_pc = "dir"
  /\ IF WholePages THEN VirtLease(ClusterSector(cluster), "scan")
     ELSE fat_pc' = "not whole pages" /\ UNCHANGED <<held, at>>
  /\ UNCHANGED <<disk, fs, inodes, arg, cluster, left, result>>

\* Faulty variant: a deleted entry ends the directory.
IsEnd_Deleted(e) == e.kind \in {"end", "deleted"}
IsEnd(e) == e.kind = "end"

\* The entries of the page, up to the end mark or the name; then the scan goes on in
\* what follows the buffer, when a cluster has more entries than a page.
Page == Dirents(disk, CHOOSE k \in DOMAIN disk.chain : disk.chain[k] = SectorCluster(at))
Matches(e) == e.kind = "file" /\ e.name = convert_normal_to_8_3_filename(arg.name)
Stops == {i \in DOMAIN Page : IsEnd(Page[i]) \/ Matches(Page[i])}

\* The inode of the entry found: the one that is known at its start cluster, or new.
Known(e) == IF start_cluster(e) \in DOMAIN inodes THEN inodes[start_cluster(e)] ELSE Inode(e)
Remember(e) == [c \in DOMAIN inodes \cup {start_cluster(e)} |-> IF c \in DOMAIN inodes THEN inodes[c] ELSE Inode(e)]

iterate_dir ==
  /\ fat_pc = "scan"
  /\ IF Stops = {}
     THEN fat_pc' = (IF disk.spc > SectorsPerPage THEN "overrun" ELSE "advance") /\ UNCHANGED <<inodes, result>>
     ELSE \E e \in {Page[Min(Stops)]} :
            /\ fat_pc' = "done"
            /\ IF IsEnd(e) THEN result' = [found |-> FALSE] /\ UNCHANGED inodes
               ELSE result' = [found |-> TRUE, e |-> e, inode |-> Known(e)] /\ inodes' = Remember(e)
  /\ held' = IF fat_pc' = "advance" THEN Released ELSE FALSE
  /\ UNCHANGED <<disk, fs, arg, cluster, left, at>>

\* ~Inode(), when its last reference is gone; the root directory's stays.
ForgetInode(c) ==
  /\ fat_pc \in {"idle", "done"} /\ c \in DOMAIN inodes \ {Head(disk.chain)}
  /\ inodes' = [k \in DOMAIN inodes \ {c} |-> inodes[k]]
  /\ UNCHANGED <<disk, fs, fat_pc, arg, cluster, left, held, at, result>>

-----------------------------------------------------------------------------
(* advance_cluster and get_dev_offset *)

get_fat_sector_for_cluster(c) == fs.fat_offset_lba + (c \div EntriesPerSector)

TakeFatPage ==
  /\ fat_pc = "advance"
  /\ VirtLease(floor_page(get_fat_sector_for_cluster(cluster)), "fat")
  /\ UNCHANGED <<disk, fs, inodes, arg, cluster, left, result>>

\* Where the entry is in the page that is mapped.  Faulty variant: the sector within
\* the page is left out.
SectorOff_Zero(c) == 0
SectorOff(c) == get_fat_sector_for_cluster(c) % SectorsPerPage

advance_cluster ==
  /\ fat_pc = "fat" /\ held' = FALSE
  /\ LET fat_entry == ((at + SectorOff(cluster)) - fs.fat_offset_lba) * EntriesPerSector
                       + (cluster % EntriesPerSector)
         next_cluster == FatEntry(disk, fat_entry)
     IN  IF next_cluster >= EndOfChain
         THEN fat_pc' = "past the end" /\ UNCHANGED cluster
         ELSE cluster' = next_cluster /\ fat_pc' = IF arg.op = "read" THEN "walk" ELSE "dir"
  /\ UNCHANGED <<disk, fs, inodes, arg, left, at, result>>

\* The page at offset o of a file: the constructor of the lease asks get_dev_offset()
\* for its place first.  The place -1 of what has none is not on a page boundary.
NoPlace(e, o) == o % SectorsPerPage # 0 \/ e.subdir \/ o >= e.size
read_page(c, o) ==
  /\ fat_pc \in {"idle", "done"} /\ c \in DOMAIN inodes
  /\ arg' = [op |-> "read", e |-> inodes[c].e, off |-> o]
  /\ fat_pc' = IF ~WholePages /\ o % SectorsPerPage = 0 THEN "not whole pages"
               ELSE IF NoPlace(inodes[c].e, o) THEN "not aligned" ELSE "walk"
  /\ cluster' = inodes[c].start_cluster /\ left' = o /\ result' = Nothing
  /\ UNCHANGED <<disk, fs, inodes, held, at>>

\* Faulty variant: one step short.
MoreClusters_Short == left > disk.spc
MoreClusters == left > 0
get_dev_offset ==
  /\ fat_pc = "walk"
  /\ IF MoreClusters
     THEN fat_pc' = "advance" /\ left' = (left - disk.spc) % OffsetMod /\ UNCHANGED <<held, at, result>>
     ELSE VirtLease(ClusterSector(cluster), "done") /\ result' = ClusterSector(cluster) /\ UNCHANGED left
  /\ UNCHANGED <<disk, fs, inodes, arg, cluster>>

\* ~VirtLease() after the copy
ReleasePage ==
  /\ fat_pc = "done" /\ held /\ held' = FALSE
  /\ UNCHANGED <<disk, fs, fat_pc, inodes, arg, cluster, left, at, result>>

FatNext ==
  \/ Boot \/ TakeDirPage \/ iterate_dir \/ TakeFatPage \/ advance_cluster \/ get_dev_offset \/ ReleasePage
  \/ ~held /\ \/ \E name \in Component : inode_lookup(name)
              \/ \E c \in DOMAIN inodes : ForgetInode(c) \/ \E o \in Offset : read_page(c, o)

Walking == TakeDirPage \/ iterate_dir \/ TakeFatPage \/ advance_cluster \/ get_dev_offset
FatSpec == FatInit /\ [][FatNext]_fatVars /\ WF_fatVars(Walking)

-----------------------------------------------------------------------------
\* The entries of the directory before its end mark.
Files(d) == LET ends == {i \in DOMAIN d.dir : d.dir[i].kind = "end"}
            IN  {d.dir[i] : i \in {j \in DOMAIN d.dir : d.dir[j].kind = "file"
                                                       /\ (ends = {} \/ j < Min(ends))}}
Terminated(d) == \/ \E i \in DOMAIN d.dir : d.dir[i].kind = "end"
                 \/ Len(d.dir) < Len(d.chain) * (DirentsPerSector * d.spc)

\* The name with both of its parts cut to the length they may have.
Short(s) ==
  LET d == Dots(s)
      ext == IF d = {} THEN <<>> ELSE SubSeq(s, Min(d) + 1, Len(s))
  IN  Cut(IF d = {} THEN s ELSE SubSeq(s, 1, Min(d) - 1), NameLen)
        \o (IF ext = <<>> THEN <<>> ELSE <<".">> \o Cut(ext, ExtLen))

\* Files and the root directory begin in clusters of their own, as on a sound volume
\* without empty files; and cluster_lo alone has the number.
Identified(d) == \A e, f \in Files(d) : First(e) # Head(d.chain) /\ (First(e) = First(f) => e = f)
Low(d) == \A e \in Files(d) : First(e) < LoSize

\* A volume as the image is made (a cluster is a page, Makefile:244), with its data on
\* page boundaries and all it uses where a 32-bit address reaches.
InReach(c) == ClusterSector(c) \in 0..(DevSectors - 1) /\ get_fat_sector_for_cluster(c) \in 0..(DevSectors - 1)
Formatted ==
  /\ disk.spc = SectorsPerPage /\ fs.data_region_offset_lba % SectorsPerPage = 0
  /\ \A k \in DOMAIN disk.chain : InReach(disk.chain[k])
  /\ \A e \in Files(disk) : \A k \in DOMAIN e.chain : InReach(e.chain[k])

\* A lookup finds the file of that name, cut to 8 and 3 characters, wherever it is in
\* the directory's clusters, past deleted and long-name entries, and no other; its
\* inode has that name, where start clusters tell files apart.
LookupExact ==
  fat_pc = "done" /\ arg.op = "lookup" =>
    /\ result.found <=> \E e \in Files(disk) : convert_8_3_to_normal_filename(e.name) = Short(arg.name)
    /\ result.found /\ Identified(disk) /\ Low(disk) =>
         convert_8_3_to_normal_filename(result.inode.e.name) = Short(arg.name)

\* A lookup has searched all the directory: it finds an entry exactly when one before
\* the end mark has the name as it is stored, and returns the inode made of that entry,
\* however many inodes have come and gone, if files begin in clusters of their own
\* below 2^16.
LookupComplete ==
  fat_pc = "done" /\ arg.op = "lookup" =>
    /\ result.found <=> \E e \in Files(disk) : e.name = convert_normal_to_8_3_filename(arg.name)
    /\ result.found => result.e \in Files(disk) /\ result.e.name = convert_normal_to_8_3_filename(arg.name)
    /\ result.found /\ Identified(disk) /\ Low(disk) => result.inode.e = result.e

\* "start cluster uniquely identifies a file/directory in the superblock" (fat32.h:164):
\* a lookup returns the inode of the file it found, if files begin in clusters of their
\* own.
StartClusterIdentifies ==
  fat_pc = "done" /\ arg.op = "lookup" => (result.found /\ Identified(disk) => result.inode.e = result.e)

\* The page at an offset of a file is read from the cluster of its chain that has the
\* offset, for the first page of every cluster, if files begin below cluster 2^16.
FilePageExact ==
  fat_pc = "done" /\ arg.op = "read" /\ Low(disk) /\ arg.off % disk.spc = 0 =>
    SectorCluster(result) = arg.e.chain[(arg.off \div disk.spc) + 1]

\* The one buffer is never leased twice, so that the assertion of map()
\* (page_cache.cc:60) holds: advance_cluster() is only called when the caller's lease
\* is gone or not yet there.
LeaseAlone == fat_pc # "map failed"

\* "Assumes we've already checked that the file does not end" (fat32.h:144): on a volume
\* as the image is made, whose directory has an end mark and whose files begin below
\* cluster 2^16, no walk goes past the end of a chain, reads beside the buffer or
\* beside the volume, or meets an assertion but for an offset that has no place.
WithinChain ==
  \/ fat_pc \in {"past the end", "overrun", "astray", "not whole pages"}
  \/ fat_pc = "not aligned" /\ ~(arg.op = "read" /\ NoPlace(arg.e, arg.off))
  => ~(Formatted /\ Terminated(disk) /\ Low(disk))

\* The walks of the clusters of directories and files are exact, stay in their chains
\* and hold one lease at a time.
WalksExact == FilePageExact /\ LookupComplete /\ LeaseAlone /\ WithinChain

\* Every lookup and every walk of a chain ends.
WalkEnds == (fat_pc = "dir" \/ fat_pc = "walk") ~> fat_pc \notin {"dir", "scan", "advance", "fat", "walk"}
=============================================================================
