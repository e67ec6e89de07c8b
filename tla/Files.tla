-------------------------------- MODULE Files -------------------------------
(***************************************************************************)
(* Inodes, dentries and the dentry cache (fs/vfs.cc, fs/vfs.h) with the    *)
(* inode table of the FAT32 driver, and the descriptors and file mappings  *)
(* of processes that hold references to them (proc/process.cc).  An inode  *)
(* is its start cluster as lookup() computes it, a dentry its address.     *)
(* Entries with the same start cluster are here of the same kind and size  *)
(* (Fat32 has those that differ).  Calls come one after the other; a       *)
(* lookup takes a step for each component of its path and a close one for  *)
(* each dentry it deletes.                                                 *)
(***************************************************************************)
EXTENDS Algorithm, Sequences, FiniteSetsExt

CONSTANTS Proc,
          MaxFd, MaxOffset,  \* bounds
          Slot,              \* addresses of mappings, apart from each other
          Tree,              \* directories on disk: [cluster -> [name -> entry]]
          Root,              \* root_dir_start_cluster
          Content,           \* [start cluster of a file -> the bytes from there on]
          SizeMod,           \* 2^32, what a size_t holds
          Path,              \* paths: sequences of components
          Count,             \* sizes of reads
          Seek,              \* arguments of lseek
          Dentry,            \* addresses of dentries
          root,              \* that of the root
          Address(_, _),     \* where the heap may put the child of a dentry
          null               \* nullptr and nullopt

VARIABLES dent,              \* dentries: [parent, inode, name, rc]
          inode,             \* start_cluster_to_inode: the reference counts
          dcache,            \* dcache_lookup: [<<parent, name>> -> dentry]
          fds,               \* per process and descriptor: [dentry, offset]
          mapped,            \* per process: [slot -> dentry, or null if anonymous]
          panic,             \* the assertion that failed, or "none"
          op,                \* the call: open, creat, its second lookup, close, or none
          caller,            \* the process that called open
          path, at, it,      \* a lookup: the path, components done, the dentry there
          trail,             \* the dentries of a call's first lookup (history)
          unhash             \* deleted dentries that are still in the cache

fileVars == <<dent, inode, dcache, fds, mapped, panic, op, caller, path, at, it, trail, unhash>>
dentryVars == <<dent, inode, dcache>>
lookupVars == <<caller, path, at, it, trail>>

Clusters == DOMAIN Tree \cup DOMAIN Content
IsDir(c) == c \in DOMAIN Tree

\* (cluster_hi << 2) | cluster_lo
Bit(x, b) == (x \div 2^b) % 2 = 1
Or(x, y) == MapThenSumSet(LAMBDA b : 2^b, {b \in 0..17 : Bit(x, b) \/ Bit(y, b)})
start_cluster(e) == IF e.cluster_hi = 0 THEN e.cluster_lo ELSE Or(4 * e.cluster_hi, e.cluster_lo)

\* The start clusters of entries are those of directories or files, and a read or a seek
\* has the arguments its types allow.
ASSUME FilesAssumption ==
  /\ IsFiniteSet(Proc) /\ IsFiniteSet(Slot) /\ MaxFd \in Nat /\ MaxOffset \in Nat
  /\ root \in Dentry /\ null \notin Dentry /\ Root \in DOMAIN Tree /\ null \notin Clusters
  /\ \A c \in DOMAIN Tree : \A n \in DOMAIN Tree[c] : start_cluster(Tree[c][n]) \in Clusters
  /\ \A c \in DOMAIN Content : Content[c] \in Seq(STRING)
  /\ \A q \in Path : q \in Seq(STRING)
  /\ Count \subseteq Nat /\ SizeMod \in Nat \ {0} /\ \A k \in Seek : k[1] \in Int

Put(f, k, v) == [x \in DOMAIN f \cup {k} |-> IF x = k THEN v ELSE f[x]]
Drop(f, k) == [x \in DOMAIN f \ {k} |-> f[x]]

\* get_root_dentry() takes one reference that is never given back.
FilesInit ==
  /\ dent = [d \in {root} |-> [parent |-> null, inode |-> Root, name |-> "<root>", rc |-> 1]]
  /\ inode = [c \in {Root} |-> 1] /\ dcache = [k \in {} |-> null]
  /\ fds = [p \in Proc |-> <<>>] /\ mapped = [p \in Proc |-> [v \in {} |-> null]]
  /\ panic = "none" /\ op = "none" /\ caller = null /\ path = <<>> /\ at = 0 /\ it = null
  /\ trail = <<>> /\ unhash = <<>>

Panic(assertion) ==
  /\ panic' = assertion
  /\ UNCHANGED <<dentryVars, fds, mapped, op, lookupVars, unhash>>

\* A call begins at dentry d, and returns.
Begin(what, p, q, d) ==
  /\ op = "none" /\ op' = what /\ caller' = p /\ path' = q /\ at' = 0 /\ it' = d
  /\ trail' = IF what = "close" THEN <<>> ELSE <<d>>
Finish ==
  /\ op' = "none" /\ caller' = null /\ path' = <<>> /\ at' = 0 /\ it' = null /\ trail' = <<>>
  /\ UNCHANGED <<mapped, panic, unhash>>

-----------------------------------------------------------------------------
(* reference counts *)

inc_rc(e, d) == [e EXCEPT ![d].rc = @ + 1]

\* Inode::dec_rc(), and fat32::Inode::~Inode() when it was the last reference.
inode_dec_rc(c) == IF inode[c] = 1 THEN Drop(inode, c) ELSE [inode EXCEPT ![c] = @ - 1]

\* Dentry::~Dentry() of it, up to the dec_rc() of its parent.
DeleteDentry ==
  LET e == dent[it]
  IN  IF \E x \in DOMAIN dent : dent[x].parent = it THEN Panic("children")
      ELSE /\ inode' = inode_dec_rc(e.inode)
           /\ dent' = Drop(dent, it)
           /\ it' = e.parent
           /\ unhash' = IF e.parent = null THEN unhash
                        ELSE Append(unhash, [key |-> <<e.parent, e.name>>, dentry |-> it])
           /\ UNCHANGED <<dcache, fds, mapped, panic, op, caller, path, at, trail>>

dec_rc ==
  /\ op = "close" /\ it # null
  /\ IF dent[it].rc = 0 THEN Panic("rc")
     ELSE IF dent[it].rc = 1 THEN DeleteDentry
     ELSE /\ dent' = [dent EXCEPT ![it].rc = @ - 1] /\ it' = null
          /\ UNCHANGED <<inode, dcache, fds, mapped, panic, op, caller, path, at, trail, unhash>>

\* The rest of ~Dentry(): the innermost that waits for the dec_rc() of its parent.
Unhash ==
  /\ op = "close" /\ it = null /\ unhash # <<>>
  /\ LET u == unhash[Len(unhash)]
     IN  IF u.key \notin DOMAIN dcache \/ dcache[u.key] # u.dentry THEN Panic("cached")
         ELSE /\ dcache' = Drop(dcache, u.key)
              /\ unhash' = SubSeq(unhash, 1, Len(unhash) - 1)
              /\ UNCHANGED <<dent, inode, fds, mapped, panic, op, lookupVars>>

Closed ==
  /\ op = "close" /\ it = null /\ unhash = <<>>
  /\ Finish /\ UNCHANGED <<dentryVars, fds>>

-----------------------------------------------------------------------------
(* lookups *)

\* The next component leads to d.
GoTo(d) ==
  /\ it' = d /\ at' = at + 1
  /\ trail' = IF op = "parent" \/ d = null THEN trail ELSE Append(trail, d)
  /\ UNCHANGED <<fds, mapped, panic, op, caller, path, unhash>>

\* Dentry::Dentry() of a child of it.
NewDentry(c, name) ==
  LET e == [parent |-> it, inode |-> c, name |-> name, rc |-> 0]
  IN  IF <<it, name>> \in DOMAIN dcache THEN Panic("inserted")
      ELSE \E d \in (Address(it, name) \cap Dentry) \ DOMAIN dent :
             /\ dent' = Put(inc_rc(dent, it), d, e)
             /\ dcache' = Put(dcache, <<it, name>>, d)
             /\ inode' = Put(inode, c, IF c \in DOMAIN inode THEN inode[c] + 1 ELSE 1)
             /\ GoTo(d)

\* fat32::Inode::lookup() by its result: the start cluster of the child, whose inode
\* NewDentry takes from the table if it is there.
lookup(dir, name) == IF name \in DOMAIN Tree[dir] THEN start_cluster(Tree[dir][name]) ELSE null

\* Whether a component is looked for in the dentry cache.  Faulty variant: it is
\* not, and the file system is asked every time.
Cached_Never(name) == FALSE
Cached(name) == <<it, name>> \in DOMAIN dcache

\* A component that is not in the cache: the file system is asked.  In the second
\* lookup of creat() the result is still that of the first, an error.
Ask(name) ==
  LET c == lookup(dent[it].inode, name)
  IN  IF ~IsDir(dent[it].inode) THEN Panic("is_directory")
      ELSE IF c = null THEN GoTo(null) /\ UNCHANGED dentryVars
      ELSE IF op = "parent" THEN Panic("result")
      ELSE NewDentry(c, name)

\* Components that stay, that go to the parent, and names.
Stays(name) == name \in {"", "."}
Rises(name) == name = ".."
IsName(name) == ~Stays(name) /\ ~Rises(name)

\* The path of a lookup: the second one of creat() leaves out the last component.
PathLen == IF op = "parent" THEN Len(path) - 1 ELSE Len(path)
Looking == op \in {"open", "creat", "parent"}
LookupDone == it = null \/ at >= PathLen

pathname_lookup ==
  /\ Looking /\ ~LookupDone
  /\ LET name == path[at + 1]
     IN  \/ Stays(name) /\ GoTo(it) /\ UNCHANGED dentryVars
         \/ /\ Rises(name) /\ GoTo(IF dent[it].parent = null THEN it ELSE dent[it].parent)
            /\ UNCHANGED dentryVars
         \/ IsName(name) /\ Cached(name) /\ GoTo(dcache[<<it, name>>]) /\ UNCHANGED dentryVars
         \/ IsName(name) /\ ~Cached(name) /\ Ask(name)

-----------------------------------------------------------------------------
(* the operations of a process *)

Unused == [dentry |-> null, offset |-> 0]

\* Faulty variant: a new descriptor is taken while an old one is free.
get_next_fd_Append(f) == Len(f) + 1
get_next_fd(f) == Min({k \in DOMAIN f : f[k].dentry = null} \cup {Len(f) + 1})

\* A call that fails leaves everything as it is: its result is the caller's.
Fails(r) == UNCHANGED fileVars
BadFD(p, fd) == fd \notin DOMAIN fds[p] \/ fds[p][fd].dentry = null

OpenFiles == {o \in Proc \X (1..MaxFd) : ~BadFD(o[1], o[2])}

open(p, q) ==
  /\ get_next_fd(fds[p]) <= MaxFd
  /\ Begin("open", p, q, root) /\ UNCHANGED <<dentryVars, fds, mapped, panic, unhash>>

\* File::File() takes a reference.
Opened ==
  LET fd == get_next_fd(fds[caller])
      file == [dentry |-> it, offset |-> 0]
  IN  /\ op = "open" /\ LookupDone
      /\ IF it = null THEN UNCHANGED <<dentryVars, fds>>
         ELSE /\ dent' = inc_rc(dent, it)
              /\ fds' = [fds EXCEPT ![caller] = Put(@, fd, file)]
              /\ UNCHANGED <<inode, dcache>>
      /\ Finish

\* File::~File() gives its reference back.
close(p, fd) ==
  IF BadFD(p, fd) THEN Fails("BadFD")
  ELSE /\ Begin("close", null, <<>>, fds[p][fd].dentry)
       /\ fds' = [fds EXCEPT ![p][fd] = Unused]
       /\ UNCHANGED <<dentryVars, mapped, panic, unhash>>

creat(q) == Begin("creat", null, q, root) /\ UNCHANGED <<dentryVars, fds, mapped, panic, unhash>>

\* A file that exists is done with (truncate() is empty); else the directory is looked
\* up, and the driver's creat() answers Unsupported.
Created ==
  /\ op = "creat" /\ LookupDone
  /\ \/ it # null /\ Finish
     \/ /\ it = null /\ op' = "parent" /\ at' = 0 /\ it' = root
        /\ UNCHANGED <<mapped, panic, caller, path, trail, unhash>>
  /\ UNCHANGED <<dentryVars, fds>>
ParentFound == op = "parent" /\ LookupDone /\ Finish /\ UNCHANGED <<dentryVars, fds>>

SetOffset(p, fd, new) ==
  /\ fds' = [fds EXCEPT ![p][fd].offset = new]
  /\ UNCHANGED <<dentryVars, mapped, panic, op, lookupVars, unhash>>

lseek(p, fd, offset, whence) ==
  LET new_seek == IF whence = "Set" THEN offset ELSE fds[p][fd].offset + offset
  IN  IF BadFD(p, fd) THEN Fails("BadFD")
      ELSE IF whence = "End" THEN Fails("Unsupported")
      ELSE IF new_seek < 0 THEN Fails("InvalidArgs")
      ELSE new_seek <= MaxOffset /\ SetOffset(p, fd, new_seek)

\* mmap() of a page at one of the slots, of an open file or anonymous (fd = null), with
\* an address and an offset that are page-aligned, as the loader calls it.
\* Faulty variant: the mapping relies on the reference of the open file.
Referenced_Not(d) == dent
Referenced(d) == IF d = null THEN dent ELSE inc_rc(dent, d)

mmap_file(p, slot, fd) ==
  IF fd # null /\ BadFD(p, fd) THEN Fails("BadFD")
  ELSE IF slot \in DOMAIN mapped[p] THEN Fails("MappingExists")
  ELSE LET d == IF fd = null THEN null ELSE fds[p][fd].dentry
       IN  /\ dent' = Referenced(d) /\ mapped' = [mapped EXCEPT ![p] = Put(@, slot, d)]
           /\ UNCHANGED <<inode, dcache, fds, panic, op, lookupVars, unhash>>

\* exit() is called by the thread of the process, and destroy_thread() schedules away
\* from it for good: `delete this` is not reached, and the files and mappings keep
\* their references.  That p makes no more calls is a choice it has at any time.
exit(p) == UNCHANGED fileVars

-----------------------------------------------------------------------------
(* reading *)

\* A leased page of a file, and what lies behind the page.
PageOf(c, pg) ==
  [k \in 1..(2 * PG_SZ) |->
     IF k <= PG_SZ /\ pg + k \in DOMAIN Content[c] THEN Content[c][pg + k] ELSE "junk"]

\* The bytes Inode::read() copies for the first page: from the offset to the end of
\* its page at most.  Faulty variant: a whole page.
First_Whole(offset, count) == Min({PG_SZ, count})
First(offset, count) == Min({PG_SZ - (offset % PG_SZ), count})

\* The bytes from the second page on are those of whole pages, one after the other.
read_file(c, offset, count) ==
  LET pg == floor_pg(offset)
      left == Min({count, Len(Content[c]) - offset})
      n1 == IF pg = offset THEN 0 ELSE First(offset, left)
      start == IF pg = offset THEN pg ELSE pg + PG_SZ
  IN  IF offset >= Len(Content[c]) \/ count = 0 THEN <<>>
      ELSE [k \in 1..left |->
              IF k <= n1 THEN PageOf(c, pg)[(offset % PG_SZ) + k]
              ELSE PageOf(c, start + floor_pg(k - n1 - 1))[((k - n1 - 1) % PG_SZ) + 1]]

\* The offset of a File is a uint64_t, that of Inode::read() a size_t.
read(p, fd, count) ==
  LET f == fds[p][fd]
      c == dent[f.dentry].inode
  IN  IF BadFD(p, fd) THEN Fails("BadFD")
      ELSE IF IsDir(c) THEN Fails("IsDirectory")
      ELSE SetOffset(p, fd, f.offset + Len(read_file(c, f.offset % SizeMod, count)))

FilesNext ==
  /\ panic = "none"
  /\ \/ dec_rc \/ Unhash \/ Closed \/ pathname_lookup \/ Opened \/ Created \/ ParentFound
     \/ /\ op = "none"
        /\ \/ \E q \in Path : creat(q) \/ \E p \in Proc : open(p, q)
           \/ \E p \in Proc, fd \in 1..MaxFd :
                \/ close(p, fd)
                \/ \E k \in Seek : lseek(p, fd, k[1], k[2])
                \/ \E n \in Count : read(p, fd, n)
                \/ \E v \in Slot : mmap_file(p, v, fd)
           \/ \E p \in Proc : exit(p) \/ \E v \in Slot : mmap_file(p, v, null)

FilesSpec == FilesInit /\ [][FilesNext]_fileVars

-----------------------------------------------------------------------------
(* properties *)

FilesOf(d) == {o \in OpenFiles : fds[o[1]][o[2]].dentry = d}
MapsOf(d) == {o \in Proc \X Slot : o[2] \in DOMAIN mapped[o[1]] /\ mapped[o[1]][o[2]] = d}
ChildrenOf(d) == {x \in DOMAIN dent : dent[x].parent = d}
DentriesOf(c) == {d \in DOMAIN dent : dent[d].inode = c}
KeyOf(d) == <<dent[d].parent, dent[d].name>>

\* The dentry a close() has yet to release.
Pending == IF op = "close" THEN it ELSE null

\* Dentry::inc_rc() and dec_rc(): the count of a dentry is the number of its children,
\* open files and mappings, with one more for the root and one for the reference a
\* close() is giving back; and every dentry they name exists.
CountsExact ==
  /\ \A d \in DOMAIN dent :
       dent[d].rc = Cardinality(ChildrenOf(d)) + Cardinality(FilesOf(d)) + Cardinality(MapsOf(d))
                    + (IF d = root THEN 1 ELSE 0) + (IF d = Pending THEN 1 ELSE 0)
  /\ \A o \in OpenFiles : fds[o[1]][o[2]].dentry \in DOMAIN dent
  /\ \A p \in Proc : \A v \in DOMAIN mapped[p] : mapped[p][v] # null => mapped[p][v] \in DOMAIN dent

InCache(d) == KeyOf(d) \in DOMAIN dcache /\ dcache[KeyOf(d)] = d
Living(k) == dcache[k] \in DOMAIN dent \ {root} /\ KeyOf(dcache[k]) = k
Leaving(k) == \E i \in DOMAIN unhash : unhash[i].key = k /\ unhash[i].dentry = dcache[k]
OnDisk(d) == /\ dent[d].parent \in DOMAIN dent /\ IsDir(dent[dent[d].parent].inode)
             /\ dent[d].inode = lookup(dent[dent[d].parent].inode, dent[d].name)

\* Dentry's constructor and destructor and start_cluster_to_inode: the dentry cache
\* holds each dentry but the root under its parent and name, and else only those a
\* close() is about to take out; each dentry is the child the disk has under its name;
\* there is one inode per start cluster, whose count is the number of its dentries.
CacheExact ==
  /\ \A d \in DOMAIN dent \ {root} : InCache(d) /\ OnDisk(d)
  /\ \A k \in DOMAIN dcache : Living(k) \/ Leaving(k)
  /\ \A d \in DOMAIN dent : dent[d].inode \in DOMAIN inode
  /\ \A c \in DOMAIN inode : DentriesOf(c) # {} /\ inode[c] = Cardinality(DentriesOf(c))

\* The counts and the caches are exact at every step of every call, whatever the order
\* in which processes open, map and close: none is deleted while it is in use.  No
\* assertion of the VFS fails but that of a lookup in a file (fat32.cc:223).
RefsExact ==
  /\ CountsExact /\ CacheExact
  /\ op # "close" => unhash = <<>>
  /\ panic # "none" => panic = "is_directory" /\ Looking /\ ~IsDir(dent[it].inode)

\* Inode::read(): from any offset a file is at, a read of any size gives exactly the
\* bytes from there on, as many as were asked for or as there are.  That is for an offset
\* below 2^32; from one beyond, process.cc:269 reads at the offset modulo 2^32.
ReadExact ==
  \A o \in OpenFiles : \A n \in 0..(MaxOffset + 1) :
    LET c == dent[fds[o[1]][o[2]].dentry].inode
        off == fds[o[1]][o[2]].offset % SizeMod
        here == Content[c]
    IN  ~IsDir(c) =>
          read_file(c, off, n) =
            (IF off >= Len(here) THEN <<>> ELSE SubSeq(here, off + 1, Min({Len(here), off + n})))

\* get_next_fd(): the table of descriptors grows only when all of them are in use, and
\* a descriptor keeps its file until it is closed.
FdStep ==
  \A p \in Proc :
    /\ Len(fds'[p]) > Len(fds[p]) => \A k \in DOMAIN fds[p] : ~BadFD(p, k)
    /\ \A k \in DOMAIN fds[p] :
         k \in DOMAIN fds'[p] /\ ~BadFD(p, k) /\ fds'[p][k].dentry # null =>
           fds'[p][k].dentry = fds[p][k].dentry
FdStable == [][FdStep]_fileVars

\* A descriptor keeps its file until it is closed, and a read through it gives the
\* bytes of the file at its offset, cut to a size_t (process.cc:134, vfs.cc:59).
DescriptorsExact == FdStable /\ []ReadExact
=============================================================================
