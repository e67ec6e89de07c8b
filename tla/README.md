# hmmos: a verification development in TLA+

hmmos is a 32-bit x86 hobby kernel: a boot loader, a physical and a virtual
memory manager, a preemptive scheduler, processes with ELF loading and
demand-paged mappings, a VFS with a page cache and a FAT32 driver, an AHCI
driver, and a freestanding C++ library. This directory holds TLA+ models of its
parts, TLC configurations that check them on small instances, and TLAPS proofs
for every value of the constants. Source paths below are relative to
`src/kernel/` of the repository unless they begin with `boot/`, `common/` or
`crt/`, which are beside it.

## The system

The machine is a uniprocessor. Kernel code is preemptible everywhere except
between `mutex_lock()` (cli) and `mutex_unlock()` (sti) in the scheduler:
exceptions and syscalls enter through trap gates, so interrupts stay enabled.
The default build is `-O0` (Makefile), so that each statement that touches a
shared variable is a step of its own. `kfree()` does nothing.

| Part | State | Talks to | Module |
|---|---|---|---|
| boot loader (`boot/`) | e820 map, first page directory, kernel image | firmware, disk, entry | BootMemory, BootFat |
| page frame table (`mm/page_frame_table.cc`) | usable regions, frame descriptors | boot loader, allocator | BootMemory |
| page frame allocator (`mm/page_frame_allocator.cc`) | needle, counts, `allocated`/`unusable` bits | heap | SimplePFA, PageFrameAllocator |
| heap (`mm/kmalloc.cc`) | arena pointer | allocator | Kmalloc |
| virtual memory (`mm/virt.cc`, `arch/x86/page_table.cc`) | page directories, tables, CR3, TLB | processes, fault handler | PageTables |
| scheduler (`sched/`) | running thread, run queue, `tid_map`, TID counter, thread pending deletion, process override | timer, processes, heap | Scheduler, RunQueue |
| interrupts (`arch/x86/isrs.cc`, `idt.cc`, `drivers/pic.cc`) | kernel stacks, IDT, TSS, 8259 pair | scheduler, processes | Traps, Pic |
| processes (`proc/`) | VMAs, descriptors, page directory, thread | scheduler, VFS, virtual memory | ProcessMemory, Files, Scheduler |
| VFS (`fs/vfs.cc`) | inodes and dentries with reference counts | FAT32, page cache | Files |
| FAT32 (`fs/drivers/fat32.cc`) | inodes by start cluster, the walk it is on, the lease it holds | page cache | Fat32, Files |
| page cache (`util/lru.h`, `fs/page_cache.cc`) | entries with leases, LRU list, one mapping buffer | VFS, disk driver | LruCache, LeaseCache, Fat32 |
| AHCI, PCI (`drivers/`) | ports, command headers and tables; enumerated functions | page cache, the adapter | Ahci, Pci |
| containers (`util/intrusive_list.h`, `nonstd/`) | links, blocks, buckets, buffers | everyone | IntrusiveList, Deque, NodeHashMap, NonstdList, Vector, NonstdString |
| C library, console, C++ runtime (`nonstd/libc.cc`, `common/`, `crt/`) | cursor and rows, destructor table | everyone | Libc, Console, AtExit |

What makes it hard: a tick can fall between any two statements of code that
shares the scheduler's state; threads exit on a stack that the next thread has
to reclaim; interrupts nest on a thread's stack inside `schedule()`; TIDs wrap;
CR3, the process override and the TSS stack pointer are global; the heap and
the run queue are updated without a lock; the frame scan wraps around and must
stop exactly after one turn; the AHCI adapter goes on by itself between two
register accesses; memory handed over by firmware and loader may overlap, be
unaligned, or fill the table.

## Modules

### Threads and interrupts

**Scheduler** models `sched/kthread.{cc,h}` with the code on top of it that
shares its state: the Process constructor's context switch
(`ScopedEnterProcContext`), `jump_to_userspace` and `Process::exit`, and the
timer interrupt. Its variables are the members of `Scheduler` and of each
`KernelThread`, CR3, the TSS `esp0`, and for each thread a program counter into
the function it executes. `schedule()` is one step, from its cli to the sti at
the end of the bookkeeping; `assign_next_tid`, `new_thread`, `destroy_thread`
and the constructor are cut where a tick can fall. So is `delete_task()` when
`destroy_thread()` calls it for another thread, which it does without the mutex:
off the queue (`DestroyOther`), out of `tid_map` (`DropTid`), freed (`FreeTask`);
after a switch it runs inside `schedule()`. An `ASSERT` that fails sets
`panic` and stops the machine. The queue is a sequence with atomic operations;
**ListOps** is a list as a sequence without repetition. **RunQueue** is the same
queue at the level of its pointers, with ticks between the stores of
`new_thread()`'s `push_back()`.

**Traps** has the words on every thread's kernel stack: what the processor
pushes, what the stub of each vector pushes and drops (`_ISR`, with the table of
all 256 vectors and which of them have an error code), the three handlers, and
`iret`. Interrupts nest, because `schedule()` enables them inside the timer
handler. The scheduler is reduced to `do_schedule(t)`, a switch to any thread.
The history `saved` has, for each interrupt a thread has not returned from, where
the thread was, its interrupt flag, the vector and the height of its stack.
The processor and the devices are external. **Pic** is `init()` of the two 8259s,
one port write per step, while devices raise lines, and `idt::init()` after it.

### Memory

**BootMemory** goes from the firmware's map to the kernel's page frame table, one
action per function of the loader that takes memory from the map or notes it
there, then `pt_setup()` and the constructor of `PageFrameTable` with
`normalize_mm()`, its assertions and `alloc_pft()`. Halts and failed assertions
are states.

**PageFrameAllocator** is what `alloc()` and `free()` promise: a contiguous run
of free usable frames, or nothing if there is none. **SimplePFA** is the code:
the constructors' region walk and count, and `alloc()` iteration by iteration
of its two loops, with the needle and `steps`. Addresses are in pages.

**Kmalloc** is `kmalloc()` statement by statement, on top of
PageFrameAllocator (composed by INSTANCE), so its results hold for any allocator
that implements it. `Addr` maps frame 0 one page above null, as the higher-half
map does.

**PageTables** has directories and tables in memory, the translation the processor
caches, and every operation of `page_table.cc` and `virt.cc` on them, out of memory
included. The loops of `vmalloc()`, `ioremap()` and
`clone_kernel_page_directory()` take a step for every page or entry. `view` is a
history: what each directory should map.

**ProcessMemory** is the loader (`map_elf_segments()` header by header, with
`mmap()` and the stores that zero the ends of pages), the stack, and `isr_pf()` of
the program that then runs. `loader` is how far the constructor is, `elf` and `ph`
the program headers and how many of them are done, `vmas` the sorted list of
areas, `res` the result so far, `present` the present pages with their bytes, and
`access` the last access of the program. A page from the heap holds `Junk` until
something is stored in it. Addresses do not wrap. **Algorithm** has the rounding
to pages that it shares with Files and Kmalloc.

**Files** is the VFS (path lookup, dentry cache, counts, `Inode::read()`) and the
system calls that hold references: `open`, `creat`, `close`, `lseek`, `read`,
`mmap`, `exit`, of several processes, one call after another. `op` is the call in
progress. A path lookup takes a step per component and `close()` one per dentry it
deletes, of the chain of parents that `~Dentry()` recurses along; `unhash` are the
deleted dentries that are still in the dentry cache, since the erasure follows the
recursion. `trail` is a history: the dentries the first lookup of `creat()` has
passed. `panic` names the assertion that failed; a lookup through a regular file
fails one (fat32.cc:224). The inode of an entry is its start cluster as `lookup()`
computes it, and entries for which the same number comes out are of one kind and
size here; Fat32 has those that are not. An offset of 64 bits is passed on as a
`size_t` (process.cc:269), which is the constant `SizeMod`. `exit()` changes
nothing, because `destroy_thread()` of the caller does not return and the process
object is never deleted.

### Storage

**BootFat** is the loader's search for KERNEL.BIN and the read of its cluster
chain, with the one FAT sector it keeps and what the sector buffer held before; FAT
entries may have their four reserved bits set, which the chain read masks only
where it tests for the end and where it computes the data sector.
**Fat32** is the kernel's driver, lease by lease: regions of the partition, names
to 8.3 and back, directory scan across pages and clusters, the inodes found and
made by start cluster, and the page of the device that holds a page of a file.
Clusters are of any number of sectors. Both compute the start cluster as the code
does, `(cluster_hi << 2) | cluster_lo`. Where the code leaves what it was given,
`fat_pc` says so: "past the end" of a chain, "overrun" of the page buffer
(`iterate_dir()` looks for a cluster of entries in every page), "astray" beyond
what a 32-bit byte address reaches, "not whole pages" and "not aligned" at the
assertions on sizes and addresses (the place -1 of an offset beyond the end of a
file is not aligned). `get_dev_offset()` steps down by clusters modulo 2^64.
**LruCache** is `util/lru.h`: the map of nodes with their
counts, the list of evictable nodes, the leases clients hold, and for each thread
the `get()` that waits in `populate_cache()`, where others run. **LeaseCache** is
what it promises: a key that somebody holds a lease on stays in the cache. A slot
of `Lease` is a Lease object or a reference taken by hand with `inc_leases()`;
moving a Lease only renames it.

**Ahci** is the driver's set-up of the ports and `read_blocking()`, and a host
adapter (external) that starts and stops its engines, fetches commands, moves the
sectors of one PRDT entry per step, and completes or fails a command at any moment. **Pci** reads the configuration space register by
register and enumerates a machine of up to three buses in one call.

### Library

**IntrusiveLinks** gives the pointer stores of `util/intrusive_list.h` as
functions of all `_next` and `_prev` members. **IntrusiveList** is the list with
one caller at a time, `clear()` iteration by iteration. **CircularList** is what
it promises: every node sees a sequence of others, push moves a node to one end,
erase takes it out. MCContainers has the refinement: the ring of a node is the
walk from it (`Walk`, `Rings`). **Deque** (ring of blocks), **NodeHashMap** (buckets into one list, rehash),
**NonstdList** (pointers, `splice`, move), **Vector** and **NonstdString** are
`nonstd/`, each beside a ghost `std`, the sequence or map its standard namesake
would be. **Libc** has the memory functions, number conversion, format parsing,
`snprintf`, `string_view` and the path splitter as functions, each beside a
reference definition. `snprintf` takes its arguments as the stack words of a call,
one or two per integer by its length. Views that are compared may hold NUL.
**Console** is the cursor and the scrolling buffer; the history
`sheet` has all rows ever written. **AtExit** is `__cxa_atexit()` and
`__cxa_finalize()`, with destructors that may register others; calls of
`__cxa_finalize()` do not nest.

### Proof and model-checking modules

The theorems are in **SchedulerProofs**, **AllocatorProofs** (SimplePFA and
Kmalloc), **PageTablesProofs**, **ProcessProofs** (ProcessMemory), **FilesProofs**,
**StorageProofs** (Ahci and Fat32), **LruCacheProofs** and **PlatformProofs** (Pic,
Traps, Console, AtExit and IntrusiveList). The **MC** modules name the
instances for TLC. MCContainers, MCMemory, MCStorage and MCThreads check several
modules in one run: `unit`, chosen in the initial state, says which one the
behaviour is about, only that one takes steps, and the rest keep their initial
values. Such a run is the union of the runs of its parts. The properties are
those of the parts, some of them conjoined where they are about one thing; each
conjunct stands with its own comment in the module of its part.

Definitions whose comment says "faulty variant" are not used by any
specification: each is a plausible mistake in the operator that follows it, with
which TLC finds the named property violated (`mutants` in PROJECT.json).

## Runs

| Run | Instance | What it shows |
|---|---|---|
| `sched_core` | the boot thread and four others, one process, TIDs 0..3 and InvalidTID = 4; the boot thread also destroys threads by TID | run queue, TIDs, assertions, address spaces, constructor context and round-robin order are right wherever ticks fall, through wrap-around of the TID counter, although a thread just looked up may run and exit first, and although a thread is destroyed in steps |
| `threads` | Scheduler with three threads besides the boot thread and fair ticks; Traps with a kernel and a user thread, two lines and two exceptions; Pic with every firmware mask of a few | every queued thread runs and every exit completes (ThreadsProgress); every trap, however nested, returns where it came from; the timer is served again; lines are remapped before interrupts are let in and masks are kept (RemapExact) |
| `memory` | BootMemory, SimplePFA, Kmalloc, PageTables, ProcessMemory, Files | usable regions, page frame table and the allocator's marks are exactly the free memory; what is in use at boot is kept; SimplePFA implements PageFrameAllocator, counts exactly, reuses and returns; heap objects are disjoint, backed and aligned; walks and TLB agree with what was mapped; a program's bytes and rights are those of its image, with the exceptions below; reference counts, caches, descriptors and reads are exact |
| `storage` | LruCache, BootFat, Fat32, Ahci, Pci | counts and evictable list are exact, held elements stay, `evict()` returns; the kernel image loaded is the file; lookups and file pages are right and their walks end; a read that succeeds has delivered its sectors, and ends whatever the adapter does; enumeration finds what is there |
| `containers` | IntrusiveList, Deque, NodeHashMap, NonstdList, Vector, NonstdString, Libc, Console, AtExit | list pointers implement the rings and `clear()` empties and returns; containers are their standard namesakes; library functions are their references; the screen is the tail of the output; destructors run once each |

The other runs are disagreements between the code and what its comments or
assertions say, each a counterexample that TLC finds:

| Run | What happens |
|---|---|
| `sched_boot_proc` | the boot thread's `proc` is read without having been assigned |
| `sched_exit_tid` | a process exits before its constructor has stored its TID |
| `runqueue_race` | a tick inside `push_back()`: `empty()` sees a half-linked sentinel |
| `kmalloc_race` | two callers: a page-sized object in the middle of a page |
| `esp0` | with two processes the TSS names the kernel stack of the wrong one |
| `file_pages` | every page of a longer file mapping shows the first |
| `start_cluster` | a file that begins in cluster 2^16 or later is looked up and another file's inode is returned |

The models also have behaviours that `entry()` does not exercise today: with a
second creator (`Creators`) two threads can get one TID, and with a second
process (`Proc`) a constructor may be resumed in the wrong address space. The
properties of `sched_core` are stated for the kernel as it boots, and the hazards
in PROJECT.json say where that matters.

Some properties carry a condition, stated in the definition, because the code is
right only under it:

- the image the loader reads is exact for files of whole sectors
  (`WholeSectors`): the last read is rounded down to sectors;
- a KERNEL.BIN is promised to be found in the first sector of the root directory
  (`ListedFirst`): the scan counts dirents as if they were four bytes long;
- a start cluster is computed by a shift of 2 where the halves are 16 bits apart,
  in the loader (fat.c:250) and in the driver (fat32.cc:245), so the image that is
  loaded, the inode a lookup returns and the pages of a file are right when files
  begin below cluster 2^16 (`Low`; all do on a volume of up to 256 MiB with the
  clusters of the image), and inodes also need files to begin in clusters of their
  own (`Identified`: two empty files share cluster 0); `start_cluster` shows what
  happens otherwise;
- walks stay in the chain, the buffer and the volume when the volume is as the
  Makefile makes it (`Formatted`: clusters of one page, data on page boundaries,
  all within a 32-bit byte address) and the directory has an end mark
  (`Terminated`), since the driver looks for nothing else. With clusters of several
  pages `iterate_dir()` reads beside its buffer, and `get_dev_offset()` steps
  below zero for all but the first page of a cluster; FilePageExact is about
  those first pages, with any cluster size;
- `ASSERT(running)` of `schedule()` holds once `bootstrap()` has run: `entry()`
  stores the scheduler before (entry.cc:108), and a tick in between fails it;
- an open descriptor reads at its offset modulo 2^32 (process.cc:269);
- the .bss pages of a program past the page its file part ends in are not zero:
  nothing clears a page of the heap. ProgramMemoryExact is about the others;
- an allocator for a part of memory, which only the unit tests make, may mark
  frames unusable that a region begun below it has (page_frame_allocator.cc:37);
  the runs have allocators for all of memory;
- `%hh` is listed in a comment and not parsed (libc.cc:64), `%l` takes 64 bits
  although a long has 32, and `==` of views stops at a NUL; all else of LibcExact is
  without exception;
- `resize(0)`, `clear()` and an append of nothing on a string that has no buffer
  store the terminator through nullptr; the string itself stays right;
- AHCI commands go to a table that was set up until a command has failed (`dead`):
  one slot of each port has a table;
- segments are covered when each is as the format has it (`WellFormed`: offset and
  address agree in a page, the file part is in the file and not larger than the
  segment, which ends below the stack) and their pages do not meet (`Loadable`);
- PCI devices with several functions must say so on each of them.

### Bounds

- Scheduler: `Thread` bounds the threads ever created; objects are never reused
  because `kfree()` does nothing. Two threads besides the running one give every
  order on the queue; `MaxTID` (65535 in the code) is small so that the counter
  wraps within the run: five threads over time share four TIDs.
- Traps: `MaxWords` bounds a kernel stack; an interrupt that would not leave room is
  not delivered. 18 words hold an interrupt inside a trap from user mode.
- BootMemory: pages of two units, hugepages of eight and a megabyte of eight, so
  that regions are unaligned, overlap page boundaries and hugepages; maps with
  entries in and out of order, and of up to one more than the table holds.
- SimplePFA: memory of up to `MaxFrame` frames with every normalised set of
  regions, so that the scan starts, wraps and ends in, before and after every
  kind of hole, and requests from 0 to more than the memory.
- Kmalloc: a page is four bytes and sizes are 0, part of a page, a page and more;
  `MaxObject` bounds the calls, enough to run out of the frames.
- PageTables: three entries per table (user, hugepage, devices), a map of low memory
  and six frames, which run out in the middle of `vmalloc()`. `ChangedPage` are the
  pages that are unmapped or marked uncacheable: one of a process, one of the kernel.
- ProcessMemory: pages of four bytes; a segment begins and ends at every place in
  a page; two segments apart, on one page, or overlapping; one that reaches into
  the stack and one whose file part is larger than it.
- Files: one process, as `entry()` creates, with two descriptors and a mapping that
  share dentries (the theorems are for any number of processes); two directories, a file of two pages, an empty file,
  and an entry whose start cluster comes out as that of the first file; paths
  to each, to nothing and through a file; offsets beyond `SizeMod`, which is 8.
- LruCache: two keys make the order of eviction matter, two threads let misses of
  one key overlap, three leases let an element be held twice while another is held
  once; `Node` bounds the elements ever made, so that one key can be evicted and
  fetched again.
- BootFat: every chain of up to three of four clusters, in every order, FAT entries
  with reserved bits, a file that begins past `LoSize` (8 where the code has 2^16),
  and directories of up to eight entries over two clusters.
- Fat32: all directories of up to three entries over two clusters, of every kind,
  two of which have the same start cluster to the driver; empty files and a
  subdirectory; clusters of half a page, a page and two pages; data off the page
  boundaries and out of reach (`DevSectors`); offsets in, at and behind the end.
- Ahci: two ports, two slots, two PRDT entries, three reads, `MaxSpin` turns of a polling loop.
- IntrusiveList: five nodes make two lists with neighbours, ends and detached
  nodes; nodes are all alike. Deque, Vector, NonstdString: four elements, which
  with blocks of two double the deque's array twice. NodeHashMap: five keys in two,
  four and five buckets. Libc: eight-bit integers, so that every one is tried.

Symmetry is used only in safety runs in which the permuted threads are alike.

### Fairness

- Scheduler (`threads`): the timer keeps ticking (`WF(Tick)`, the PIT is
  periodic), and a thread which gets the CPU again and again gets through the
  few instructions that finish its exit (`SF(FinishExit(t))`: a time slice is
  longer than they are).
- Traps (`WF(TrapNext)`) and BootFat (`WF(Next)`): the processor executes.
- SimplePFA, IntrusiveList, LruCache, Fat32: a call that has begun keeps
  executing (`WF` of its loop steps).
- Ahci: the driver's thread keeps running (`WF(DriverStep)`), the adapter fetches
  a command that is issued and completes or fails the one it has
  (`WF(Fetch)`, `WF(Complete \/ Fail)`), and an engine told to stop does so
  (`WF(Engine(p))`). A device that stays busy is allowed: the driver has a spin
  limit for it. After a failed command (`dead`) nothing is promised, because the
  driver does not restart the port.

## Proofs

TLAPS proves for every value of the constants:

- **Scheduler**, under `KernelConfig`: only the boot thread creates threads,
  no thread destroys another, one process; this is how `entry()` uses it (the
  boot thread that destroys others by TID is in `sched_core`).
  `KernelInv` is inductive. QueueExact and TidMapExact are not inductive alone:
  they need to know which objects are allocated but not yet named or queued
  (`BootInv`), that a thread pending deletion is the running one on its way out
  (`ExitInv`), that nothing exists before bootstrap, and, for the address space,
  that at most one thread belongs to the process and its TID is the stored one
  (`ProcInv`). From it follow SchedulerTypes, QueueIsExact, TidMapIsExact,
  ScheduleAssertions, LookupAssertions, OwnAddressSpace, and RoundRobin (an
  action property). ConstructorKeepsContext needs more: `InContext`, an
  invariant of its own over `KernelInv`, says that while the constructor is in the
  new context CR3 is the new directory whoever runs, since no other thread has a
  process; it assumes that the boot thread's `proc` begins as null
  (`BootProc = {NoProc}`), and `sched_boot_proc` shows what happens otherwise.
- **SimplePFA**: `PFAInv` says that every position between where the scan began
  and where it stands has been ruled out, measured by `Dist`, the distance in
  scan order, which equals `steps`; so when `steps` reaches the length, no run
  fits. SimplePFAImplements (the refinement), PFATypes and ReuseTheorem follow.
  FreeCountTheorem assumes `CountsAgree`, that the constructors' count and marks
  agree, which TLC checks for every map of `memory` as the initial case of
  FreeCountExact.
- **Kmalloc**, with one caller, for any page size, set of frames and sizes
  (`HeapConstants`): HeapDisjoint, HeapBacked, HeapPageAligned and HeapTyped.
  That objects are disjoint says nothing about the bytes that are not yet handed
  out, so `HeapInv` follows them through the statements of a call: at rest, the
  bytes from the arena to the end of its page are the heap's and no object's
  (`Resting`); after `alloc()` the new frames are (`Fetched`); before the object is
  cut off there is room for it at the arena, which is page-aligned if the object
  is a page (`Ready`). The frames come from PageFrameAllocator, so the theorems
  hold above SimplePFA, which implements it. HeapIsSound conjoins the three
  properties.
- **IntrusiveList**: erase and insertion of a detached node preserve that `_next`
  and `_prev` are inverse functions (LinksAlwaysAgree), for any set of nodes;
  hence the assertion in `empty()` holds with one caller at a time
  (EmptyAssertion), and no link is ever null (ListTypes). ClearLeavesNone: when
  `clear()` returns, its list is empty, since its iterator always stands just
  behind the node it was called on (`Clearing`), also after the erasure.
- **ProcessMemory**, for any page size, stack, file and set of images. ProgramMemory:
  ProgramMemoryExact, with the exceptions named above. What the loader has done is
  said area by area: `ProcessInv` has that the areas are sorted and aligned and a
  present page has the rights of its area and the file page the area begins with
  (`Sound`), that the areas cover the pages of the segments done so far and, at the
  end, of the stack, and no other (`ShouldCover`), and what each segment has left
  behind: its first and last page with the bytes of the image, and the area of the
  pages between (`Mapped`).
- **Files**, for any tree, paths, files and numbers of processes and descriptors,
  under `FilesAssumption`. ReferencesExact: RefsExact. DescriptorsSound:
  DescriptorsExact. Counts and caches are inductive with `UnhashOk` (what is in the
  cache and no longer alive is what `close()` goes on with) and `Trail`: the
  dentries the first lookup has passed are cached, so that the second lookup of
  `creat()`, for the parent, goes the same way and creates nothing that nobody
  holds. That a read is exact is shown byte by byte, from the page each is copied
  from.
- **LruCache**: that counts and list are exact is not inductive alone. `LruInv`
  adds that a node is cached under its own key (`KeysAgree`), that the lease a
  waiting `get()` will fill is empty and its own (`SlotsOwn`), and that an evicted
  node has a count of at most 0, so that the second destruction of the lease it was
  evicted through cannot put it back on the list (`DroppedLow`). LruCounts,
  LruListExact and LeaseRefinement follow, for any number of threads, keys and
  leases.
- **PageTables**, for tables of any size, any number of directories, frames and
  pages of a call, under `TablesAssumption` (the kernel's share of the addresses
  begins at an entry of its own; device pages and the page cache's buffer are in
  it and in no hugepage; LowPage is in the first entry). TablesExact: every
  directory maps exactly what was mapped in it, and no frame of a process is shown
  twice. TranslationsFresh: the cached translation is the one of the tables in use.
  That walks are exact is not inductive: a store into a table must not show in
  another directory. `TablesInv` adds that a table has one owner, an entry of one
  directory (`Shape`), that frames of processes are no tables and have one user
  (`Private`), and for each loop that is running which of its pages are done.
- **Ahci**, for any number of ports, slots, PRDT entries and reads, where a page
  is read with one entry (`AhciAssumption`). ReadsExact: a read reported as successful
  has put its sectors in memory and changed nothing else. `AhciInv` says where driver
  and adapter are to each other: which slot is issued, what its table says, that
  memory is what was asked for but for the entry the device is at, and that a port
  with an error has stopped for good (`dead`).
- **Fat32**, for every disk of `DiskAssumption` (file and directory are linked
  chains long enough for what they hold, and the directory's ends and has no cluster
  twice), every cluster and sector size. WalksAreExact: a lookup passes over no entry
  before the end mark and returns the inode made of it (if `Identified` and `Low`),
  the first page of each cluster of a file comes from that cluster (if `Low`),
  the one buffer is leased once at a time; and no walk leaves its chain, the buffer
  or the volume where the volume is `Formatted`, which fixes the cluster size.
  `FatInv` says what the walk in progress has behind it (`DirWalk`, `FileWalk`), that
  the table of inodes has each under its start cluster and made of an entry
  (`InodesTrue`), and that the sector being read is the one with the entry of its
  cluster.
- **Pic**, for any offsets, lines and masks. Remapped: RemapExact. `PicInv` has a
  stage for each chip, a function of how far the interleaved sequence of port writes
  has come.
- **Console**, of any size (`ConsoleAssumption`: it has a row and a column).
  ScreenShows: the screen is the end of the sheet. The buffer is scrolled by moving
  cells by the width of a row, so `ConsoleInv` and its lemmas are about the row and
  column of a cell (`CellIs`, `CellBelow`), and where the cursor is on the sheet.
- **AtExit**, for a table of any size. FinalizesExactly: every destructor asked for
  is called, none twice. `AtExitInv`: what was called has been cleared or is the one
  being called, and what the loop has passed is settled.
- **Traps**, for any threads, lines, exceptions and height of the stacks, if at most
  one thread runs in user mode (`OneUser`; `entry()` creates one process, and
  `esp0` shows what two lead to). ReturnsRight: every `iret` goes back where its
  thread was. `TrapInv`: the stack of each thread consists of its frames (`Laid`),
  each as high as the handler for the one below had filled the stack when it was
  interrupted (`Level`), so that what the stub drops is what lies above the last
  frame; and only a user thread has been in user mode, with the TSS naming it.

LookupAssertions (a TID that is looked up is found; overrides do not nest) is
proved and not checked separately: it is part of `KernelInv`. The type invariants
are proved and not part of a run.

Only model-checked:

- liveness, which is out of the prover's reach: AllocExact, ClearEnds,
  ThreadsProgress, TimerServed, EvictReturns, KernelLoaded, WalkEnds,
  AdapterAnswers;
- what needs induction over data or recursive definitions: RingsSpec,
  UsableRegionsExact and BootMemoryKept (folds over the memory map), SequencesExact
  and MapExact (the containers against their namesakes), LibcExact, EnumerationExact
  (Pci), and the conversion of names to 8.3 in LookupExact;
- the scheduler with a boot thread that destroys others (`Killers`), which
  `sched_core` checks.

The scheduler theorems take list operations as atomic; `runqueue_race` shows
where the code departs from that. Likewise `kmalloc_race` for the one caller of
the heap theorems.

## Not modelled

Left out of the modelled parts: statistics, logging, wording of output, the
contents of stacks other than return frames, and operations without a caller
(`pic::disable()`, reading from the serial port).

Not modelled at all, with the reason in PROJECT.json: the boot sector and mode
switches (BIOS calls on a straight line), `entry()` (its order is what the other
modules begin from), ownership and hashing helpers, bit utilities, the serial
port (polled output), user programs.

Limits of what is modelled:

- operations of `tid_map` are one step in Scheduler, and operations of the
  containers one step in their modules: a switch in the middle of a hash map
  operation is not modelled;
- `++refcount` and the list operation that follows it are one step in LruCache;
- the cursor of the console has one writer at a time;
- `mmap()` is called with page-aligned address and offset, as the loader does;
- directories other than the root are entries without content in Fat32, and paths
  are sequences of components in Files;
- the store through nullptr of an empty string is left out of NonstdString, as is
  the undefined argument behind `%hh` in Libc;
- BootFat's disk is within 4 GiB;
- the components of a union run are checked side by side and not against each
  other. What connects them is stated on both sides: the map BootMemory hands over
  is of the form SimplePFA begins with, Kmalloc stands on PageFrameAllocator,
  Fat32 on the one lease of the page cache.
