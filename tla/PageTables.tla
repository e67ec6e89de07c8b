----------------------------- MODULE PageTables -----------------------------
(***************************************************************************)
(* Page directories and page tables (arch/x86/page_table.cc) and the       *)
(* mappings made of them (mm/virt.cc), with the translation cache of the   *)
(* CPU.  A frame holds a table of Entries entries.  The heap hands out     *)
(* frames in order and takes none back; their contents are not cleared.    *)
(* The loops of vmalloc(), ioremap() and clone_kernel_page_directory() take *)
(* a step for every page or entry; call is the loop that is running.       *)
(***************************************************************************)
EXTENDS Integers

CONSTANTS Entries,             \* entries of a table; 1024 in the code
          Kernel,              \* hhdm_start / HUGE_PG_SZ
          Huge,                \* the entries that are hugepages
          LowPage,             \* the pages of the bootloader's map of low memory
          HeapFrames,          \* bound: number of frames
          Garbage,             \* what a frame can hold when it is handed out
          Device,              \* frames of device memory and of the page cache
          UserPage, buf,       \* pages for vmalloc(); the page cache's buffer
          ChangedPage,         \* pages that are unmapped or marked uncacheable
          MaxPages,            \* bound: pages of one call
          io_map_start, io_map_sz

VARIABLES mem, next,           \* contents of the frames; the next free frame
          cr3,
          tlb,                 \* a cached translation [v, pte]; one shows what many would
          io_region_offset,
          call,
          view                 \* history: what each directory is meant to map

tableVars == <<mem, next, cr3, tlb, io_region_offset, call, view>>

Index == 0..(Entries - 1)
Page == 0..(Entries * Entries - 1)
pd_idx(v) == v \div Entries
pt_idx(v) == v % Entries

Absent == [p |-> FALSE]
Pde(f) == [p |-> TRUE, ps |-> FALSE, addr |-> f]
HugePde == [p |-> TRUE, ps |-> TRUE]
Pte(f, u_s, r_w, pcd) == [p |-> TRUE, addr |-> f, u_s |-> u_s, r_w |-> r_w, pcd |-> pcd]
NoTlb == [v |-> 0, pte |-> Absent]
Cleared == [i \in Index |-> Absent]
Idle == [op |-> "none"]

\* The kernel's share of the addresses: entries from Kernel on, of which the pages
\* for devices and for the page cache are in no hugepage; processes have the rest.
ASSUME TablesAssumption ==
  /\ Entries \in Nat \ {0} /\ Kernel \in 1..(Entries - 1) /\ Huge \subseteq Kernel..(Entries - 1)
  /\ HeapFrames \in Nat /\ HeapFrames >= 2
  /\ LowPage \subseteq Index /\ \A g \in Garbage : g = [i \in Index |-> g[i]]
  /\ MaxPages \in Nat /\ io_map_start \in Nat /\ io_map_sz \in Nat
  /\ Device \subseteq Nat /\ UserPage \subseteq Nat /\ ChangedPage \subseteq Page
  /\ \A v \in UserPage, i \in 0..(MaxPages - 1) : v + i \in Page /\ pd_idx(v + i) < Kernel
  /\ \A v \in {buf} \cup (io_map_start..(io_map_start + io_map_sz - 1)) :
       v \in Page /\ Kernel <= pd_idx(v) /\ pd_idx(v) \notin Huge

\* The bootloader's directory: low memory at its own addresses, and the HHDM.
BootDirectory == [i \in Index |-> IF i = 0 THEN Pde(2) ELSE IF i \in Huge THEN HugePde ELSE Absent]
LowMap(v) == IF v \in LowPage THEN Pte(v, FALSE, TRUE, FALSE) ELSE Absent

TablesInit ==
  /\ \E g \in Garbage : mem = [f \in 1..HeapFrames |-> IF f = 1 THEN BootDirectory
                                                       ELSE IF f = 2 THEN [i \in Index |-> LowMap(i)] ELSE g]
  /\ next = 3 /\ cr3 = 1 /\ tlb = NoTlb /\ io_region_offset = 0 /\ call = Idle
  /\ view = [d \in {1} |-> [v \in Page |-> LowMap(v)]]

\* What the walk of a directory finds; fetch_pte() followed by a read.
Walk(m, pd, v) ==
  LET pde == m[pd][pd_idx(v)]
  IN  IF pde.p /\ ~pde.ps THEN m[pde.addr][pt_idx(v)] ELSE Absent

\* A new page table, in frame n.  Faulty variant: memset() is forgotten.
NewTable_Dirty(n) == mem[n]
NewTable(n) == Cleared

\* map() where n is the next free frame: into a table that is there, or into a new
\* one.
map(n, v, pte) ==
  LET pde == mem[cr3][pd_idx(v)]
  IN  /\ \/ /\ ~pde.p /\ n <= HeapFrames
            /\ mem' = [mem EXCEPT ![n] = [NewTable(n) EXCEPT ![pt_idx(v)] = pte],
                                  ![cr3] = [@ EXCEPT ![pd_idx(v)] = Pde(n)]]
            /\ next' = n + 1
         \/ /\ pde.p /\ ~mem[pde.addr][pt_idx(v)].p
            /\ mem' = [mem EXCEPT ![pde.addr] = [@ EXCEPT ![pt_idx(v)] = pte]]
            /\ next' = n
      /\ view' = [view EXCEPT ![cr3] = [@ EXCEPT ![v] = pte]]

\* map() has no frame for the table, or the page is mapped already.
Refused(n, v) ==
  LET pde == mem[cr3][pd_idx(v)]
  IN  /\ (~pde.p /\ n > HeapFrames) \/ (pde.p /\ mem[pde.addr][pt_idx(v)].p)
      /\ next' = n /\ UNCHANGED <<mem, view>>

\* The loop goes on to the next page, or ends.
NextPage == call' = IF call.i + 1 < call.pg THEN [call EXCEPT !.i = @ + 1] ELSE Idle

vmalloc(v, pg, writable) ==
  /\ call = Idle
  /\ call' = [op |-> "vmalloc", v |-> v, i |-> 0, pg |-> pg, w |-> writable]
  /\ UNCHANGED <<mem, next, cr3, tlb, io_region_offset, view>>

\* A page of vmalloc(): a frame from the heap, which stays taken when it cannot be
\* mapped.
VmallocPage ==
  /\ call.op = "vmalloc"
  /\ \/ next > HeapFrames /\ call' = Idle /\ UNCHANGED <<mem, next, view>>
     \/ /\ next <= HeapFrames /\ NextPage
        /\ map(next + 1, call.v + call.i, Pte(next, TRUE, call.w, FALSE))
     \/ next <= HeapFrames /\ call' = Idle /\ Refused(next + 1, call.v + call.i)
  /\ UNCHANGED <<cr3, tlb, io_region_offset>>

io_alloc(pg) == IF io_region_offset + pg > io_map_sz THEN 0 ELSE io_map_start + io_region_offset

\* A driver maps its registers: io_alloc() and ioremap().
MapDevice(phys, pg) ==
  /\ call = Idle /\ io_alloc(pg) # 0
  /\ io_region_offset' = io_region_offset + pg
  /\ call' = [op |-> "ioremap", v |-> io_alloc(pg), i |-> 0, pg |-> pg, phys |-> phys]
  /\ UNCHANGED <<mem, next, cr3, tlb, view>>

ioremap ==
  /\ call.op = "ioremap"
  /\ \/ map(next, call.v + call.i, Pte(call.phys + call.i, FALSE, TRUE, TRUE)) /\ NextPage
     \/ Refused(next, call.v + call.i) /\ call' = Idle
  /\ UNCHANGED <<cr3, tlb, io_region_offset>>

\* The page cache maps a page at its buffer (VirtLease), and asserts that it could.
MapBuffer(f) ==
  /\ call = Idle
  /\ map(next, buf, Pte(f, FALSE, TRUE, FALSE))
  /\ UNCHANGED <<cr3, tlb, io_region_offset, call>>

SetPte(v, pte) ==
  /\ mem' = [mem EXCEPT ![mem[cr3][pd_idx(v)].addr] = [@ EXCEPT ![pt_idx(v)] = pte]]
  /\ view' = [view EXCEPT ![cr3] = [@ EXCEPT ![v] = pte]]

\* Faulty variant: the translation stays cached.
invlpg_Not(v) == UNCHANGED tlb
invlpg(v) == tlb' = IF tlb.v = v THEN NoTlb ELSE tlb

unmap(v) ==
  /\ call = Idle /\ Walk(mem, cr3, v).p
  /\ SetPte(v, Absent) /\ invlpg(v)
  /\ UNCHANGED <<next, cr3, io_region_offset, call>>

Uncached(pte) == Pte(pte.addr, pte.u_s, pte.r_w, TRUE)

mark_uncacheable(v) ==
  /\ call = Idle /\ Walk(mem, cr3, v).p
  /\ SetPte(v, Uncached(Walk(mem, cr3, v))) /\ invlpg(v)
  /\ UNCHANGED <<next, cr3, io_region_offset, call>>

\* clone_kernel_page_directory(): an empty directory, then the kernel's entries one
\* by one.  Without memory it writes through a null pointer; here it stops.
clone_kernel_page_directory ==
  /\ call = Idle /\ next <= HeapFrames
  /\ mem' = [mem EXCEPT ![next] = Cleared] /\ next' = next + 1
  /\ call' = [op |-> "clone", pd |-> next, i |-> Kernel]
  /\ UNCHANGED <<cr3, tlb, io_region_offset, view>>

\* Every kernel table is copied.  Faulty variant: the tables are shared.
CopiedPde_Shared(pde, f) == pde
CopiedPde(pde, f) == IF pde.ps THEN pde ELSE Pde(f)

CloneEntry ==
  LET pde == mem[cr3][call.i]
  IN  /\ call.op = "clone" /\ call.i < Entries
      /\ \/ ~pde.p /\ UNCHANGED <<mem, next>>
         \/ /\ pde.p /\ pde.ps
            /\ mem' = [mem EXCEPT ![call.pd] = [@ EXCEPT ![call.i] = CopiedPde(pde, next)]]
            /\ UNCHANGED next
         \/ /\ pde.p /\ ~pde.ps /\ next <= HeapFrames
            /\ mem' = [mem EXCEPT ![next] = mem[pde.addr],
                                  ![call.pd] = [@ EXCEPT ![call.i] = CopiedPde(pde, next)]]
            /\ next' = next + 1
      /\ call' = [call EXCEPT !.i = @ + 1]
      /\ UNCHANGED <<cr3, tlb, io_region_offset, view>>

\* The directory is a process's: it is meant to map what the kernel does.
Cloned ==
  /\ call.op = "clone" /\ call.i = Entries /\ call' = Idle
  /\ view' = [d \in DOMAIN view \cup {call.pd} |->
                IF d # call.pd THEN view[d]
                ELSE [v \in Page |-> IF pd_idx(v) < Kernel THEN Absent ELSE view[cr3][v]]]
  /\ UNCHANGED <<mem, next, cr3, tlb, io_region_offset>>

\* A write of CR3 drops every translation: CR4.PGE is off, so also those with g = 1.
set_page_directory(pd) ==
  /\ call = Idle
  /\ cr3' = pd /\ tlb' = NoTlb
  /\ UNCHANGED <<mem, next, io_region_offset, call, view>>

\* The CPU translates a page, at any time, and caches what it finds.
Translate(v) ==
  /\ Walk(mem, cr3, v).p /\ tlb' = [v |-> v, pte |-> Walk(mem, cr3, v)]
  /\ UNCHANGED <<mem, next, cr3, io_region_offset, call, view>>

TablesNext ==
  \/ \E v \in UserPage, pg \in 1..MaxPages, w \in BOOLEAN : vmalloc(v, pg, w)
  \/ \E f \in Device, pg \in 1..MaxPages : MapDevice(f, pg)
  \/ VmallocPage \/ ioremap
  \/ \E f \in Device : MapBuffer(f)
  \/ \E v \in ChangedPage : unmap(v) \/ mark_uncacheable(v)
  \/ \E v \in Page : Translate(v)
  \/ clone_kernel_page_directory \/ CloneEntry \/ Cloned
  \/ \E pd \in DOMAIN view : set_page_directory(pd)

TablesSpec == TablesInit /\ [][TablesNext]_tableVars

-----------------------------------------------------------------------------
\* Every directory maps exactly what was mapped while it was in use or when it was
\* cloned: no table belongs to two directories, so that a change in one address
\* space shows in no other (page_table.cc:251).
DirectoriesExact == \A pd \in DOMAIN view : \A v \in Page : Walk(mem, pd, v) = view[pd][v]

\* The frames that directories and their tables are in.
TableFrames ==
  DOMAIN view \cup {mem[u[1]][u[2]].addr :
                      u \in {x \in (DOMAIN view) \X Index : mem[x[1]][x[2]].p /\ ~mem[x[1]][x[2]].ps}}

\* A frame that vmalloc() gave to a process is in one place of one directory, and
\* holds no table.
UserFramesPrivate ==
  \A d \in DOMAIN view, v \in Page :
    Walk(mem, d, v).p /\ Walk(mem, d, v).u_s =>
      /\ Walk(mem, d, v).addr \notin TableFrames
      /\ \A e \in DOMAIN view, w \in Page :
           /\ Walk(mem, e, w).p /\ Walk(mem, e, w).u_s
           /\ Walk(mem, e, w).addr = Walk(mem, d, v).addr
           => d = e /\ v = w

\* A walk of the page tables finds what was mapped and nothing else, and no process
\* reaches a table or a frame of another one (page_table.cc, virt.cc).
WalkExact == DirectoriesExact /\ UserFramesPrivate

\* "I don't think we need to invlpg here since we do it when unmapping pages"
\* (page_table.cc:222): no cached translation differs from the tables in use, over
\* map, unmap, change of attributes and change of directory.
TlbCoherent == tlb.pte.p => tlb.pte = Walk(mem, cr3, tlb.v)
=============================================================================
