------------------------------ MODULE MCMemory ------------------------------
\* Memory, from the map the firmware reports to the pages and the files of a process,
\* side by side: unit says which part a behaviour is about, and the others stay at
\* their beginning.
EXTENDS MCSimplePFA, Kmalloc, PageTables, ProcessMemory, Files, TLC

CONSTANT NULL

VARIABLES unit,
          bPc, bFirmware, bMap, bKernel, bPd, bPt, bArena, bUsable, bPft

bootVars == <<bPc, bFirmware, bMap, bKernel, bPd, bPt, bArena, bUsable, bPft>>
all == <<unit, vars, bootVars, heapVars, tableVars, processVars, fileVars>>

-----------------------------------------------------------------------------
\* Maps of memory below and above the first megabyte, of 8 units, with entries that
\* overlap, are out of order or not aligned, and maps of up to 10 entries where
\* there is room for 9; kernels that fit and one that does not.
Entry(b, n, t) == [base |-> b, len |-> n, type |-> t]
Low == {Entry(0, n, "usable") : n \in {8, 9, 10, 16}}
High == {<<Entry(b, n, "usable")>> : b \in {16, 17}, n \in {5, 8, 13}}
          \cup {<<Entry(b, n, t), Entry(b + n + g, m, "usable")>> :
                  b \in {16, 17}, n \in {6, 8}, t \in {"usable", "reserved"}, g \in 0..1, m \in {1, 6, 9}}
Ordered == {<<l>> \o h : l \in Low, h \in High}
Unordered == {h \o <<l>> : l \in Low, h \in High}
Many == {[k \in 1..n |-> IF k = 1 THEN Entry(0, 10, "usable") ELSE IF k = 2 THEN Entry(16, 20, "usable")
            ELSE Entry(36 + k, 1, "reserved")] : n \in 2..10}
FirmwareMaps == Ordered \cup Unordered \cup Many

B == INSTANCE BootMemory WITH
       PG_SZ <- 2, HUGE_PG_SZ <- 8, MB <- 8, GB <- 64, e820_mm_max_entries <- 9, mbr_start <- 5, TextLen <- 3,
       HM_START <- 64, KERNEL_LOAD_ADDR <- 112, KERNEL_MAP_SZ <- 16, IO_MAP_SZ <- 8, PfdPerPage <- 8,
       Firmware <- FirmwareMaps, KernelLen <- {3, 4, 7, 17},
       pc <- bPc, firmware <- bFirmware, e820_mem_map <- bMap, kernel <- bKernel, pd <- bPd, pt_mem <- bPt,
       arena <- bArena, usable_regions <- bUsable, pft <- bPft

-----------------------------------------------------------------------------
\* What a frame may hold before it is used: tables of three entries that all show a
\* page of processes.
Remains == {[i \in Index |-> Pte(2, TRUE, TRUE, FALSE)]}

-----------------------------------------------------------------------------
\* Images of one segment at every offset in a page, of two segments that are apart,
\* share a page or overlap, of one that reaches into the stack or is larger in the
\* file than in memory, and of none, in pages of four bytes.
Segment(v, o, f, m, w) ==
  [load |-> TRUE, vaddr |-> v, offset |-> o, filesz |-> f, memsz |-> m, prot |-> [r |-> TRUE, w |-> w]]
NotLoaded == [Segment(0, 0, 0, 0, TRUE) EXCEPT !.load = FALSE]
OneSegment == {<<Segment(v, v - 4, f, f + x, f % 2 = 0)>> :
                 v \in 4..7, f \in {0, 1, 2, 3, 4, 5, 7, 8, 9}, x \in {0, 1, 4}}
TwoSegments == {<<Segment(4, 0, 5, 6, FALSE), NotLoaded, Segment(v, v % 4, f, f + 1, TRUE)>> :
                  v \in {0, 1, 7, 10, 12, 13}, f \in {0, 3, 8}}
Images == OneSegment \cup TwoSegments \cup {<<Segment(5, 2, 3, 3, TRUE)>>, <<Segment(21, 1, 2, 4, TRUE)>>, <<Segment(5, 1, 9, 3, FALSE)>>, <<>>}

FileBytes == [k \in 0..15 |-> k + 1]

-----------------------------------------------------------------------------
\* Two directories, a file of five bytes and an empty one, which has no cluster; the
\* entry of another file whose start cluster comes out as that of the first; paths to each, to nothing and through a file.  Offsets beyond what a size_t,
\* of 8 here, can hold.
DirEntry(hi, lo) == [cluster_hi |-> hi, cluster_lo |-> lo]
Directories == 2 :> ("d" :> DirEntry(0, 3) @@ "e" :> DirEntry(0, 0))
               @@ 3 :> ("f" :> DirEntry(0, 5) @@ "g" :> DirEntry(1, 1))
Bytes5 == 5 :> <<"a", "b", "c", "d", "e">> @@ 0 :> <<>>
Paths == {<<"", "d", "f">>, <<"d", "..", "e">>, <<"d">>, <<"d", "x">>, <<"e", "x">>, <<"d", "g">>}
Seeks == {<<0, "End">>, <<0, "Set">>, <<-4, "Cur">>, <<9, "Set">>}

\* A dentry is known by the names on its path: which address it has does not matter.
Places == {<<>>, <<"d">>, <<"e">>, <<"d", "f">>, <<"d", "g">>}
Top == <<>>
Place(d, name) == {Append(d, name)}

-----------------------------------------------------------------------------
OneLayout == CHOOSE l \in Layout : TRUE

UnitInit ==
  /\ unit \in {"pfa", "boot", "heap", "tables", "process", "files"}
  /\ unit = "pfa" \/ (start = OneLayout.start /\ end = OneLayout.end /\ regions = OneLayout.regions)
  /\ unit = "boot" \/ bFirmware = <<Entry(0, 10, "usable"), Entry(16, 8, "usable")>>
  /\ unit = "heap" \/ heap_usable = PageFrame
  /\ unit = "process" \/ elf = <<>>
  /\ Init /\ B!Init /\ HeapInit /\ TablesInit /\ ProcessInit /\ FilesInit

OnlyPfa(Act) == unit = "pfa" /\ Act /\ UNCHANGED <<unit, bootVars, heapVars, tableVars, processVars, fileVars>>

\* The other parts may rest, as they do at their end; the allocator always has a
\* step to take.
UnitNext ==
  \/ OnlyPfa(Next)
  \/ unit = "boot" /\ B!Next /\ UNCHANGED <<unit, vars, heapVars, tableVars, processVars, fileVars>>
  \/ unit = "heap" /\ HeapNext /\ UNCHANGED <<unit, vars, bootVars, tableVars, processVars, fileVars>>
  \/ unit = "tables" /\ TablesNext /\ UNCHANGED <<unit, vars, bootVars, heapVars, processVars, fileVars>>
  \/ unit = "process" /\ ProcessNext /\ UNCHANGED <<unit, vars, bootVars, heapVars, tableVars, fileVars>>
  \/ unit = "files" /\ FilesNext /\ UNCHANGED <<unit, vars, bootVars, heapVars, tableVars, processVars>>
  \/ unit # "pfa" /\ UNCHANGED all

UnitSpec == UnitInit /\ [][UnitNext]_all /\ WF_all(OnlyPfa(Scan))

\* alloc() of the page frames returns, however its two loops share the needle, and
\* gives the block that was just freed when it is asked for the same size again.
AllocExact == AllocReturns /\ ReuseAfterFree

\* The map handed over passes the assertions of normalize_mm(); the usable regions
\* are the whole pages the bootloader did not keep, and the page frame table covers
\* them and lies in the higher-half map (page_frame_table.cc); an allocator for all of
\* memory marks exactly the frames outside them (page_frame_allocator.cc:34).
UsableRegionsExact ==
  B!NormalizeAccepts /\ B!UsableRegionsExact /\ B!PftCovers /\ UsableExact

\* Nothing that is in use when the kernel starts (its image, the first page tables,
\* the stack) is in memory that is handed out or cleared, and the first page
\* directory shows the kernel and memory at their places (copy_kernel.c, page_table.c).
BootMemoryKept == B!BootMemoryKept /\ B!BootMapExact
=============================================================================
