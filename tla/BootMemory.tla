----------------------------- MODULE BootMemory -----------------------------
(***************************************************************************)
(* Physical memory from the firmware's E820 map to the kernel's page frame *)
(* table: the bootloader takes memory out of the map and notes it there    *)
(* (boot/page_table.c, boot/copy_kernel.c, boot/fat.c), builds the first   *)
(* page tables, and the constructor of PageFrameTable normalizes the map   *)
(* and takes its table out of it (mm/page_frame_table.cc).  The units of   *)
(* addresses are such that regions need not be page-aligned.               *)
(***************************************************************************)
EXTENDS Integers, Sequences, FiniteSets, SequencesExt, FiniteSetsExt

CONSTANTS
  PG_SZ, HUGE_PG_SZ, MB, GB,
  e820_mm_max_entries, mbr_start, TextLen,
  HM_START, KERNEL_LOAD_ADDR, KERNEL_MAP_SZ, IO_MAP_SZ,
  PfdPerPage,          \* page frame descriptors in a page
  Firmware,            \* the maps INT 0x15 may report: sequences of entries
  KernelLen,           \* sizes of KERNEL.BIN
  NULL

VARIABLES pc,          \* how far the boot has come; "halt" is a failed one
          firmware,    \* history: what the BIOS reported
          e820_mem_map, \* up to its null entry
          kernel,      \* [base, len] of the kernel image
          pd,          \* the page directory in use: page |-> page it maps to
          pt_mem,      \* where the page tables are
          arena,       \* the sector buffer of the FAT32 reader
          usable_regions, pft

vars == <<pc, firmware, e820_mem_map, kernel, pd, pt_mem, arena, usable_regions, pft>>

Entry(b, n, t) == [base |-> b, len |-> n, type |-> t]
Units(e) == e.base..(e.base + e.len - 1)
UnitsOf(S) == UNION {Units(e) : e \in S}
OfType(m, t) == {m[k] : k \in {i \in DOMAIN m : m[i].type = t}}
NoRegion == [base |-> 0, len |-> 0]

range_overlaps2(a, b) == a.base < b.base + b.len /\ b.base < a.base + a.len
range_subsumes2(a, b) == a.base <= b.base /\ a.base + a.len >= b.base + b.len
floor_pow2(n, d) == n - (n % d)
ceil_pow2(n, d) == floor_pow2(n - 1 + d, d)
hhdm_len == GB - (KERNEL_MAP_SZ + IO_MAP_SZ)

-----------------------------------------------------------------------------
\* The first page or hugepage from which len units lie in one usable region and
\* touch no region of another type.  Faulty variant: memory the bootloader has
\* taken is given again.
Blocks_NotBootloader(e, b, n) == e.type = "reserved" /\ b + n >= e.base /\ b <= e.base + e.len
Blocks(e, b, n) == e.type # "usable" /\ b + n >= e.base /\ b <= e.base + e.len

e820_alloc(m, n, incr) ==
  LET free == {b \in {k * incr : k \in 1..(((GB - 1) \div incr))} :
                 /\ \E i \in DOMAIN m : m[i].type = "usable"
                                        /\ range_subsumes2(m[i], [base |-> b, len |-> n])
                 /\ \A i \in DOMAIN m : ~Blocks(m[i], b, n)}
  IN  IF free = {} THEN NULL ELSE Min(free)

\* The last entry of the array must stay null.
Full(m) == Len(m) + 1 >= e820_mm_max_entries
e820_augment_bootloader(m, b, n, t) == IF Full(m) THEN m ELSE Append(m, Entry(b, n, t))

-----------------------------------------------------------------------------
Init ==
  /\ pc = "detect" /\ firmware \in Firmware /\ e820_mem_map = <<>>
  /\ kernel = NoRegion /\ pd = <<>> /\ pt_mem = NULL /\ arena = NULL
  /\ usable_regions = <<>> /\ pft = NoRegion

Halt == pc' = "halt"

\* The BIOS is asked for entries until it has no more or the array is full, which
\* only prints a message: the loops over the map then run past its end, into
\* memory that could hold anything, and the behaviour is not followed further.
detect_mem_map ==
  /\ pc = "detect"
  /\ e820_mem_map' = SubSeq(firmware, 1, Min({Len(firmware), e820_mm_max_entries}))
  /\ pc' = IF Len(firmware) >= e820_mm_max_entries THEN "overrun" ELSE "sections"
  /\ UNCHANGED <<firmware, kernel, pd, pt_mem, arena, usable_regions, pft>>

\* Stack and text of the bootloader.
augment_bootloader_text_stack_sections ==
  /\ pc = "sections"
  /\ LET m == e820_augment_bootloader(e820_mem_map, floor_pow2(mbr_start - PG_SZ, PG_SZ), PG_SZ,
                                      "bootloader")
     IN  /\ e820_mem_map' = e820_augment_bootloader(m, mbr_start, TextLen, "reclaimable")
         /\ IF Full(e820_mem_map) \/ Full(m) THEN Halt ELSE pc' = "arena"
  /\ UNCHANGED <<firmware, kernel, pd, pt_mem, arena, usable_regions, pft>>

\* copy_kernel(), up to the descriptor of the file system; no bootable partition
\* or no memory for the sector buffer end the boot.
fat32_init_desc(found) ==
  /\ pc = "arena"
  /\ LET b == e820_alloc(e820_mem_map, PG_SZ, PG_SZ)
     IN  IF ~found \/ b = NULL THEN Halt /\ UNCHANGED <<e820_mem_map, arena>>
         ELSE /\ e820_mem_map' = e820_augment_bootloader(e820_mem_map, b, PG_SZ, "reclaimable")
              /\ IF Full(e820_mem_map) THEN Halt /\ UNCHANGED arena
                 ELSE arena' = b /\ pc' = "kernel"
  /\ UNCHANGED <<firmware, kernel, pd, pt_mem, usable_regions, pft>>

\* The rest of copy_kernel(): memory for the image, and its entry.  What
\* e820_augment_bootloader() returns is not looked at here.
\* Faulty variant: the image is not entered in the map.
NoteKernel_Not(m, b, n) == m
NoteKernel(m, b, n) == e820_augment_bootloader(m, b, n, "bootloader")

copy_kernel(found, n) ==
  /\ pc = "kernel"
  /\ LET b == e820_alloc(e820_mem_map, n, HUGE_PG_SZ)
     IN  IF ~found \/ n > KERNEL_MAP_SZ \/ b = NULL THEN Halt /\ UNCHANGED <<e820_mem_map, kernel>>
         ELSE /\ kernel' = [base |-> b, len |-> n] /\ pc' = "paging"
              /\ e820_mem_map' = NoteKernel(e820_mem_map, b, n)
  /\ UNCHANGED <<firmware, pd, pt_mem, arena, usable_regions, pft>>

\* Low memory without the null page, the HHDM and the kernel, by pages and
\* hugepages.  Faulty variant: the HHDM is not shortened by the IO area.
HhdmEnd_Io == GB - KERNEL_MAP_SZ
HhdmEnd == GB - KERNEL_MAP_SZ - IO_MAP_SZ
Identity == [va \in {p \in PG_SZ..(MB - 1) : p % PG_SZ = 0} |-> va]
Hhdm == [va \in {p \in HM_START..(HM_START + HhdmEnd - 1) : p % HUGE_PG_SZ = 0}
           |-> va - HM_START]
KernelMap(b) ==
  [va \in {p \in KERNEL_LOAD_ADDR..(KERNEL_LOAD_ADDR + KERNEL_MAP_SZ - 1) : p % HUGE_PG_SZ = 0}
     |-> va - KERNEL_LOAD_ADDR + b]

\* No entry of the page directory is set twice, by a table or by a hugepage (the
\* assertions in _pt_map_pg and _pt_map_hugepg).
PdIndex(f) == {va \div HUGE_PG_SZ : va \in DOMAIN f}
Clash(b) == \/ PdIndex(Hhdm) \cap (PdIndex(Identity) \cup PdIndex(KernelMap(b))) # {}
            \/ PdIndex(KernelMap(b)) \cap PdIndex(Identity) # {}

\* checked: check_cpuid_features() and check_paging_setup() find what they expect.
pt_setup(checked) ==
  /\ pc = "paging"
  /\ LET b == e820_alloc(e820_mem_map, 2 * PG_SZ, PG_SZ)
     IN  IF ~checked \/ b = NULL \/ Clash(kernel.base) THEN Halt /\ UNCHANGED <<pd, pt_mem, e820_mem_map>>
         ELSE /\ pd' = [va \in DOMAIN Identity \cup DOMAIN Hhdm \cup DOMAIN KernelMap(kernel.base)
                          |-> IF va \in DOMAIN Identity THEN Identity[va]
                              ELSE IF va \in DOMAIN Hhdm THEN Hhdm[va]
                              ELSE KernelMap(kernel.base)[va]]
              /\ pt_mem' = b
              /\ e820_mem_map' = e820_augment_bootloader(e820_mem_map, b, 2 * PG_SZ, "bootloader")
              /\ IF Full(e820_mem_map) THEN Halt ELSE pc' = "pft"
  /\ UNCHANGED <<firmware, kernel, arena, usable_regions, pft>>

-----------------------------------------------------------------------------
\* normalize_mm(): each bootloader entry cuts the usable region around it in
\* two and becomes the second half.  ok is FALSE when an ASSERT fails.
Overlapped(m, i) == {j \in DOMAIN m \ {i} : range_overlaps2(m[i], m[j])}

Above(b) == b.base + b.len

Split(s, i) ==
  LET m == s.m
      j == Min(Overlapped(m, i))
      u == m[j]
      b == m[i]
  IN  IF b.type # "bootloader" \/ Overlapped(m, i) = {} THEN s
      ELSE [m |-> [m EXCEPT ![j].len = b.base - u.base,
                            ![i] = Entry(Above(b), u.base + u.len - Above(b), "usable")],
            ok |-> s.ok /\ u.type = "usable" /\ range_subsumes2(u, b)]

\* The overlaps that may remain are of usable and bootloader-reclaimable regions.
Apart(a, b) ==
  ~range_overlaps2(a, b) \/ {a.type, b.type} = {"usable", "reclaimable"}

\* Whole pages of a usable region.  Faulty variant: its base is rounded down.
Align_Down(r) ==
  LET e == floor_pow2(r.base + r.len, PG_SZ)
      b == floor_pow2(r.base, PG_SZ)
  IN  [base |-> b, len |-> IF e > b THEN e - b ELSE 0]
Align(r) ==
  LET e == floor_pow2(r.base + r.len, PG_SZ)
      b == ceil_pow2(r.base, PG_SZ)
  IN  [base |-> b, len |-> IF e > b THEN e - b ELSE 0]

normalize_mm(m) ==
  LET split == FoldLeft(Split, [m |-> m, ok |-> TRUE], [k \in DOMAIN m |-> k])
      sorted == SortSeq(split.m, LAMBDA a, b : a.base < b.base)
      usable == SelectSeq(sorted, LAMBDA e : e.type = "usable")
      aligned == [k \in DOMAIN usable |-> Align(usable[k])]
  IN  [regions |-> SelectSeq(aligned, LAMBDA r : r.len > 0),
       ok |-> split.ok /\ \A k \in 2..Len(sorted) : Apart(sorted[k - 1], sorted[k])]

\* alloc_pft(): one descriptor for each page up to the end of the last region,
\* from the first region they fit in.
\* Faulty variant: a last, partial page of descriptors is not counted.
mem_limit(rs) == Last(rs).base + Last(rs).len
PftLen_Down(rs) == PG_SZ * ((mem_limit(rs) \div PG_SZ) \div PfdPerPage)
PftLen(rs) ==
  LET pages == mem_limit(rs) \div PG_SZ IN PG_SZ * ((pages + PfdPerPage - 1) \div PfdPerPage)
alloc_pft(rs) == {k \in DOMAIN rs : rs[k].len >= PftLen(rs)}

\* entry(): the constructor of PageFrameTable; a failed ASSERT stops the kernel.
PageFrameTable ==
  /\ pc = "pft"
  /\ LET n == normalize_mm(e820_mem_map)
         rs == n.regions
         k == Min(alloc_pft(rs))
         p == [base |-> rs[k].base, len |-> PftLen(rs)]
     IN  IF ~n.ok THEN pc' = "assert" /\ UNCHANGED <<usable_regions, pft>>
         ELSE IF rs = <<>> \/ alloc_pft(rs) = {} \/ p.base + p.len > hhdm_len
         THEN Halt /\ UNCHANGED <<usable_regions, pft>>
         ELSE /\ pft' = p /\ pc' = "done"
              /\ usable_regions' = [rs EXCEPT ![k] = [base |-> @.base + p.len, len |-> @.len - p.len]]
  /\ UNCHANGED <<firmware, e820_mem_map, kernel, pd, pt_mem, arena>>

Next ==
  \/ detect_mem_map \/ augment_bootloader_text_stack_sections
  \/ \E found \in BOOLEAN : fat32_init_desc(found)
  \/ \E found \in BOOLEAN, n \in KernelLen : copy_kernel(found, n)
  \/ \E checked \in BOOLEAN : pt_setup(checked)
  \/ PageFrameTable

Spec == Init /\ [][Next]_vars

-----------------------------------------------------------------------------
\* Whatever the firmware reports, as long as its regions do not overlap and the
\* bootloader itself lies in usable memory, the map the bootloader hands over
\* passes every ASSERT of normalize_mm() (page_frame_table.cc:98-138).
NormalizeAccepts == pc # "assert"

\* Usable regions are "4KB-aligned, non-overlapping, and sorted"
\* (page_frame_table.h:146), and they are, with the page frame table, exactly
\* the whole pages of usable memory that the bootloader did not keep.
Taken == UnitsOf(OfType(e820_mem_map, "bootloader"))
Whole(p, S) == p..(p + PG_SZ - 1) \subseteq S
UsableRegionsExact ==
  pc = "done" =>
    LET free == UnitsOf(OfType(firmware, "usable")) \ Taken
        pages == {p \in free : p % PG_SZ = 0 /\
                    \E e \in OfType(firmware, "usable") : Whole(p, Units(e) \ Taken)}
        all == Range(usable_regions) \cup {pft}
    IN  /\ UnitsOf(all) = UNION {p..(p + PG_SZ - 1) : p \in pages}
        /\ \A k \in DOMAIN usable_regions :
             usable_regions[k].base % PG_SZ = 0 /\ usable_regions[k].len % PG_SZ = 0
        /\ \A k \in 2..Len(usable_regions) :
             usable_regions[k - 1].base + usable_regions[k - 1].len <= usable_regions[k].base

\* Nothing that stays in use once the kernel runs (its image, the page tables,
\* the stack) lies in memory the allocator may hand out, in the page frame
\* table, or in the memory the constructor clears, although copy_kernel() does
\* not look at the result of e820_augment_bootloader() (copy_kernel.c:112).
InUse == Units(kernel) \cup Units([base |-> pt_mem, len |-> 2 * PG_SZ])
           \cup Units([base |-> floor_pow2(mbr_start - PG_SZ, PG_SZ), len |-> PG_SZ])
BootMemoryKept ==
  pc = "done" =>
    InUse \cap (UnitsOf(Range(usable_regions) \cup {pft}) \cup UnitsOf(OfType(e820_mem_map, "reclaimable")))
      = {}

\* The page frame table covers every usable page and lies in the HHDM.
PftCovers ==
  pc = "done" =>
    /\ \A k \in DOMAIN usable_regions :
         usable_regions[k].base + usable_regions[k].len <= pft.len * PfdPerPage
    /\ pft.base + pft.len <= hhdm_len

\* In the first page directory the kernel is found at its link address, all
\* physical memory of the HHDM at its place, and no mapping hides another; the
\* null page is not mapped.
BootMapExact ==
  pc \in {"pft", "done"} =>
    /\ \A va \in DOMAIN pd :
         \/ va < MB /\ pd[va] = va /\ va >= PG_SZ
         \/ va \in HM_START..(HM_START + hhdm_len - 1) /\ pd[va] = va - HM_START
         \/ va >= KERNEL_LOAD_ADDR /\ pd[va] - kernel.base = va - KERNEL_LOAD_ADDR
    /\ \A p \in Units(kernel) : \E va \in DOMAIN pd :
         va >= KERNEL_LOAD_ADDR /\ p \in pd[va]..(pd[va] + HUGE_PG_SZ - 1)
    /\ \A p \in Units(pft) : floor_pow2(p, HUGE_PG_SZ) + HM_START \in DOMAIN pd
=============================================================================
