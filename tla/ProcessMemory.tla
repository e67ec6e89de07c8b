--------------------------- MODULE ProcessMemory ----------------------------
(***************************************************************************)
(* The memory of a process: the constructor of proc::Process maps the      *)
(* segments of an ELF image and the stack (proc/process.cc), and the page  *)
(* fault handler fills pages in when they are touched (isr_pf(),           *)
(* arch/x86/isrs.cc).  Addresses and offsets are numbers that do not wrap  *)
(* around: images whose segments end below 2^32.                           *)
(***************************************************************************)
EXTENDS Algorithm, Sequences, FiniteSetsExt

CONSTANTS stack_top, stack_size,
          File,             \* the bytes of the image: [0..size - 1 -> byte]
          Image,            \* program headers to load: sequences of segments
          Valid             \* results of ELFHeader::validate() to consider

\* Program headers; load is type = PHEntry::Type::Load.
PHEntry == [load : BOOLEAN, vaddr : Nat, offset : Nat, filesz : Nat, memsz : Nat,
            prot : [r : BOOLEAN, w : BOOLEAN]]

ASSUME ProcessAssumption ==
  /\ PG_SZ \in Nat \ {0}
  /\ stack_top \in Nat /\ stack_size \in 1..stack_top
  /\ stack_top % PG_SZ = 0 /\ stack_size % PG_SZ = 0
  /\ Valid \subseteq BOOLEAN
  /\ Image \subseteq Seq(PHEntry)

VARIABLES loader,           \* "parse", "map", "run"; "failed" and "exit" are the ends
          elf, ph,          \* the headers and how many of them are done
          vmas, res,
          present,          \* present pages: [r_w, v]
          access            \* the last access of user code: [addr, w, ok]

processVars == <<loader, ph, elf, vmas, res, present, access>>

Junk == -1                  \* the content of a frame from the heap
BytesOf(off) == [k \in 0..(PG_SZ - 1) |-> IF off + k \in DOMAIN File THEN File[off + k] ELSE Junk]

ProcessInit ==
  /\ elf \in Image /\ loader = "parse" /\ ph = 0
  /\ vmas = <<>> /\ res = "Ok" /\ present = <<>>
  /\ access = [addr |-> 0, w |-> FALSE, ok |-> TRUE]

-----------------------------------------------------------------------------
(* mmap; s = [vmas, res, present] *)

Vma(addr, len, prot, file, off) ==
  [addr |-> addr, len |-> len, prot |-> prot, file |-> file, offset |-> off]

range_overlaps2(a, b) == a.addr < b.addr + b.len /\ b.addr < a.addr + a.len

\* VirtualMemoryArea::VirtualMemoryArea() of a mapping that is file-backed or not.
Accepted(m) == m.addr % PG_SZ = 0 /\ m.offset % PG_SZ = 0 /\ m.len # 0

\* Where the walk over the sorted list stops.  Faulty variant: a mapping behind the
\* place of the new one is not looked at.
Overlap_Early(m, x) == x.addr <= m.addr /\ range_overlaps2(m, x)
Overlap(m, x) == range_overlaps2(m, x)

InsertBefore(q, i, x) ==
  [k \in 1..(Len(q) + 1) |-> IF k < i THEN q[k] ELSE IF k = i THEN x ELSE q[k - 1]]

mmap(s, m) ==
  LET stops == {k \in DOMAIN s.vmas : Overlap(m, s.vmas[k]) \/ s.vmas[k].addr > m.addr}
      it == IF stops = {} THEN Len(s.vmas) + 1 ELSE Min(stops)
  IN  IF s.res # "Ok" THEN s
      ELSE IF it \in DOMAIN s.vmas /\ Overlap(m, s.vmas[it]) THEN [s EXCEPT !.res = "MappingExists"]
      ELSE IF ~Accepted(m) THEN [s EXCEPT !.res = "InvalidArgs"]
      ELSE [s EXCEPT !.vmas = InsertBefore(@, it, m)]

-----------------------------------------------------------------------------
(* page faults *)

Hit(vs, a) == {k \in DOMAIN vs : a >= vs[k].addr /\ a < vs[k].addr + vs[k].len}

\* The mapping of a page is writable when its area is.  Faulty variant: always.
Writable_Always(m) == TRUE
Writable(m) == m.prot.w

\* The page that is mapped in: a frame from the heap, or a page of the file.  The
\* offset into the area of the address that faulted is not added.
FaultIn(m) == [r_w |-> Writable(m),
               v |-> IF m.file THEN BytesOf(floor_pg(m.offset))
                     ELSE [k \in 0..(PG_SZ - 1) |-> Junk]]

With(f, a, x) == [q \in DOMAIN f \cup {a} |-> IF q = a THEN x ELSE f[q]]

\* The loader writes: a fault maps the page, whatever its protection.
Store(s, a, bytes) ==
  LET p == floor_pg(a)
      there == IF p \in DOMAIN s.present THEN s.present[p] ELSE FaultIn(s.vmas[Min(Hit(s.vmas, a))])
      v == [k \in 0..(PG_SZ - 1) |-> IF k \in DOMAIN bytes THEN bytes[k] ELSE there.v[k]]
  IN  IF s.res # "Ok" THEN s
      ELSE [s EXCEPT !.present = With(@, p, [r_w |-> there.r_w, v |-> v])]

-----------------------------------------------------------------------------
(* the loader *)

Zero(a, b) == [k \in a..(b - 1) |-> 0]
Piece(off, a, b) == [k \in a..(b - 1) |-> BytesOf(off)[k]]
Anon(seg, a, n) == Vma(a, n, seg.prot, FALSE, 0)

\* 1: the page the segment begins in the middle of, and where the file ends there.
\* Faulty variant: the whole page is copied.
EndOff_Page(seg) == ceil_pg(seg.vaddr)
EndOff(seg) == Min({seg.vaddr + seg.filesz, ceil_pg(seg.vaddr)})
FirstPage(s, seg) ==
  LET pg_start == floor_pg(seg.vaddr)
      start_off == seg.vaddr % PG_SZ
      end_off == EndOff(seg) - pg_start
      t == mmap(s, Anon(seg, pg_start, PG_SZ))
  IN  IF seg.vaddr % PG_SZ = 0 THEN s
      ELSE Store(Store(Store(t, pg_start, Zero(0, start_off)),
                       pg_start, Piece(floor_pg(seg.offset), start_off, end_off)),
                 pg_start, Zero(end_off, PG_SZ))

full_pg_start(seg) == ceil_pg(seg.vaddr)
full_pg_end(seg) == floor_pg(seg.vaddr + seg.filesz)
filesz_ceil(seg) == ceil_pg(seg.vaddr + seg.filesz)

\* 2: the pages that are full
FullPages(s, seg) ==
  IF full_pg_end(seg) <= full_pg_start(seg) THEN s
  ELSE mmap(s, Vma(full_pg_start(seg), full_pg_end(seg) - full_pg_start(seg), seg.prot, TRUE,
                   seg.offset + (full_pg_start(seg) - seg.vaddr)))

\* 3: the page the file ends in the middle of, unless that is the first page
IsThird(seg) == filesz_ceil(seg) > full_pg_end(seg) /\ full_pg_end(seg) >= full_pg_start(seg)
LastPage(s, seg) ==
  LET pg_start == full_pg_end(seg)
      end_off == (seg.vaddr + seg.filesz) - pg_start
      t == mmap(s, Anon(seg, pg_start, PG_SZ))
  IN  IF ~IsThird(seg) THEN s
      ELSE Store(Store(t, pg_start, Piece(seg.offset + (pg_start - seg.vaddr), 0, end_off)),
                 pg_start, Zero(end_off, PG_SZ))

\* 4: the pages behind the file.  Faulty variant: from the end of the full pages.
BssStart_Full(seg) == full_pg_end(seg)
BssStart(seg) == filesz_ceil(seg)
BssPages(s, seg) ==
  LET memsz_ceil == ceil_pg(seg.vaddr + seg.memsz)
  IN  IF memsz_ceil <= BssStart(seg) THEN s
      ELSE mmap(s, Anon(seg, BssStart(seg), memsz_ceil - BssStart(seg)))

Adopt(s) == vmas' = s.vmas /\ res' = s.res /\ present' = s.present
Now == [vmas |-> vmas, res |-> res, present |-> present]

parse_executable(valid) ==
  /\ loader = "parse"
  /\ IF valid THEN loader' = "map" /\ UNCHANGED res ELSE loader' = "failed" /\ res' = "NonExecutable"
  /\ UNCHANGED <<ph, elf, vmas, present, access>>

\* One turn of the loop over the program headers.
map_elf_segments ==
  /\ loader = "map" /\ ph < Len(elf)
  /\ LET seg == elf[ph + 1]
         s == IF ~seg.load THEN Now
              ELSE IF seg.vaddr % PG_SZ # seg.offset % PG_SZ THEN [Now EXCEPT !.res = "NonExecutable"]
              ELSE BssPages(LastPage(FullPages(FirstPage(Now, seg), seg), seg), seg)
     IN  Adopt(s) /\ loader' = IF s.res = "Ok" THEN "map" ELSE "failed"
  /\ ph' = ph + 1 /\ UNCHANGED <<elf, access>>

MapStack ==
  /\ loader = "map" /\ ph = Len(elf)
  /\ LET s == mmap(Now, Vma(stack_top - stack_size, stack_size, [w |-> TRUE, r |-> TRUE], FALSE, 0))
     IN  Adopt(s) /\ loader' = IF s.res = "Ok" THEN "run" ELSE "failed"
  /\ UNCHANGED <<ph, elf, access>>

\* User code reads or writes a byte; a page that is not present faults.
isr_pf(a, w) ==
  /\ loader = "run"
  /\ LET p == floor_pg(a)
         hit == Hit(vmas, a)
         m == vmas[Min(hit)]
         denied == (~w /\ ~m.prot.r) \/ (w /\ ~m.prot.w)
     IN  IF p \in DOMAIN present
         THEN /\ loader' = IF w /\ ~present[p].r_w THEN "exit" ELSE "run"
              /\ access' = [addr |-> a, w |-> w, ok |-> ~(w /\ ~present[p].r_w)]
              /\ UNCHANGED present
         ELSE IF hit = {} \/ denied
         THEN loader' = "exit" /\ access' = [addr |-> a, w |-> w, ok |-> FALSE] /\ UNCHANGED present
         ELSE present' = With(present, p, FaultIn(m)) /\ UNCHANGED <<loader, access>>
  /\ UNCHANGED <<ph, elf, vmas, res>>

ProcessNext ==
  \/ \E valid \in Valid : parse_executable(valid)
  \/ map_elf_segments \/ MapStack
  \/ \E a \in 0..stack_top, w \in BOOLEAN : isr_pf(a, w)

ProcessSpec == ProcessInit /\ [][ProcessNext]_processVars

-----------------------------------------------------------------------------
Segments == {elf[k] : k \in {i \in DOMAIN elf : elf[i].load}}
Within(seg) == seg.vaddr..(seg.vaddr + seg.memsz - 1)

\* The areas of a process are disjoint and, as mmap() stops at the first one behind
\* the new one, "sorted by address" (process.h:197).
VmasSorted ==
  \A i, j \in DOMAIN vmas : i < j => vmas[i].addr + vmas[i].len <= vmas[j].addr

\* Segments as the format has them (the file's part is in the file and not larger
\* than the segment), whose pages meet neither each other's nor the stack's, are
\* loaded: the four kinds of pages of a segment never collide with each other, and
\* cover it and nothing beyond its pages.
PagesOf(seg) == {floor_pg(a) : a \in Within(seg)}
WellFormed(seg) ==
  /\ seg.vaddr % PG_SZ = seg.offset % PG_SZ
  /\ seg.memsz > 0 /\ seg.filesz <= seg.memsz
  /\ seg.offset..(seg.offset + seg.filesz - 1) \subseteq DOMAIN File
  /\ seg.vaddr + seg.memsz <= stack_top - stack_size
Loadable ==
  /\ \A s \in Segments : WellFormed(s)
  /\ \A i, j \in DOMAIN elf : i # j /\ elf[i].load /\ elf[j].load => PagesOf(elf[i]) \cap PagesOf(elf[j]) = {}
SegmentsCovered ==
  /\ loader = "failed" => res = "NonExecutable" \/ ~Loadable
  /\ loader = "run" /\ Loadable => \A a \in 0..(stack_top - stack_size - 1) :
                     Hit(vmas, a) # {} <=> \E s \in Segments : floor_pg(a) \in PagesOf(s)

\* What the image says of an address.
Expected(seg, a) == IF a < seg.vaddr + seg.filesz THEN File[seg.offset + (a - seg.vaddr)] ELSE 0

\* The pages of the file that isr_pf() maps, other than the first of their area.
LaterFilePages ==
  UNION {{p \in (m.addr + 1)..(m.addr + m.len - 1) : p % PG_SZ = 0} :
           m \in {vmas[k] : k \in {i \in DOMAIN vmas : vmas[i].file}}}

\* Left out by the last conjunct of the guard: the anonymous pages behind the
\* file's part (.bss, from BssStart on).  Nothing clears them - isr_pf() maps a
\* page of the heap as it is (isrs.cc:144-148, virt.cc:46) - so they hold Junk.
ShownRight(except) ==
  loader = "run" /\ Loadable =>
    \A s \in Segments, a \in 0..(stack_top - 1) :
      /\ a \in Within(s) /\ floor_pg(a) \in DOMAIN present \ except
      /\ floor_pg(a) < BssStart(s)
      => present[floor_pg(a)].v[a % PG_SZ] = Expected(s, a)

\* Each byte of a segment that is present, up to the end of the page the file's
\* part ends in, is the byte of the file, or zero behind that part, wherever the
\* segment begins and ends in its pages (process.cc:381-422); the first page of a
\* file mapping is the right one.  Not said: that .bss behind that page is zero.
ImageExact == ShownRight(LaterFilePages)

\* The same of every page of the file: "File-backed mappings have their contents populated to a
\* file" (process.h:108).
FilePagesExact == ShownRight({})

\* A write is served only in an area that is writable, also when a read of the page
\* came first (isrs.cc:120-124).
WritesAllowed == access.ok /\ access.w => \E k \in Hit(vmas, access.addr) : vmas[k].prot.w

\* The memory of a program is what its image says: areas sorted and disjoint, that
\* cover its segments and no other page, with the bytes of the file and zeros behind
\* them to the end of their page, written only where the segment is writable
\* (process.cc, isrs.cc).  Two kinds of pages are excepted: the later pages of a file
\* mapping, which FilePagesExact is about, and the anonymous pages of .bss, which
\* are not cleared (see ShownRight).
ProgramMemoryExact == VmasSorted /\ SegmentsCovered /\ ImageExact /\ WritesAllowed
=============================================================================
