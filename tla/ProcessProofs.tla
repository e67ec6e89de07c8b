---------------------------- MODULE ProcessProofs ---------------------------
(***************************************************************************)
(* For any image, any page size and any place of the stack, the memory of  *)
(* a program is what its image says.                                       *)
(*                                                                         *)
(* Each part of the loader maps the addresses from lo to hi (Maps): it     *)
(* keeps what is mapped and present, adds these addresses and no other,    *)
(* and fails only where one of them is taken.  The four parts of a segment *)
(* follow each other, so they map its pages; segments that are apart leave *)
(* each other's pages alone (KeepsMapped), and so do page faults.          *)
(***************************************************************************)
EXTENDS ProcessMemory, WellFoundedInduction, TLAPS

\* Multiplication by a page size keeps the order.
LEMMA MulMono ==
  ASSUME NEW p \in Nat, NEW x \in Nat, NEW y \in Nat, x <= y
  PROVE  x * p <= y * p
<1>1. PICK d \in Nat : y = x + d
  OBVIOUS
<1>2. y * p = x * p + d * p
  BY <1>1
<1>. QED
  BY <1>2

\* A quotient is known by its remainder.
LEMMA Quotient ==
  ASSUME NEW p \in Nat \ {0}, NEW q \in Nat, NEW r \in Nat, r < p
  PROVE  (q * p + r) \div p = q /\ (q * p + r) % p = r
<1>. DEFINE d == (q * p + r) \div p
            m == (q * p + r) % p
<1>1. d \in Nat /\ m \in Nat /\ m < p /\ q * p + r = d * p + m
  BY SMT
<1>2. ~(d < q)
  <2>1. SUFFICES ASSUME d + 1 <= q PROVE FALSE
    BY <1>1
  <2>2. (d + 1) * p <= q * p
    BY <1>1, <2>1, MulMono
  <2>. QED
    BY <1>1, <2>2
<1>3. ~(q < d)
  <2>1. SUFFICES ASSUME q + 1 <= d PROVE FALSE
    BY <1>1
  <2>2. (q + 1) * p <= d * p
    BY <1>1, <2>1, MulMono
  <2>. QED
    BY <1>1, <2>2
<1>. QED
  BY <1>1, <1>2, <1>3

-----------------------------------------------------------------------------
(* rounding to pages *)

\* The beginnings of pages.
Aligned(n) == n \in Nat /\ n % PG_SZ = 0

LEMMA PageSize == PG_SZ \in Nat \ {0} /\ PG_SZ \in Nat /\ PG_SZ > 0
BY ProcessAssumption

\* They are the multiples of the page size.
LEMMA AlignedIs ==
  ASSUME NEW n \in Nat
  PROVE  Aligned(n) <=> \E q \in Nat : n = q * PG_SZ
<1>1. ASSUME Aligned(n) PROVE \E q \in Nat : n = q * PG_SZ
  <2>1. n \div PG_SZ \in Nat /\ n = (n \div PG_SZ) * PG_SZ + (n % PG_SZ) /\ n % PG_SZ = 0
    BY <1>1, PageSize, SMT DEF Aligned
  <2>. QED
    BY <2>1, PageSize
<1>2. ASSUME NEW q \in Nat, n = q * PG_SZ PROVE Aligned(n)
  <2>1. (q * PG_SZ + 0) % PG_SZ = 0
    BY PageSize, Quotient
  <2>2. q * PG_SZ \in Nat
    BY PageSize
  <2>. QED
    BY <1>2, <2>1, <2>2, PageSize DEF Aligned
<1>. QED
  BY <1>1, <1>2, Zenon

\* Sums and differences of them are again ones, and there is none between two
\* that follow each other.
LEMMA AlignedSum ==
  ASSUME NEW a, NEW b, Aligned(a), Aligned(b)
  PROVE  /\ Aligned(a + b) /\ (a <= b => Aligned(b - a))
         /\ (a < b => a + PG_SZ <= b)
<1>0. a \in Nat /\ b \in Nat
  BY DEF Aligned
<1>1. PICK q \in Nat : a = q * PG_SZ
  BY <1>0, AlignedIs, Zenon
<1>2. PICK r \in Nat : b = r * PG_SZ
  BY <1>0, AlignedIs, Zenon
<1>3. Aligned(a + b)
  <2>1. a + b = (q + r) * PG_SZ /\ q + r \in Nat /\ a + b \in Nat
    BY <1>0, <1>1, <1>2, PageSize
  <2>. QED
    BY <2>1, AlignedIs, Zenon
<1>4. ASSUME a <= b PROVE Aligned(b - a)
  <2>1. q <= r
    <3>1. SUFFICES ASSUME r + 1 <= q PROVE FALSE
      OBVIOUS
    <3>2. (r + 1) * PG_SZ <= q * PG_SZ
      BY <3>1, PageSize, MulMono
    <3>3. (r + 1) * PG_SZ = r * PG_SZ + PG_SZ
      BY PageSize
    <3>. QED
      BY <1>0, <1>1, <1>2, <1>4, <3>2, <3>3, PageSize
  <2>2. b - a = (r - q) * PG_SZ /\ r - q \in Nat /\ b - a \in Nat
    BY <1>0, <1>1, <1>2, <1>4, <2>1, PageSize
  <2>. QED
    BY <2>2, AlignedIs, Zenon
<1>5. ASSUME a < b PROVE a + PG_SZ <= b
  <2>1. q + 1 <= r
    <3>1. SUFFICES ASSUME r <= q PROVE FALSE
      OBVIOUS
    <3>2. r * PG_SZ <= q * PG_SZ
      BY <3>1, PageSize, MulMono
    <3>. QED
      BY <1>0, <1>1, <1>2, <1>5, <3>2
  <2>2. (q + 1) * PG_SZ <= r * PG_SZ
    BY <2>1, PageSize, MulMono
  <2>3. (q + 1) * PG_SZ = q * PG_SZ + PG_SZ
    BY PageSize
  <2>. QED
    BY <1>1, <1>2, <2>2, <2>3
<1>. QED
  BY <1>3, <1>4, <1>5

\* floor_pg() is the beginning of the page an address is in, and % the place in it.
LEMMA Floor ==
  ASSUME NEW n \in Nat
  PROVE  /\ Aligned(floor_pg(n)) /\ floor_pg(n) <= n /\ n < floor_pg(n) + PG_SZ
         /\ n % PG_SZ = n - floor_pg(n) /\ n % PG_SZ \in 0..(PG_SZ - 1)
<1>1. n \div PG_SZ \in Nat /\ n % PG_SZ \in Nat /\ n % PG_SZ < PG_SZ
      /\ n = (n \div PG_SZ) * PG_SZ + (n % PG_SZ)
  BY PageSize, SMT
<1>2. floor_pg(n) = (n \div PG_SZ) * PG_SZ /\ floor_pg(n) \in Nat
  BY <1>1, PageSize DEF floor_pg
<1>3. Aligned(floor_pg(n))
  BY <1>1, <1>2, AlignedIs, Zenon
<1>4. floor_pg(n) <= n /\ n < floor_pg(n) + PG_SZ
  BY <1>1, <1>2, PageSize
<1>5. n % PG_SZ = n - floor_pg(n) /\ n % PG_SZ \in 0..(PG_SZ - 1)
  BY <1>1, PageSize DEF floor_pg
<1>. QED
  BY <1>3, <1>4, <1>5, Zenon

LEMMA FloorIs ==
  ASSUME NEW n \in Nat, NEW p, Aligned(p), p <= n, n < p + PG_SZ
  PROVE  floor_pg(n) = p
<1>1. Aligned(floor_pg(n)) /\ floor_pg(n) <= n /\ n < floor_pg(n) + PG_SZ
  BY Floor, Zenon
<1>2. floor_pg(n) \in Nat /\ p \in Nat
  BY <1>1 DEF Aligned
<1>3. ~(floor_pg(n) < p) /\ ~(p < floor_pg(n))
  BY <1>1, <1>2, AlignedSum, PageSize
<1>. QED
  BY <1>2, <1>3

\* ceil_pg() is the next beginning of a page.
LEMMA Ceiling ==
  ASSUME NEW n \in Nat
  PROVE  /\ Aligned(ceil_pg(n)) /\ n <= ceil_pg(n) /\ ceil_pg(n) < n + PG_SZ
         /\ (Aligned(n) => ceil_pg(n) = n)
         /\ (~Aligned(n) => ceil_pg(n) = floor_pg(n) + PG_SZ)
<1>0. n + PG_SZ - 1 \in Nat
  BY PageSize
<1>1. /\ Aligned(ceil_pg(n)) /\ ceil_pg(n) <= n + PG_SZ - 1
      /\ n + PG_SZ - 1 < ceil_pg(n) + PG_SZ
  BY <1>0, Floor, Zenon DEF ceil_pg
<1>2. ceil_pg(n) \in Nat
  BY <1>1 DEF Aligned
<1>3. n <= ceil_pg(n) /\ ceil_pg(n) < n + PG_SZ
  BY <1>1, <1>2, PageSize
<1>4. ASSUME Aligned(n) PROVE ceil_pg(n) = n
  <2>1. ~(n < ceil_pg(n))
    BY <1>1, <1>2, <1>3, <1>4, AlignedSum, PageSize
  <2>. QED
    BY <1>2, <1>3, <2>1
<1>5. ASSUME ~Aligned(n) PROVE ceil_pg(n) = floor_pg(n) + PG_SZ
  <2>1. Aligned(floor_pg(n)) /\ floor_pg(n) <= n /\ n < floor_pg(n) + PG_SZ
    BY Floor, Zenon
  <2>2. floor_pg(n) \in Nat /\ floor_pg(n) # n
    BY <1>5, <2>1 DEF Aligned
  <2>3. floor_pg(n) + PG_SZ <= ceil_pg(n)
    BY <1>1, <1>2, <1>3, <2>1, <2>2, AlignedSum, PageSize
  <2>4. Aligned(PG_SZ)
    <3>1. PG_SZ = 1 * PG_SZ /\ PG_SZ \in Nat /\ 1 \in Nat
      BY PageSize
    <3>. QED
      BY <3>1, AlignedIs, Zenon
  <2>5. Aligned(floor_pg(n) + PG_SZ)
    BY <2>1, <2>4, AlignedSum, Zenon
  <2>6. ~(floor_pg(n) + PG_SZ < ceil_pg(n))
    BY <1>1, <1>2, <1>3, <2>1, <2>2, <2>5, AlignedSum, PageSize
  <2>. QED
    BY <1>2, <2>2, <2>3, <2>6, PageSize
<1>. QED
  BY <1>1, <1>3, <1>4, <1>5, Zenon

-----------------------------------------------------------------------------
(* the inductive invariant *)

Area == {m \in [addr : Nat, len : Nat, prot : [r : BOOLEAN, w : BOOLEAN], file : BOOLEAN, offset : Nat] :
           Aligned(m.addr) /\ Aligned(m.len) /\ Aligned(m.offset) /\ m.len > 0}

Sorted(vs) == \A i, j \in DOMAIN vs : i < j => vs[i].addr + vs[i].len <= vs[j].addr
Among(vs, x) == \E k \in DOMAIN vs : vs[k] = x
Spans(x, a) == x.addr <= a /\ a < x.addr + x.len
Covers(vs, a) == \E k \in DOMAIN vs : Spans(vs[k], a)

\* A present page of an area: it is writable when the area is, and the page of a file
\* that the area begins with when it shows a file.
Suits(x, p, e) ==
  /\ Spans(x, p) /\ e.r_w = x.prot.w
  /\ x.file => e.v = BytesOf(floor_pg(x.offset))
InArea(vs, p, e) == \E k \in DOMAIN vs : Suits(vs[k], p, e)

\* What holds of the mappings and the pages at all times, s = [vmas, res, present].
Sound(s) ==
  /\ s = [vmas |-> s.vmas, res |-> s.res, present |-> s.present]
  /\ s.vmas \in Seq(Area) /\ Sorted(s.vmas)
  /\ \A p \in DOMAIN s.present : Aligned(p) /\ InArea(s.vmas, p, s.present[p])

\* What map_elf_segments() leaves of a segment: its first and its last page when they
\* are copied, and the mapping of the pages between.
PageRight(seg, s, p) ==
  /\ p \in DOMAIN s.present
  /\ \A a \in Within(seg) : floor_pg(a) = p => s.present[p].v[a % PG_SZ] = Expected(seg, a)
FileArea(seg) ==
  Vma(full_pg_start(seg), full_pg_end(seg) - full_pg_start(seg), seg.prot, TRUE,
      seg.offset + (full_pg_start(seg) - seg.vaddr))
Mapped(seg, s) ==
  /\ ~Aligned(seg.vaddr) => PageRight(seg, s, floor_pg(seg.vaddr))
  /\ full_pg_end(seg) > full_pg_start(seg) => Among(s.vmas, FileArea(seg))
  /\ IsThird(seg) => PageRight(seg, s, full_pg_end(seg))

\* The pages of a segment, as an interval.
InPages(seg, a) == floor_pg(seg.vaddr) <= a /\ a < ceil_pg(seg.vaddr + seg.memsz)
InStack(a) == stack_top - stack_size <= a /\ a < stack_top

Loaded(n) == {i \in 1..n : elf[i].load}
ShouldCover(a) == (\E i \in Loaded(ph) : InPages(elf[i], a)) \/ (loader = "run" /\ InStack(a))

ProcessInv ==
  /\ elf \in Image /\ ph \in 0..Len(elf)
  /\ loader \in {"parse", "map", "run", "failed", "exit"}
  /\ Sound(Now)
  /\ loader \in {"parse", "map", "run"} => res = "Ok"
  /\ loader = "parse" => ph = 0 /\ vmas = <<>>
  /\ loader \in {"parse", "map"} => ~access.w
  /\ loader = "run" => ph = Len(elf)
  /\ loader = "failed" => res = "NonExecutable" \/ ~Loadable
  /\ Loadable /\ loader \in {"parse", "map", "run"} =>
       /\ \A i \in Loaded(ph) : Mapped(elf[i], Now)
       /\ \A a \in Nat : Covers(vmas, a) <=> ShouldCover(a)
  /\ access.addr \in Nat /\ WritesAllowed

-----------------------------------------------------------------------------
(* areas *)

LEMMA SeqIs ==
  ASSUME NEW S, NEW q, q \in Seq(S)
  PROVE  Len(q) \in Nat /\ DOMAIN q = 1..Len(q) /\ \A k \in DOMAIN q : q[k] \in S
OBVIOUS

LEMMA AreaIs ==
  ASSUME NEW x \in Area
  PROVE  /\ x.addr \in Nat /\ x.len \in Nat /\ x.offset \in Nat /\ x.len > 0
         /\ Aligned(x.addr) /\ Aligned(x.len) /\ Aligned(x.offset)
BY DEF Area

LEMMA VmaIsArea ==
  ASSUME NEW a, NEW n, NEW o, Aligned(a), Aligned(n), Aligned(o), n > 0,
         NEW prot \in [r : BOOLEAN, w : BOOLEAN], NEW file \in BOOLEAN
  PROVE  Vma(a, n, prot, file, o) \in Area
BY DEF Area, Vma, Aligned

\* An address is in one area at most, which is the one the walk finds.
LEMMA OneHit ==
  ASSUME NEW vs, vs \in Seq(Area), Sorted(vs), NEW k \in DOMAIN vs, NEW a \in Nat, Spans(vs[k], a)
  PROVE  /\ Hit(vs, a) = {k} /\ Min(Hit(vs, a)) = k
         /\ \A j \in DOMAIN vs : Spans(vs[j], a) => j = k
<1>1. Len(vs) \in Nat /\ DOMAIN vs = 1..Len(vs) /\ \A j \in DOMAIN vs : vs[j] \in Area
  BY SeqIs, Zenon
<1>2. ASSUME NEW j \in DOMAIN vs, Spans(vs[j], a) PROVE j = k
  <2>1. vs[j].addr \in Nat /\ vs[j].len \in Nat /\ vs[k].addr \in Nat /\ vs[k].len \in Nat
    BY <1>1, AreaIs, Zenon
  <2>2. ~(j < k) /\ ~(k < j)
    BY <1>2, <2>1 DEF Sorted, Spans
  <2>. QED
    BY <1>1, <2>2
<1>3. Hit(vs, a) = {k}
  <2>1. vs[k].addr \in Nat /\ \A j \in DOMAIN vs : vs[j].addr \in Nat
    BY <1>1, AreaIs, Zenon
  <2>2. \A j \in DOMAIN vs : j \in Hit(vs, a) <=> Spans(vs[j], a)
    BY <2>1 DEF Hit, Spans
  <2>3. Hit(vs, a) \subseteq DOMAIN vs
    BY DEF Hit
  <2>. QED
    BY <1>2, <2>2, <2>3, Zenon
<1>4. Min({k}) = k
  BY <1>1 DEF Min
<1>. QED
  BY <1>2, <1>3, <1>4, Zenon

\* A list of numbers that is not empty has a first one.
LEMMA FirstOf ==
  ASSUME NEW S, S \subseteq Nat, S # {}
  PROVE  Min(S) \in S /\ \A j \in S : Min(S) <= j
<1>1. IsWellFoundedOn(OpToRel(<, Nat), Nat)
  BY NatLessThanWellFounded
<1>2. PICK x \in S : \A y \in S : ~(<<y, x>> \in OpToRel(<, Nat))
  BY <1>1, WFMin, Zenon
<1>3. \A y \in S : x <= y
  <2>1. ASSUME NEW y \in S PROVE ~(y < x)
    BY <1>2, Zenon DEF OpToRel
  <2>. QED
    BY <2>1
<1>. QED
  BY <1>3, Zenon DEF Min

-----------------------------------------------------------------------------
(* mmap *)

\* A new area between its neighbours keeps the list sorted, and joins the others.
LEMMA Inserting ==
  ASSUME NEW vs, vs \in Seq(Area), Sorted(vs), NEW m \in Area, NEW i \in 1..(Len(vs) + 1),
         \A k \in DOMAIN vs : k < i => vs[k].addr + vs[k].len <= m.addr,
         \A k \in DOMAIN vs : k >= i => m.addr + m.len <= vs[k].addr
  PROVE  /\ InsertBefore(vs, i, m) \in Seq(Area) /\ Sorted(InsertBefore(vs, i, m))
         /\ \A x : Among(InsertBefore(vs, i, m), x) <=> Among(vs, x) \/ x = m
<1> DEFINE ws == InsertBefore(vs, i, m)
<1>1. Len(vs) \in Nat /\ DOMAIN vs = 1..Len(vs) /\ \A j \in DOMAIN vs : vs[j] \in Area
  BY SeqIs, Zenon
<1>2. /\ DOMAIN ws = 1..(Len(vs) + 1)
      /\ \A k \in 1..(Len(vs) + 1) : ws[k] = IF k < i THEN vs[k] ELSE IF k = i THEN m ELSE vs[k - 1]
  BY DEF InsertBefore
<1>3. \A k \in 1..(Len(vs) + 1) : /\ k < i => k \in DOMAIN vs
                                  /\ k > i => k - 1 \in DOMAIN vs /\ k - 1 >= i
  BY <1>1
<1>4. \A k \in 1..(Len(vs) + 1) : ws[k] \in Area
  BY <1>1, <1>2, <1>3
<1>5. ws \in Seq(Area)
  <2>1. Len(vs) + 1 \in Nat /\ ws = [k \in 1..(Len(vs) + 1) |-> ws[k]]
    BY <1>1 DEF InsertBefore
  <2> HIDE DEF ws
  <2>. QED
    BY <1>4, <2>1
<1>6. Sorted(ws)
  <2>1. SUFFICES ASSUME NEW j \in 1..(Len(vs) + 1), NEW k \in 1..(Len(vs) + 1), j < k
                 PROVE  ws[j].addr + ws[j].len <= ws[k].addr
    BY <1>2, Zenon DEF Sorted
  <2> HIDE DEF ws
  <2>2. CASE k < i
    <3>1. j < i /\ ws[j] = vs[j] /\ ws[k] = vs[k] /\ j \in DOMAIN vs /\ k \in DOMAIN vs
      BY <1>2, <1>3, <2>1, <2>2
    <3>. QED
      BY <2>1, <3>1, Zenon DEF Sorted
  <2>3. CASE k = i
    <3>1. j < i /\ ws[j] = vs[j] /\ ws[k] = m /\ j \in DOMAIN vs
      BY <1>2, <1>3, <2>1, <2>3
    <3>. QED
      BY <3>1, Zenon
  <2>4. CASE k > i
    <3>1. ws[k] = vs[k - 1] /\ k - 1 \in DOMAIN vs /\ k - 1 >= i
      BY <1>2, <1>3, <2>4
    <3>2. CASE j < i
      <4>1. ws[j] = vs[j] /\ j \in DOMAIN vs /\ j < k - 1
        BY <1>1, <1>2, <1>3, <2>4, <3>2
      <4>. QED
        BY <3>1, <4>1, Zenon DEF Sorted
    <3>3. CASE j = i
      <4>1. ws[j] = m
        BY <1>2, <3>3
      <4>. QED
        BY <3>1, <4>1, Zenon
    <3>4. CASE j > i
      <4>1. ws[j] = vs[j - 1] /\ j - 1 \in DOMAIN vs /\ j - 1 < k - 1
        BY <1>2, <1>3, <2>1, <3>4
      <4>. QED
        BY <3>1, <4>1, Zenon DEF Sorted
    <3>. QED
      BY <3>2, <3>3, <3>4
  <2>. QED
    BY <2>2, <2>3, <2>4
<1>7. ASSUME NEW x PROVE Among(ws, x) <=> Among(vs, x) \/ x = m
  <2> HIDE DEF ws
  <2>1. ASSUME NEW k \in DOMAIN ws, ws[k] = x PROVE Among(vs, x) \/ x = m
    <3>1. \/ k < i /\ ws[k] = vs[k] /\ k \in DOMAIN vs
          \/ ws[k] = m
          \/ ws[k] = vs[k - 1] /\ k - 1 \in DOMAIN vs
      BY <1>2, <1>3
    <3>. QED
      BY <2>1, <3>1, Zenon DEF Among
  <2>2. ASSUME NEW k \in DOMAIN vs, vs[k] = x PROVE Among(ws, x)
    <3>1. CASE k < i
      <4>1. k \in DOMAIN ws /\ ws[k] = vs[k]
        BY <1>1, <1>2, <3>1
      <4>. QED
        BY <2>2, <4>1, Zenon DEF Among
    <3>2. CASE k >= i
      <4>1. k + 1 \in DOMAIN ws /\ ws[k + 1] = vs[k]
        BY <1>1, <1>2, <3>2
      <4>. QED
        BY <2>2, <4>1, Zenon DEF Among
    <3>. QED
      BY <1>1, <3>1, <3>2
  <2>3. Among(ws, m)
    <3>1. i \in DOMAIN ws /\ ws[i] = m
      BY <1>2
    <3>. QED
      BY <3>1, Zenon DEF Among
  <2>. QED
    BY <2>1, <2>2, <2>3, Zenon DEF Among
<1>. QED
  BY <1>5, <1>6, <1>7, Zenon

\* mmap() refuses an area that meets another one, and puts any other in its place.
LEMMA MmapCases ==
  ASSUME NEW s, s.vmas \in Seq(Area), Sorted(s.vmas), s.res = "Ok", NEW m \in Area
  PROVE  \/ /\ mmap(s, m) = [s EXCEPT !.res = "MappingExists"]
            /\ \E k \in DOMAIN s.vmas : range_overlaps2(m, s.vmas[k])
         \/ \E i \in 1..(Len(s.vmas) + 1) :
              /\ mmap(s, m) = [s EXCEPT !.vmas = InsertBefore(@, i, m)]
              /\ \A k \in DOMAIN s.vmas : k < i => s.vmas[k].addr + s.vmas[k].len <= m.addr
              /\ \A k \in DOMAIN s.vmas : k >= i => m.addr + m.len <= s.vmas[k].addr
<1> DEFINE vs == s.vmas
           stops == {k \in DOMAIN vs : Overlap(m, vs[k]) \/ vs[k].addr > m.addr}
           it == IF stops = {} THEN Len(vs) + 1 ELSE Min(stops)
<1>1. Len(vs) \in Nat /\ DOMAIN vs = 1..Len(vs) /\ \A j \in DOMAIN vs : vs[j] \in Area
  BY SeqIs, Zenon
<1>2. \A j \in DOMAIN vs : vs[j].addr \in Nat /\ vs[j].len \in Nat /\ vs[j].len > 0
  BY <1>1, AreaIs, Zenon
<1>3. m.addr \in Nat /\ m.len \in Nat /\ m.len > 0 /\ Accepted(m)
  BY AreaIs DEF Accepted, Aligned
<1>4. mmap(s, m) = IF it \in DOMAIN vs /\ Overlap(m, vs[it]) THEN [s EXCEPT !.res = "MappingExists"]
                   ELSE [s EXCEPT !.vmas = InsertBefore(@, it, m)]
  BY <1>3, Zenon DEF mmap
<1>5. /\ it \in 1..(Len(vs) + 1) /\ (it \in DOMAIN vs => it \in stops)
      /\ \A k \in DOMAIN vs : k < it => k \notin stops
  <2>1. CASE stops = {}
    BY <1>1, <2>1
  <2>2. CASE stops # {}
    <3>1. stops \subseteq Nat /\ stops \subseteq DOMAIN vs
      BY <1>1
    <3>2. Min(stops) \in stops /\ \A j \in stops : Min(stops) <= j
      BY <2>2, <3>1, FirstOf, Zenon
    <3>3. it = Min(stops)
      BY <2>2, Zenon
    <3> HIDE DEF stops, it
    <3>4. it \in stops /\ it \in 1..Len(vs) /\ \A j \in stops : it <= j
      BY <1>1, <3>1, <3>2, <3>3, Zenon
    <3>. QED
      BY <1>1, <3>4
  <2>. QED
    BY <2>1, <2>2, Zenon
<1>6. \A k \in DOMAIN vs : k \in stops <=> Overlap(m, vs[k]) \/ vs[k].addr > m.addr
  OBVIOUS
<1> HIDE DEF vs, stops, it
<1>7. ASSUME NEW k \in DOMAIN vs, k < it PROVE vs[k].addr + vs[k].len <= m.addr
  BY <1>2, <1>3, <1>5, <1>6, <1>7 DEF Overlap, range_overlaps2
<1>8. CASE it \in DOMAIN vs /\ Overlap(m, vs[it])
  BY <1>4, <1>8, Zenon DEF Overlap, vs
<1>9. CASE ~(it \in DOMAIN vs /\ Overlap(m, vs[it]))
  <2>1. mmap(s, m) = [s EXCEPT !.vmas = InsertBefore(@, it, m)]
    BY <1>4, <1>9, Zenon
  <2>2. ASSUME NEW k \in DOMAIN vs, k >= it PROVE m.addr + m.len <= vs[k].addr
    <3>1. it \in DOMAIN vs
      BY <1>1, <1>5, <2>2
    <3>2. m.addr + m.len <= vs[it].addr
      BY <1>2, <1>3, <1>5, <1>6, <1>9, <3>1 DEF Overlap, range_overlaps2
    <3>3. k = it \/ vs[it].addr + vs[it].len <= vs[k].addr
      <4>1. k = it \/ it < k
        BY <1>1, <2>2, <3>1
      <4>. QED
        BY <3>1, <4>1, Zenon DEF Sorted, vs
    <3>. QED
      BY <1>2, <1>3, <3>1, <3>2, <3>3
  <2>. QED
    BY <1>5, <1>7, <2>1, <2>2, Zenon DEF vs
<1>. QED
  BY <1>8, <1>9, Zenon

\* The areas from lo to hi: that no address there is covered, and that they are what
\* is added.
Free(vs, lo, hi) == \A a \in Nat : lo <= a /\ a < hi => ~Covers(vs, a)
Grown(vs, ws, lo, hi) == \A a \in Nat : Covers(ws, a) <=> Covers(vs, a) \/ (lo <= a /\ a < hi)

\* Areas and present pages stay.
Keeps(s, t) ==
  /\ \A x : Among(s.vmas, x) => Among(t.vmas, x)
  /\ \A p \in DOMAIN s.present : p \in DOMAIN t.present /\ t.present[p] = s.present[p]

\* A part of the loader that maps the addresses from lo to hi: it fails only if they
\* are not free.
Maps(s, t, lo, hi) ==
  /\ Sound(t)
  /\ t.res = "Ok" => s.res = "Ok" /\ Keeps(s, t) /\ Grown(s.vmas, t.vmas, lo, hi)
  /\ s.res = "Ok" /\ Free(s.vmas, lo, hi) => t.res = "Ok"

LEMMA CoversIs ==
  ASSUME NEW vs, NEW a
  PROVE  Covers(vs, a) <=> \E x : Among(vs, x) /\ Spans(x, a)
BY Zenon DEF Covers, Among

LEMMA InAreaIs ==
  ASSUME NEW vs, NEW p, NEW e
  PROVE  InArea(vs, p, e) <=> \E x : Among(vs, x) /\ Suits(x, p, e)
BY Zenon DEF InArea, Among

LEMMA MapsNone ==
  ASSUME NEW s, Sound(s), NEW n \in Nat
  PROVE  Maps(s, s, n, n)
<1>1. Grown(s.vmas, s.vmas, n, n)
  BY DEF Grown
<1>2. Keeps(s, s)
  BY Zenon DEF Keeps
<1>. QED
  BY <1>1, <1>2, Zenon DEF Maps

LEMMA KeepsTrans ==
  ASSUME NEW s, NEW t, NEW u, Keeps(s, t), Keeps(t, u)
  PROVE  Keeps(s, u)
BY Zenon DEF Keeps

\* Two parts, one behind the other.
LEMMA MapsTrans ==
  ASSUME NEW s, NEW t, NEW u, NEW lo \in Nat, NEW mid \in Nat, NEW hi \in Nat, lo <= mid, mid <= hi,
         Maps(s, t, lo, mid), Maps(t, u, mid, hi)
  PROVE  Maps(s, u, lo, hi)
<1>1. \A a \in Nat : /\ lo <= a /\ a < hi <=> (lo <= a /\ a < mid) \/ (mid <= a /\ a < hi)
                     /\ ~(lo <= a /\ a < mid /\ mid <= a)
  OBVIOUS
<1>2. ASSUME u.res = "Ok" PROVE s.res = "Ok" /\ Keeps(s, u) /\ Grown(s.vmas, u.vmas, lo, hi)
  <2>1. t.res = "Ok" /\ Keeps(t, u) /\ Grown(t.vmas, u.vmas, mid, hi)
    BY <1>2, Zenon DEF Maps
  <2>2. s.res = "Ok" /\ Keeps(s, t) /\ Grown(s.vmas, t.vmas, lo, mid)
    BY <2>1, Zenon DEF Maps
  <2>3. Keeps(s, u)
    BY <2>1, <2>2, KeepsTrans, Zenon
  <2>4. Grown(s.vmas, u.vmas, lo, hi)
    BY <1>1, <2>1, <2>2, Zenon DEF Grown
  <2>. QED
    BY <2>2, <2>3, <2>4
<1>3. ASSUME s.res = "Ok", Free(s.vmas, lo, hi) PROVE u.res = "Ok"
  <2>1. Free(s.vmas, lo, mid) /\ Free(s.vmas, mid, hi)
    BY <1>1, <1>3, Zenon DEF Free
  <2>2. t.res = "Ok" /\ Grown(s.vmas, t.vmas, lo, mid)
    BY <1>3, <2>1, Zenon DEF Maps
  <2>3. Free(t.vmas, mid, hi)
    BY <1>1, <2>1, <2>2, Zenon DEF Free, Grown
  <2>. QED
    BY <2>2, <2>3, Zenon DEF Maps
<1>. QED
  BY <1>2, <1>3, Zenon DEF Maps

\* Areas that are apart have no address in common, and those that are not do.
LEMMA Apart ==
  ASSUME NEW x \in Area, NEW y \in Area
  PROVE  /\ range_overlaps2(x, y) => \E a \in Nat : Spans(x, a) /\ Spans(y, a)
         /\ (x.addr + x.len <= y.addr \/ y.addr + y.len <= x.addr) =>
              \A a \in Nat : ~(Spans(x, a) /\ Spans(y, a))
<1>1. /\ x.addr \in Nat /\ x.len \in Nat /\ x.len > 0
      /\ y.addr \in Nat /\ y.len \in Nat /\ y.len > 0
  BY AreaIs, Zenon
<1>2. ASSUME range_overlaps2(x, y) PROVE \E a \in Nat : Spans(x, a) /\ Spans(y, a)
  <2>1. CASE x.addr <= y.addr
    <3>1. Spans(x, y.addr) /\ Spans(y, y.addr)
      BY <1>1, <1>2, <2>1 DEF range_overlaps2, Spans
    <3>. QED
      BY <1>1, <3>1, Zenon
  <2>2. CASE y.addr <= x.addr
    <3>1. Spans(x, x.addr) /\ Spans(y, x.addr)
      BY <1>1, <1>2, <2>2 DEF range_overlaps2, Spans
    <3>. QED
      BY <1>1, <3>1, Zenon
  <2>. QED
    BY <1>1, <2>1, <2>2
<1>3. ASSUME x.addr + x.len <= y.addr \/ y.addr + y.len <= x.addr, NEW a \in Nat
      PROVE  ~(Spans(x, a) /\ Spans(y, a))
  BY <1>1, <1>3 DEF Spans
<1>. QED
  BY <1>2, <1>3, Zenon

\* mmap() of an area maps its addresses.
LEMMA MmapMaps ==
  ASSUME NEW s, Sound(s), NEW m \in Area
  PROVE  /\ Maps(s, mmap(s, m), m.addr, m.addr + m.len)
         /\ mmap(s, m).res = "Ok" => /\ Among(mmap(s, m).vmas, m) /\ mmap(s, m).present = s.present
                                     /\ \A a \in Nat : Spans(m, a) => ~Covers(s.vmas, a)
<1> DEFINE t == mmap(s, m)
<1>0. /\ s = [vmas |-> s.vmas, res |-> s.res, present |-> s.present]
      /\ s.vmas \in Seq(Area) /\ Sorted(s.vmas)
      /\ \A p \in DOMAIN s.present : Aligned(p) /\ InArea(s.vmas, p, s.present[p])
  BY Zenon DEF Sound
<1>1. CASE s.res # "Ok"
  <2>1. t = s
    BY <1>1, Zenon DEF mmap
  <2>. QED
    BY <1>1, <2>1, Zenon DEF Maps
<1>2. ASSUME s.res = "Ok", t = [s EXCEPT !.res = "MappingExists"],
             NEW k \in DOMAIN s.vmas, range_overlaps2(m, s.vmas[k])
      PROVE  Maps(s, t, m.addr, m.addr + m.len) /\ t.res # "Ok"
  <2>1. t = [vmas |-> s.vmas, res |-> "MappingExists", present |-> s.present]
    BY <1>0, <1>2
  <2>2. Sound(t) /\ t.res # "Ok"
    BY <1>0, <2>1 DEF Sound
  <2>3. s.vmas[k] \in Area
    BY <1>0, <1>2, SeqIs, Zenon
  <2>4. ~Free(s.vmas, m.addr, m.addr + m.len)
    <3>1. PICK a \in Nat : Spans(m, a) /\ Spans(s.vmas[k], a)
      BY <1>2, <2>3, Apart, Zenon
    <3>. QED
      BY <1>2, <3>1, Zenon DEF Free, Covers, Spans
  <2>. QED
    BY <2>2, <2>4, Zenon DEF Maps
<1>3. ASSUME s.res = "Ok", NEW i \in 1..(Len(s.vmas) + 1),
             t = [s EXCEPT !.vmas = InsertBefore(@, i, m)],
             \A k \in DOMAIN s.vmas : k < i => s.vmas[k].addr + s.vmas[k].len <= m.addr,
             \A k \in DOMAIN s.vmas : k >= i => m.addr + m.len <= s.vmas[k].addr
      PROVE  /\ Maps(s, t, m.addr, m.addr + m.len)
             /\ Among(t.vmas, m) /\ t.present = s.present
             /\ \A a \in Nat : Spans(m, a) => ~Covers(s.vmas, a)
  <2> DEFINE ws == InsertBefore(s.vmas, i, m)
  <2>1. t = [vmas |-> ws, res |-> s.res, present |-> s.present]
    BY <1>0, <1>3
  <2>2. ws \in Seq(Area) /\ Sorted(ws) /\ \A x : Among(ws, x) <=> Among(s.vmas, x) \/ x = m
    BY <1>0, <1>3, Inserting, Zenon
  <2> HIDE DEF t, ws
  <2>3. t.vmas = ws /\ t.res = s.res /\ t.present = s.present
    BY <2>1
  <2>4. ASSUME NEW p \in DOMAIN t.present PROVE Aligned(p) /\ InArea(t.vmas, p, t.present[p])
    BY <1>0, <2>2, <2>3, InAreaIs, Zenon
  <2>5. Sound(t)
    BY <2>1, <2>2, <2>3, <2>4, Zenon DEF Sound
  <2>6. Keeps(s, t)
    BY <2>2, <2>3, Zenon DEF Keeps
  <2>7. ASSUME NEW a \in Nat PROVE Covers(t.vmas, a) <=> Covers(s.vmas, a) \/ Spans(m, a)
    BY <2>2, <2>3, CoversIs, Zenon
  <2>8. Grown(s.vmas, t.vmas, m.addr, m.addr + m.len)
    BY <2>7, Zenon DEF Grown, Spans
  <2>9. ASSUME NEW a \in Nat, Spans(m, a) PROVE ~Covers(s.vmas, a)
    <3>1. SUFFICES ASSUME NEW k \in DOMAIN s.vmas, Spans(s.vmas[k], a) PROVE FALSE
      BY Zenon DEF Covers
    <3>2. s.vmas[k] \in Area /\ k \in Nat
      BY <1>0, <3>1, SeqIs
    <3>3. m.addr + m.len <= s.vmas[k].addr \/ s.vmas[k].addr + s.vmas[k].len <= m.addr
      BY <1>3, <3>2
    <3>. QED
      BY <2>9, <3>1, <3>2, <3>3, Apart, Zenon
  <2>. QED
    BY <1>3, <2>2, <2>3, <2>5, <2>6, <2>8, <2>9, Zenon DEF Maps
<1>. QED
  BY <1>0, <1>1, <1>2, <1>3, MmapCases, Zenon

-----------------------------------------------------------------------------
(* stores of the loader *)

\* The area of an address is the one the walk of isr_pf() finds.
LEMMA FoundArea ==
  ASSUME NEW vs, vs \in Seq(Area), Sorted(vs), NEW m, Among(vs, m), NEW a \in Nat, Spans(m, a)
  PROVE  /\ vs[Min(Hit(vs, a))] = m /\ Hit(vs, a) # {}
         /\ \A x : Among(vs, x) /\ Spans(x, a) => x = m
<1>1. PICK k \in DOMAIN vs : vs[k] = m
  BY Zenon DEF Among
<1>2. /\ Hit(vs, a) = {k} /\ Min(Hit(vs, a)) = k
      /\ \A j \in DOMAIN vs : Spans(vs[j], a) => j = k
  BY <1>1, OneHit, Zenon
<1>. QED
  BY <1>1, <1>2, Zenon DEF Among

\* A store to page p changes the bytes it names, and no other page.
Writes(s, t, p, bytes) ==
  /\ Sound(t) /\ t.res = "Ok" /\ t.vmas = s.vmas
  /\ DOMAIN t.present = DOMAIN s.present \cup {p}
  /\ \A q \in DOMAIN s.present : q # p => t.present[q] = s.present[q]
  /\ \A k \in 0..(PG_SZ - 1) : k \in DOMAIN bytes => t.present[p].v[k] = bytes[k]
  /\ \A k \in 0..(PG_SZ - 1) : k \notin DOMAIN bytes /\ p \in DOMAIN s.present =>
       t.present[p].v[k] = s.present[p].v[k]

LEMMA StoreWrites ==
  ASSUME NEW s, Sound(s), s.res = "Ok", NEW m, Among(s.vmas, m), ~m.file,
         NEW p, Aligned(p), Spans(m, p), NEW bytes
  PROVE  Writes(s, Store(s, p, bytes), p, bytes)
<1> DEFINE there == IF p \in DOMAIN s.present THEN s.present[p]
                    ELSE FaultIn(s.vmas[Min(Hit(s.vmas, p))])
           v == [k \in 0..(PG_SZ - 1) |-> IF k \in DOMAIN bytes THEN bytes[k] ELSE there.v[k]]
           e == [r_w |-> there.r_w, v |-> v]
           t == Store(s, p, bytes)
<1>0. /\ s = [vmas |-> s.vmas, res |-> s.res, present |-> s.present]
      /\ s.vmas \in Seq(Area) /\ Sorted(s.vmas)
      /\ \A q \in DOMAIN s.present : Aligned(q) /\ InArea(s.vmas, q, s.present[q])
  BY Zenon DEF Sound
<1>1. p \in Nat /\ floor_pg(p) = p
  <2>1. p \in Nat
    BY DEF Aligned
  <2>2. p <= p /\ p < p + PG_SZ
    BY <2>1, PageSize
  <2>. QED
    BY <2>1, <2>2, FloorIs, Zenon
<1>2. t = [s EXCEPT !.present = With(@, p, e)]
  BY <1>1, Zenon DEF Store
<1>3. t = [vmas |-> s.vmas, res |-> s.res, present |-> With(s.present, p, e)]
  <2> HIDE DEF e, t
  <2>. QED
    BY <1>0, <1>2
<1>4. there.r_w = m.prot.w
  <2>1. s.vmas[Min(Hit(s.vmas, p))] = m /\ \A x : Among(s.vmas, x) /\ Spans(x, p) => x = m
    BY <1>0, <1>1, FoundArea, Zenon
  <2>2. CASE p \in DOMAIN s.present
    <3>1. PICK x : Among(s.vmas, x) /\ Suits(x, p, s.present[p])
      BY <1>0, <2>2, InAreaIs, Zenon
    <3>. QED
      BY <2>1, <2>2, <3>1, Zenon DEF Suits
  <2>3. CASE p \notin DOMAIN s.present
    <3>1. there = FaultIn(m)
      BY <2>1, <2>3, Zenon
    <3>. QED
      BY <3>1 DEF FaultIn, Writable
  <2>. QED
    BY <2>2, <2>3, Zenon
<1>5. e.r_w = m.prot.w /\ e.v = v
  BY <1>4
<1>6. \A k \in 0..(PG_SZ - 1) : v[k] = IF k \in DOMAIN bytes THEN bytes[k] ELSE there.v[k]
  OBVIOUS
<1>7. p \in DOMAIN s.present => there = s.present[p]
  BY Zenon
<1> HIDE DEF there, v, e, t
<1>8. /\ t.vmas = s.vmas /\ t.res = s.res
      /\ DOMAIN t.present = DOMAIN s.present \cup {p} /\ t.present[p] = e
      /\ \A q \in DOMAIN s.present : q # p => t.present[q] = s.present[q]
  BY <1>3 DEF With
<1>9. ASSUME NEW q \in DOMAIN t.present PROVE Aligned(q) /\ InArea(t.vmas, q, t.present[q])
  <2>1. CASE q = p
    <3>1. Suits(m, p, e)
      BY <1>5, Zenon DEF Suits
    <3>. QED
      BY <1>8, <2>1, <3>1, InAreaIs, Zenon
  <2>2. CASE q # p
    BY <1>0, <1>8, <1>9, <2>2, Zenon
  <2>. QED
    BY <2>1, <2>2, Zenon
<1>10. t = [vmas |-> t.vmas, res |-> t.res, present |-> t.present]
  BY <1>3
<1>11. Sound(t)
  BY <1>0, <1>8, <1>9, <1>10, Zenon DEF Sound
<1>. QED
  BY <1>5, <1>6, <1>7, <1>8, <1>11, Zenon DEF Writes, t

-----------------------------------------------------------------------------
(* the pages of a segment *)

LEMMA SegmentIs ==
  ASSUME NEW seg \in PHEntry
  PROVE  /\ seg.vaddr \in Nat /\ seg.offset \in Nat /\ seg.filesz \in Nat /\ seg.memsz \in Nat
         /\ seg.vaddr + seg.filesz \in Nat /\ seg.vaddr + seg.memsz \in Nat
         /\ seg.prot \in [r : BOOLEAN, w : BOOLEAN]
BY DEF PHEntry

LEMMA SomeAligned == Aligned(PG_SZ) /\ Aligned(0)
<1>1. PG_SZ = 1 * PG_SZ /\ 0 = 0 * PG_SZ
  BY PageSize
<1>. QED
  BY <1>1, AlignedIs, PageSize

\* Addresses and offsets of a segment are at the same places in their pages.
LEMMA SamePlace ==
  ASSUME NEW v \in Nat, NEW o \in Nat, v % PG_SZ = o % PG_SZ
  PROVE  /\ o - floor_pg(o) = v - floor_pg(v)
         /\ \A p : Aligned(p) /\ v <= p => Aligned(o + (p - v))
<1>1. /\ Aligned(floor_pg(o)) /\ o % PG_SZ = o - floor_pg(o)
      /\ Aligned(floor_pg(v)) /\ v % PG_SZ = v - floor_pg(v) /\ floor_pg(v) <= v
  BY Floor, Zenon
<1>2. floor_pg(o) \in Nat /\ floor_pg(v) \in Nat
  BY <1>1 DEF Aligned
<1>3. ASSUME NEW p, Aligned(p), v <= p PROVE Aligned(o + (p - v))
  <2>1. p \in Nat /\ floor_pg(v) <= p
    BY <1>1, <1>2, <1>3 DEF Aligned
  <2>2. Aligned(p - floor_pg(v))
    BY <1>1, <1>3, <2>1, AlignedSum, Zenon
  <2>3. Aligned(floor_pg(o) + (p - floor_pg(v)))
    BY <1>1, <2>2, AlignedSum, Zenon
  <2>4. o + (p - v) = floor_pg(o) + (p - floor_pg(v))
    BY <1>1, <1>2, <2>1
  <2>. QED
    BY <2>3, <2>4, Zenon
<1>. QED
  BY <1>1, <1>3

\* Where the four kinds of pages of a segment begin and end.
LEMMA Bounds ==
  ASSUME NEW seg \in PHEntry
  PROVE  /\ Aligned(floor_pg(seg.vaddr)) /\ Aligned(full_pg_start(seg))
         /\ Aligned(full_pg_end(seg)) /\ Aligned(filesz_ceil(seg))
         /\ floor_pg(seg.vaddr) <= seg.vaddr /\ seg.vaddr <= full_pg_start(seg)
         /\ full_pg_end(seg) <= seg.vaddr + seg.filesz /\ seg.vaddr + seg.filesz <= filesz_ceil(seg)
         /\ Aligned(seg.vaddr) => full_pg_start(seg) = seg.vaddr /\ floor_pg(seg.vaddr) = seg.vaddr
         /\ ~Aligned(seg.vaddr) => full_pg_start(seg) = floor_pg(seg.vaddr) + PG_SZ
         /\ filesz_ceil(seg) = full_pg_end(seg) \/ filesz_ceil(seg) = full_pg_end(seg) + PG_SZ
         /\ full_pg_end(seg) < full_pg_start(seg) => filesz_ceil(seg) = full_pg_start(seg)
<1> DEFINE v == seg.vaddr
           e == seg.vaddr + seg.filesz
<1>1. v \in Nat /\ e \in Nat /\ v <= e
  BY SegmentIs
<1>2. Aligned(floor_pg(v)) /\ floor_pg(v) <= v /\ v < floor_pg(v) + PG_SZ
  BY <1>1, Floor, Zenon
<1>3. Aligned(floor_pg(e)) /\ floor_pg(e) <= e /\ e < floor_pg(e) + PG_SZ
  BY <1>1, Floor, Zenon
<1>4. /\ Aligned(ceil_pg(v)) /\ v <= ceil_pg(v)
      /\ (Aligned(v) => ceil_pg(v) = v) /\ (~Aligned(v) => ceil_pg(v) = floor_pg(v) + PG_SZ)
  BY <1>1, Ceiling, Zenon
<1>5. /\ Aligned(ceil_pg(e)) /\ e <= ceil_pg(e)
      /\ (Aligned(e) => ceil_pg(e) = e) /\ (~Aligned(e) => ceil_pg(e) = floor_pg(e) + PG_SZ)
  BY <1>1, Ceiling, Zenon
<1>6. /\ floor_pg(v) \in Nat /\ floor_pg(e) \in Nat /\ ceil_pg(v) \in Nat /\ ceil_pg(e) \in Nat
      /\ PG_SZ \in Nat /\ PG_SZ > 0
  BY <1>2, <1>3, <1>4, <1>5, PageSize, Zenon DEF Aligned
<1>7. \A n \in Nat : Aligned(n) => floor_pg(n) = n
  <2>1. ASSUME NEW n \in Nat, Aligned(n) PROVE floor_pg(n) = n
    <3>1. n <= n /\ n < n + PG_SZ
      BY <1>6
    <3>. QED
      BY <2>1, <3>1, FloorIs, Zenon
  <2>. QED
    BY <2>1, Zenon
<1>8. ASSUME floor_pg(e) < ceil_pg(v) PROVE ceil_pg(e) = ceil_pg(v)
  <2>1. ~Aligned(v)
    <3>1. SUFFICES ASSUME Aligned(v) PROVE FALSE
      OBVIOUS
    <3>2. floor_pg(e) + PG_SZ <= v
      BY <1>3, <1>4, <1>8, <3>1, AlignedSum, Zenon
    <3>. QED
      BY <1>1, <1>3, <1>6, <3>2
  <2>2. ceil_pg(v) = floor_pg(v) + PG_SZ /\ v # floor_pg(v)
    BY <1>2, <1>4, <2>1, Zenon
  <2>3. floor_pg(e) = floor_pg(v)
    <3>1. ~(floor_pg(v) < floor_pg(e))
      <4>1. floor_pg(v) < floor_pg(e) => floor_pg(v) + PG_SZ <= floor_pg(e)
        BY <1>2, <1>3, AlignedSum, Zenon
      <4>. QED
        BY <1>6, <1>8, <2>2, <4>1
    <3>2. ~(floor_pg(e) < floor_pg(v))
      <4>1. floor_pg(e) < floor_pg(v) => floor_pg(e) + PG_SZ <= floor_pg(v)
        BY <1>2, <1>3, AlignedSum, Zenon
      <4>. QED
        BY <1>1, <1>2, <1>3, <1>6, <4>1
    <3>. QED
      BY <1>6, <3>1, <3>2
  <2>4. e # floor_pg(e)
    BY <1>1, <1>2, <1>6, <2>2, <2>3
  <2>5. ~Aligned(e)
    BY <1>1, <1>7, <2>4, Zenon
  <2>. QED
    BY <1>5, <2>2, <2>3, <2>5, Zenon
<1>9. ceil_pg(e) = floor_pg(e) \/ ceil_pg(e) = floor_pg(e) + PG_SZ
  BY <1>1, <1>5, <1>7, Zenon
<1>10. Aligned(v) => floor_pg(v) = v
  BY <1>1, <1>7, Zenon
<1>. QED
  BY <1>2, <1>3, <1>4, <1>5, <1>8, <1>9, <1>10, Zenon DEF full_pg_start, full_pg_end, filesz_ceil

-----------------------------------------------------------------------------
(* the loader *)

\* A page that is mapped and then only written to.
LEMMA CopiedPage ==
  ASSUME NEW s, Sound(s), NEW m \in Area, m.len = PG_SZ, NEW t,
         mmap(s, m).res # "Ok" => t = mmap(s, m),
         mmap(s, m).res = "Ok" =>
           /\ Sound(t) /\ t.res = "Ok" /\ t.vmas = mmap(s, m).vmas
           /\ DOMAIN t.present = DOMAIN mmap(s, m).present \cup {m.addr}
           /\ \A q \in DOMAIN mmap(s, m).present : q # m.addr => t.present[q] = mmap(s, m).present[q]
  PROVE  Maps(s, t, m.addr, m.addr + PG_SZ)
<1> DEFINE u == mmap(s, m)
<1>1. /\ Maps(s, u, m.addr, m.addr + m.len)
      /\ u.res = "Ok" => /\ Among(u.vmas, m) /\ u.present = s.present
                         /\ \A a \in Nat : Spans(m, a) => ~Covers(s.vmas, a)
  BY MmapMaps, Zenon
<1>2. Maps(s, u, m.addr, m.addr + PG_SZ)
  BY <1>1, Zenon
<1>3. m.addr \in Nat /\ Spans(m, m.addr)
  BY AreaIs DEF Spans
<1> HIDE DEF u
<1>4. CASE u.res = "Ok"
  <2>1. /\ Sound(t) /\ t.res = "Ok" /\ t.vmas = u.vmas
        /\ DOMAIN t.present = DOMAIN u.present \cup {m.addr}
        /\ \A q \in DOMAIN u.present : q # m.addr => t.present[q] = u.present[q]
    BY <1>4, Zenon DEF u
  <2>2. m.addr \notin DOMAIN s.present
    <3>1. SUFFICES ASSUME m.addr \in DOMAIN s.present PROVE FALSE
      BY Zenon
    <3>2. PICK x : Among(s.vmas, x) /\ Suits(x, m.addr, s.present[m.addr])
      BY <3>1, InAreaIs, Zenon DEF Sound
    <3>3. Covers(s.vmas, m.addr)
      BY <3>2, CoversIs, Zenon DEF Suits
    <3>. QED
      BY <1>1, <1>3, <1>4, <3>3, Zenon
  <2>3. Keeps(s, u) /\ u.present = s.present
    BY <1>1, <1>2, <1>4, Zenon DEF Maps
  <2>4. Keeps(s, t)
    <3>1. ASSUME NEW q \in DOMAIN s.present PROVE q \in DOMAIN t.present /\ t.present[q] = s.present[q]
      <4>1. q # m.addr /\ q \in DOMAIN u.present /\ u.present[q] = s.present[q]
        BY <2>2, <2>3, <3>1, Zenon
      <4>. QED
        BY <2>1, <4>1, Zenon
    <3>2. ASSUME NEW x, Among(s.vmas, x) PROVE Among(t.vmas, x)
      BY <2>1, <2>3, <3>2, Zenon DEF Keeps
    <3>. QED
      BY <3>1, <3>2, Zenon DEF Keeps
  <2>. QED
    BY <1>2, <1>4, <2>1, <2>4, Zenon DEF Maps
<1>5. CASE u.res # "Ok"
  <2>1. t = u
    BY <1>5, Zenon DEF u
  <2>. QED
    BY <1>2, <2>1, Zenon
<1>. QED
  BY <1>4, <1>5, Zenon

LEMMA StoreAfterFailure ==
  ASSUME NEW s, s.res # "Ok", NEW a, NEW bytes
  PROVE  Store(s, a, bytes) = s
BY Zenon DEF Store

\* The area of a page that is copied.
LEMMA AnonPage ==
  ASSUME NEW seg \in PHEntry, NEW p, Aligned(p)
  PROVE  /\ Anon(seg, p, PG_SZ) \in Area /\ ~Anon(seg, p, PG_SZ).file
         /\ Anon(seg, p, PG_SZ).addr = p /\ Anon(seg, p, PG_SZ).len = PG_SZ
         /\ Spans(Anon(seg, p, PG_SZ), p)
<1>1. seg.prot \in [r : BOOLEAN, w : BOOLEAN]
  BY SegmentIs, Zenon
<1>2. Anon(seg, p, PG_SZ) \in Area
  BY <1>1, SomeAligned, PageSize, VmaIsArea, Zenon DEF Anon
<1>3. p \in Nat /\ PG_SZ \in Nat /\ PG_SZ > 0
  BY PageSize DEF Aligned
<1>4. /\ ~Anon(seg, p, PG_SZ).file /\ Anon(seg, p, PG_SZ).addr = p
      /\ Anon(seg, p, PG_SZ).len = PG_SZ
  BY DEF Anon, Vma
<1>5. Spans(Anon(seg, p, PG_SZ), p)
  BY <1>3, <1>4 DEF Spans
<1>. QED
  BY <1>2, <1>4, <1>5, Zenon

\* EndOff() is the smaller of its two addresses.
LEMMA EndOffIs ==
  ASSUME NEW seg \in PHEntry
  PROVE  /\ EndOff(seg) \in Nat /\ EndOff(seg) <= seg.vaddr + seg.filesz
         /\ EndOff(seg) <= ceil_pg(seg.vaddr) /\ seg.vaddr <= EndOff(seg)
         /\ EndOff(seg) = seg.vaddr + seg.filesz \/ EndOff(seg) = ceil_pg(seg.vaddr)
<1>1. seg.vaddr \in Nat /\ seg.vaddr + seg.filesz \in Nat /\ seg.vaddr <= seg.vaddr + seg.filesz
  BY SegmentIs
<1>2. ceil_pg(seg.vaddr) \in Nat /\ seg.vaddr <= ceil_pg(seg.vaddr)
  BY <1>1, Ceiling DEF Aligned
<1> DEFINE S == {seg.vaddr + seg.filesz, ceil_pg(seg.vaddr)}
<1>3. S \subseteq Nat /\ S # {}
  BY <1>1, <1>2
<1>4. Min(S) \in S /\ \A j \in S : Min(S) <= j
  BY <1>3, FirstOf, Zenon
<1>5. EndOff(seg) = Min(S)
  BY Zenon DEF EndOff
<1>. QED
  BY <1>1, <1>2, <1>4, <1>5

\* 1: the first page, when the segment begins inside of it.
LEMMA FirstMaps ==
  ASSUME NEW s, Sound(s), NEW seg \in PHEntry, seg.vaddr % PG_SZ = seg.offset % PG_SZ
  PROVE  /\ Maps(s, FirstPage(s, seg), floor_pg(seg.vaddr), full_pg_start(seg))
         /\ FirstPage(s, seg).res = "Ok" /\ WellFormed(seg) /\ ~Aligned(seg.vaddr) =>
              PageRight(seg, FirstPage(s, seg), floor_pg(seg.vaddr))
<1> DEFINE p == floor_pg(seg.vaddr)
           m == Anon(seg, p, PG_SZ)
           lo == seg.vaddr % PG_SZ
           hi == EndOff(seg) - p
           b1 == Zero(0, lo)
           b2 == Piece(floor_pg(seg.offset), lo, hi)
           b3 == Zero(hi, PG_SZ)
           t0 == mmap(s, m)
           t1 == Store(t0, p, b1)
           t2 == Store(t1, p, b2)
           t3 == Store(t2, p, b3)
<1>0. /\ seg.vaddr \in Nat /\ seg.offset \in Nat /\ seg.filesz \in Nat /\ seg.memsz \in Nat
      /\ Aligned(p) /\ p \in Nat /\ full_pg_start(seg) = ceil_pg(seg.vaddr)
      /\ PG_SZ \in Nat /\ PG_SZ > 0
  BY SegmentIs, Bounds, PageSize, Zenon DEF Aligned, full_pg_start
<1>1. CASE Aligned(seg.vaddr)
  <2>1. FirstPage(s, seg) = s /\ full_pg_start(seg) = p
    BY <1>0, <1>1, Bounds, Zenon DEF FirstPage, Aligned
  <2>. QED
    BY <1>0, <1>1, <2>1, MapsNone, Zenon
<1>2. CASE ~Aligned(seg.vaddr)
  <2>1. FirstPage(s, seg) = t3 /\ full_pg_start(seg) = p + PG_SZ
    BY <1>0, <1>2, Bounds, Zenon DEF FirstPage, Aligned
  <2>2. m \in Area /\ ~m.file /\ m.addr = p /\ m.len = PG_SZ /\ Spans(m, p)
    BY <1>0, AnonPage, Zenon
  <2>3. lo = seg.vaddr - p /\ lo \in 0..(PG_SZ - 1)
    BY <1>0, Floor, Zenon
  <2>4. /\ EndOff(seg) \in Nat /\ EndOff(seg) <= seg.vaddr + seg.filesz
        /\ EndOff(seg) <= p + PG_SZ /\ seg.vaddr <= EndOff(seg)
        /\ EndOff(seg) = seg.vaddr + seg.filesz \/ EndOff(seg) = p + PG_SZ
    BY <1>0, <2>1, EndOffIs, Zenon
  <2>5. /\ DOMAIN b1 = 0..(lo - 1) /\ DOMAIN b2 = lo..(hi - 1) /\ DOMAIN b3 = hi..(PG_SZ - 1)
        /\ \A k \in lo..(hi - 1) : b2[k] = BytesOf(floor_pg(seg.offset))[k]
        /\ \A k \in hi..(PG_SZ - 1) : b3[k] = 0
    BY DEF Zero, Piece
  <2> HIDE DEF p, m, lo, hi, b1, b2, b3
  <2>6. Sound(t0) /\ (t0.res = "Ok" => Among(t0.vmas, m))
    BY <2>2, MmapMaps, Zenon DEF Maps
  <2>7. ASSUME t0.res = "Ok" PROVE Writes(t0, t1, p, b1) /\ Writes(t1, t2, p, b2) /\ Writes(t2, t3, p, b3)
    <3> HIDE DEF t0
    <3>1. Writes(t0, t1, p, b1)
      BY <1>0, <2>2, <2>6, <2>7, StoreWrites, Zenon
    <3> HIDE DEF t1
    <3>2. Sound(t1) /\ t1.res = "Ok" /\ Among(t1.vmas, m)
      BY <2>6, <2>7, <3>1, Zenon DEF Writes
    <3>3. Writes(t1, t2, p, b2)
      BY <1>0, <2>2, <3>2, StoreWrites, Zenon
    <3> HIDE DEF t2
    <3>4. Sound(t2) /\ t2.res = "Ok" /\ Among(t2.vmas, m)
      BY <3>2, <3>3, Zenon DEF Writes
    <3>5. Writes(t2, t3, p, b3)
      BY <1>0, <2>2, <3>4, StoreWrites, Zenon
    <3>. QED
      BY <3>1, <3>3, <3>5, Zenon
  <2>8. t0.res # "Ok" => t3 = t0
    BY StoreAfterFailure, ZenonT(30)
  <2> HIDE DEF t0, t1, t2, t3
  <2>9. ASSUME t0.res = "Ok"
        PROVE  /\ Sound(t3) /\ t3.res = "Ok" /\ t3.vmas = t0.vmas
               /\ DOMAIN t3.present = DOMAIN t0.present \cup {p}
               /\ \A q \in DOMAIN t0.present : q # p => t3.present[q] = t0.present[q]
    BY <2>7, <2>9, Zenon DEF Writes
  <2>10. Maps(s, t3, p, p + PG_SZ)
    BY <2>2, <2>8, <2>9, CopiedPage, Zenon DEF t0
  <2>11. ASSUME t3.res = "Ok", WellFormed(seg) PROVE PageRight(seg, t3, p)
    <3>1. t0.res = "Ok"
      BY <2>8, <2>11, Zenon
    <3>2. p \in DOMAIN t3.present
      BY <2>9, <3>1, Zenon
    <3>3. ASSUME NEW a \in Within(seg), floor_pg(a) = p
          PROVE  t3.present[p].v[a % PG_SZ] = Expected(seg, a)
      <4>1. a \in Nat /\ seg.vaddr <= a
        BY <1>0, <3>3 DEF Within
      <4>2. a % PG_SZ = a - p /\ a % PG_SZ \in 0..(PG_SZ - 1)
        BY <3>3, <4>1, Floor, Zenon
      <4> DEFINE k == a % PG_SZ
      <4> HIDE DEF k
      <4>3. k = a - p /\ k \in 0..(PG_SZ - 1) /\ lo <= k /\ k \in Int
        BY <1>0, <2>3, <4>1, <4>2 DEF k
      <4>6. hi = EndOff(seg) - p /\ hi \in Int
        BY <1>0, <2>4 DEF hi
      <4>4. CASE k < hi
        <5>a. k \in lo..(hi - 1) /\ k \notin hi..(PG_SZ - 1)
          BY <2>3, <4>3, <4>4, <4>6
        <5>b. a < seg.vaddr + seg.filesz
          BY <1>0, <2>4, <4>1, <4>3, <4>4, <4>6
        <5>c. seg.offset + (a - seg.vaddr) \in seg.offset..(seg.offset + seg.filesz - 1)
          BY <1>0, <4>1, <5>b
        <5>1. /\ k \in DOMAIN b2 /\ k \notin DOMAIN b3 /\ a < seg.vaddr + seg.filesz
              /\ seg.offset + (a - seg.vaddr) \in seg.offset..(seg.offset + seg.filesz - 1)
          BY <2>5, <5>a, <5>b, <5>c, Zenon
        <5>2. t3.present[p].v[k] = t2.present[p].v[k] /\ t2.present[p].v[k] = b2[k]
          BY <2>7, <3>1, <4>3, <5>1, Zenon DEF Writes
        <5>3. b2[k] = BytesOf(floor_pg(seg.offset))[k]
          BY <2>5, <5>1, Zenon
        <5>4. floor_pg(seg.offset) + k = seg.offset + (a - seg.vaddr)
          <6>1. seg.offset - floor_pg(seg.offset) = seg.vaddr - p
            BY <1>0, SamePlace, Zenon DEF p
          <6>2. floor_pg(seg.offset) \in Nat
            BY <1>0, Floor, Zenon DEF Aligned
          <6>. QED
            BY <1>0, <4>1, <4>3, <6>1, <6>2
        <5>5. seg.offset + (a - seg.vaddr) \in DOMAIN File
          BY <2>11, <5>1, Zenon DEF WellFormed
        <5>6. BytesOf(floor_pg(seg.offset))[k] = File[seg.offset + (a - seg.vaddr)]
          BY <4>3, <5>4, <5>5, Zenon DEF BytesOf
        <5>. QED
          BY <5>1, <5>2, <5>3, <5>6, Zenon DEF Expected, k
      <4>5. CASE k >= hi
        <5>a. k \in hi..(PG_SZ - 1)
          BY <1>0, <4>3, <4>5, <4>6
        <5>b. ~(a < seg.vaddr + seg.filesz)
          BY <1>0, <2>4, <4>1, <4>3, <4>5, <4>6
        <5>1. k \in DOMAIN b3 /\ b3[k] = 0 /\ ~(a < seg.vaddr + seg.filesz)
          BY <2>5, <5>a, <5>b, Zenon
        <5>2. t3.present[p].v[k] = b3[k]
          BY <2>7, <3>1, <4>3, <5>1, Zenon DEF Writes
        <5>. QED
          BY <5>1, <5>2, Zenon DEF Expected, k
      <4>. QED
        BY <4>3, <4>4, <4>5, <4>6
    <3>. QED
      BY <3>2, <3>3, Zenon DEF PageRight
  <2>. QED
    BY <2>1, <2>10, <2>11, Zenon DEF p
<1>. QED
  BY <1>1, <1>2, Zenon

\* 2: the pages that are full.
LEMMA FullMaps ==
  ASSUME NEW s, Sound(s), NEW seg \in PHEntry, seg.vaddr % PG_SZ = seg.offset % PG_SZ
  PROVE  /\ full_pg_end(seg) > full_pg_start(seg) =>
              /\ FileArea(seg) \in Area
              /\ Maps(s, FullPages(s, seg), full_pg_start(seg), full_pg_end(seg))
              /\ FullPages(s, seg).res = "Ok" => Among(FullPages(s, seg).vmas, FileArea(seg))
         /\ ~(full_pg_end(seg) > full_pg_start(seg)) => FullPages(s, seg) = s
<1>0. /\ seg.vaddr \in Nat /\ seg.offset \in Nat /\ seg.prot \in [r : BOOLEAN, w : BOOLEAN]
      /\ Aligned(full_pg_start(seg)) /\ Aligned(full_pg_end(seg))
      /\ full_pg_start(seg) \in Nat /\ full_pg_end(seg) \in Nat /\ seg.vaddr <= full_pg_start(seg)
  BY SegmentIs, Bounds, Zenon DEF Aligned
<1>1. ASSUME full_pg_end(seg) > full_pg_start(seg)
      PROVE  /\ FileArea(seg) \in Area
             /\ Maps(s, FullPages(s, seg), full_pg_start(seg), full_pg_end(seg))
             /\ FullPages(s, seg).res = "Ok" => Among(FullPages(s, seg).vmas, FileArea(seg))
  <2>1. FullPages(s, seg) = mmap(s, FileArea(seg))
    <3>1. ~(full_pg_end(seg) <= full_pg_start(seg))
      BY <1>0, <1>1
    <3>. QED
      BY <3>1, Zenon DEF FullPages, FileArea
  <2>2. Aligned(full_pg_end(seg) - full_pg_start(seg)) /\ full_pg_end(seg) - full_pg_start(seg) > 0
    <3>1. full_pg_start(seg) <= full_pg_end(seg) /\ full_pg_end(seg) - full_pg_start(seg) > 0
      BY <1>0, <1>1
    <3>. QED
      BY <1>0, <3>1, AlignedSum, Zenon
  <2>3. Aligned(seg.offset + (full_pg_start(seg) - seg.vaddr))
    BY <1>0, SamePlace, Zenon
  <2>4. FileArea(seg) \in Area
    <3>1. TRUE \in BOOLEAN
      OBVIOUS
    <3>. QED
      BY <1>0, <2>2, <2>3, <3>1, VmaIsArea, Zenon DEF FileArea
  <2>5. FileArea(seg).addr = full_pg_start(seg) /\ FileArea(seg).addr + FileArea(seg).len = full_pg_end(seg)
    BY <1>0 DEF FileArea, Vma
  <2>6. /\ Maps(s, mmap(s, FileArea(seg)), FileArea(seg).addr, FileArea(seg).addr + FileArea(seg).len)
        /\ mmap(s, FileArea(seg)).res = "Ok" => Among(mmap(s, FileArea(seg)).vmas, FileArea(seg))
    BY <2>4, MmapMaps, Zenon
  <2>. QED
    BY <2>1, <2>4, <2>5, <2>6, Zenon
<1>2. ASSUME ~(full_pg_end(seg) > full_pg_start(seg)) PROVE FullPages(s, seg) = s
  <2>1. full_pg_end(seg) <= full_pg_start(seg)
    BY <1>0, <1>2
  <2>. QED
    BY <2>1, Zenon DEF FullPages
<1>. QED
  BY <1>1, <1>2, Zenon

\* 3: the last page of the file's part, when it is not full.
LEMMA LastMaps ==
  ASSUME NEW s, Sound(s), NEW seg \in PHEntry, seg.vaddr % PG_SZ = seg.offset % PG_SZ
  PROVE  /\ IsThird(seg) =>
              /\ Maps(s, LastPage(s, seg), full_pg_end(seg), filesz_ceil(seg))
              /\ LastPage(s, seg).res = "Ok" /\ WellFormed(seg) =>
                   PageRight(seg, LastPage(s, seg), full_pg_end(seg))
         /\ ~IsThird(seg) => LastPage(s, seg) = s
<1> DEFINE p == full_pg_end(seg)
           off == seg.offset + (p - seg.vaddr)
           m == Anon(seg, p, PG_SZ)
           hi == (seg.vaddr + seg.filesz) - p
           b1 == Piece(off, 0, hi)
           b2 == Zero(hi, PG_SZ)
           t0 == mmap(s, m)
           t1 == Store(t0, p, b1)
           t2 == Store(t1, p, b2)
<1>0. /\ seg.vaddr \in Nat /\ seg.offset \in Nat /\ seg.filesz \in Nat /\ seg.memsz \in Nat
      /\ Aligned(p) /\ p \in Nat /\ full_pg_start(seg) \in Nat /\ filesz_ceil(seg) \in Nat
      /\ seg.vaddr <= full_pg_start(seg) /\ p <= seg.vaddr + seg.filesz
      /\ filesz_ceil(seg) = p \/ filesz_ceil(seg) = p + PG_SZ
      /\ PG_SZ \in Nat /\ PG_SZ > 0
  BY SegmentIs, Bounds, PageSize, Zenon DEF Aligned
<1>1. ~IsThird(seg) => LastPage(s, seg) = s
  BY Zenon DEF LastPage
<1>2. ASSUME IsThird(seg)
      PROVE  /\ Maps(s, LastPage(s, seg), p, filesz_ceil(seg))
             /\ LastPage(s, seg).res = "Ok" /\ WellFormed(seg) => PageRight(seg, LastPage(s, seg), p)
  <2>1. LastPage(s, seg) = t2
    BY <1>2, Zenon DEF LastPage
  <2>a. filesz_ceil(seg) = p + PG_SZ /\ seg.vaddr <= p
    BY <1>0, <1>2 DEF IsThird
  <2>2. m \in Area /\ ~m.file /\ m.addr = p /\ m.len = PG_SZ /\ Spans(m, p)
    BY <1>0, AnonPage, Zenon
  <2>3. off \in Nat /\ hi \in Nat /\ hi = (seg.vaddr + seg.filesz) - p /\ off = seg.offset + (p - seg.vaddr)
    BY <1>0, <2>a
  <2>5. /\ DOMAIN b1 = 0..(hi - 1) /\ DOMAIN b2 = hi..(PG_SZ - 1)
        /\ \A k \in 0..(hi - 1) : b1[k] = BytesOf(off)[k]
        /\ \A k \in hi..(PG_SZ - 1) : b2[k] = 0
    BY DEF Zero, Piece
  <2> HIDE DEF p, m, off, hi, b1, b2
  <2>6. Sound(t0) /\ (t0.res = "Ok" => Among(t0.vmas, m))
    BY <2>2, MmapMaps, Zenon DEF Maps
  <2>7. ASSUME t0.res = "Ok" PROVE Writes(t0, t1, p, b1) /\ Writes(t1, t2, p, b2)
    <3> HIDE DEF t0
    <3>1. Writes(t0, t1, p, b1)
      BY <1>0, <2>2, <2>6, <2>7, StoreWrites, Zenon
    <3> HIDE DEF t1
    <3>2. Sound(t1) /\ t1.res = "Ok" /\ Among(t1.vmas, m)
      BY <2>6, <2>7, <3>1, Zenon DEF Writes
    <3>3. Writes(t1, t2, p, b2)
      BY <1>0, <2>2, <3>2, StoreWrites, Zenon
    <3>. QED
      BY <3>1, <3>3, Zenon
  <2>8. t0.res # "Ok" => t2 = t0
    BY StoreAfterFailure, Zenon
  <2> HIDE DEF t0, t1, t2
  <2>9. ASSUME t0.res = "Ok"
        PROVE  /\ Sound(t2) /\ t2.res = "Ok" /\ t2.vmas = t0.vmas
               /\ DOMAIN t2.present = DOMAIN t0.present \cup {p}
               /\ \A q \in DOMAIN t0.present : q # p => t2.present[q] = t0.present[q]
    BY <2>7, <2>9, ZenonT(30) DEF Writes
  <2>10. Maps(s, t2, p, p + PG_SZ)
    BY <2>2, <2>8, <2>9, CopiedPage, Zenon DEF t0
  <2>11. ASSUME t2.res = "Ok", WellFormed(seg) PROVE PageRight(seg, t2, p)
    <3>1. t0.res = "Ok"
      BY <2>8, <2>11, Zenon
    <3>2. p \in DOMAIN t2.present
      BY <2>9, <3>1, Zenon
    <3>3. ASSUME NEW a \in Within(seg), floor_pg(a) = p
          PROVE  t2.present[p].v[a % PG_SZ] = Expected(seg, a)
      <4>1. a \in Nat /\ seg.vaddr <= a
        BY <1>0, <3>3 DEF Within
      <4>2. a % PG_SZ = a - p /\ a % PG_SZ \in 0..(PG_SZ - 1)
        BY <3>3, <4>1, Floor, Zenon
      <4> DEFINE k == a % PG_SZ
      <4> HIDE DEF k
      <4>3. k = a - p /\ k \in 0..(PG_SZ - 1) /\ k \in Nat
        BY <1>0, <4>1, <4>2 DEF k
      <4>4. CASE k < hi
        <5>1. k \in 0..(hi - 1) /\ k \notin hi..(PG_SZ - 1)
          BY <2>3, <4>3, <4>4
        <5>2. a < seg.vaddr + seg.filesz
          BY <1>0, <2>3, <4>1, <4>3, <4>4
        <5>3. /\ seg.offset + (a - seg.vaddr) \in seg.offset..(seg.offset + seg.filesz - 1)
              /\ off + k = seg.offset + (a - seg.vaddr)
          BY <1>0, <2>3, <4>1, <4>3, <5>2
        <5>4. t2.present[p].v[k] = t1.present[p].v[k] /\ t1.present[p].v[k] = b1[k]
          BY <2>5, <2>7, <3>1, <4>3, <5>1, Zenon DEF Writes
        <5>5. b1[k] = BytesOf(off)[k]
          BY <2>5, <5>1, Zenon
        <5>6. seg.offset + (a - seg.vaddr) \in DOMAIN File
          BY <2>11, <5>3, Zenon DEF WellFormed
        <5>7. BytesOf(off)[k] = File[seg.offset + (a - seg.vaddr)]
          BY <4>3, <5>3, <5>6, Zenon DEF BytesOf
        <5>. QED
          BY <5>2, <5>4, <5>5, <5>7, Zenon DEF Expected, k
      <4>5. CASE k >= hi
        <5>1. k \in hi..(PG_SZ - 1) /\ ~(a < seg.vaddr + seg.filesz)
          BY <1>0, <2>3, <4>1, <4>3, <4>5
        <5>2. t2.present[p].v[k] = b2[k] /\ b2[k] = 0
          BY <2>5, <2>7, <3>1, <4>3, <5>1, Zenon DEF Writes
        <5>. QED
          BY <5>1, <5>2, Zenon DEF Expected, k
      <4>. QED
        BY <2>3, <4>3, <4>4, <4>5
    <3>. QED
      BY <3>2, <3>3, Zenon DEF PageRight
  <2>. QED
    BY <2>1, <2>a, <2>10, <2>11, Zenon
<1>. QED
  BY <1>1, <1>2, Zenon

\* 4: the pages behind the file's part.
LEMMA BssMaps ==
  ASSUME NEW s, Sound(s), NEW seg \in PHEntry
  PROVE  /\ filesz_ceil(seg) < ceil_pg(seg.vaddr + seg.memsz) =>
              Maps(s, BssPages(s, seg), filesz_ceil(seg), ceil_pg(seg.vaddr + seg.memsz))
         /\ ~(filesz_ceil(seg) < ceil_pg(seg.vaddr + seg.memsz)) => BssPages(s, seg) = s
<1> DEFINE lo == filesz_ceil(seg)
           hi == ceil_pg(seg.vaddr + seg.memsz)
           m == Anon(seg, lo, hi - lo)
<1>0. /\ Aligned(lo) /\ Aligned(hi) /\ lo \in Nat /\ hi \in Nat
      /\ seg.prot \in [r : BOOLEAN, w : BOOLEAN]
  BY SegmentIs, Bounds, Ceiling, Zenon DEF Aligned
<1>1. BssPages(s, seg) = IF hi <= lo THEN s ELSE mmap(s, m)
  BY Zenon DEF BssPages, BssStart
<1>2. m.addr = lo /\ m.len = hi - lo
  BY DEF Anon, Vma
<1>3. ASSUME lo < hi PROVE Maps(s, mmap(s, m), lo, hi)
  <2>1. Aligned(hi - lo) /\ hi - lo > 0 /\ lo + (hi - lo) = hi
    <3>1. lo <= hi /\ hi - lo > 0 /\ lo + (hi - lo) = hi
      BY <1>0, <1>3
    <3>. QED
      BY <1>0, <3>1, AlignedSum, Zenon
  <2>2. m \in Area
    <3>1. FALSE \in BOOLEAN
      OBVIOUS
    <3>. QED
      BY <1>0, <2>1, <3>1, SomeAligned, VmaIsArea, Zenon DEF Anon
  <2> HIDE DEF m, lo, hi
  <2>3. Maps(s, mmap(s, m), m.addr, m.addr + m.len)
    BY <2>2, MmapMaps, Zenon
  <2>. QED
    BY <1>2, <2>1, <2>3, Zenon
<1>4. (lo < hi => ~(hi <= lo)) /\ (~(lo < hi) => hi <= lo)
  BY <1>0
<1>. QED
  BY <1>1, <1>3, <1>4, Zenon

\* What is left of a segment stays when other parts are mapped.
LEMMA KeepsPage ==
  ASSUME NEW seg, NEW s, NEW t, Keeps(s, t), NEW p, PageRight(seg, s, p)
  PROVE  PageRight(seg, t, p)
BY Zenon DEF PageRight, Keeps

LEMMA KeepsMapped ==
  ASSUME NEW seg, NEW s, NEW t, Keeps(s, t), Mapped(seg, s)
  PROVE  Mapped(seg, t)
BY KeepsPage, Zenon DEF Mapped, Keeps

\* Where the areas of a segment end.
SegmentEnd(seg) ==
  IF filesz_ceil(seg) < ceil_pg(seg.vaddr + seg.memsz) THEN ceil_pg(seg.vaddr + seg.memsz)
  ELSE filesz_ceil(seg)

\* The four parts map a segment from its first page to its end.
LEMMA SegmentMaps ==
  ASSUME NEW s, Sound(s), NEW seg \in PHEntry, seg.vaddr % PG_SZ = seg.offset % PG_SZ,
         NEW t, t = BssPages(LastPage(FullPages(FirstPage(s, seg), seg), seg), seg)
  PROVE  /\ Maps(s, t, floor_pg(seg.vaddr), SegmentEnd(seg))
         /\ t.res = "Ok" /\ WellFormed(seg) => Mapped(seg, t)
<1> DEFINE t1 == FirstPage(s, seg)
           t2 == FullPages(t1, seg)
           t3 == LastPage(t2, seg)
           a0 == floor_pg(seg.vaddr)
           a1 == full_pg_start(seg)
           e == full_pg_end(seg)
           a2 == IF e > a1 THEN e ELSE a1
           a3 == filesz_ceil(seg)
           a4 == SegmentEnd(seg)
<1>0. /\ a0 \in Nat /\ a1 \in Nat /\ e \in Nat /\ a3 \in Nat /\ PG_SZ \in Nat
      /\ ceil_pg(seg.vaddr + seg.memsz) \in Nat
      /\ a0 <= seg.vaddr /\ seg.vaddr <= a1 /\ seg.vaddr \in Nat
      /\ a3 = e \/ a3 = e + PG_SZ
      /\ e < a1 => a3 = a1
  BY SegmentIs, Bounds, Ceiling, PageSize, Zenon DEF Aligned
<1>1. a2 \in Nat /\ a4 \in Nat /\ a0 <= a1 /\ a1 <= a2 /\ a2 <= a3 /\ a3 <= a4
  BY <1>0 DEF SegmentEnd
<1>2. /\ (IsThird(seg) => a2 = e) /\ (~IsThird(seg) => a2 = a3)
      /\ (~(e > a1) => a2 = a1) /\ (e > a1 => a2 = e)
  BY <1>0 DEF IsThird
<1>3. /\ Maps(s, t1, a0, a1)
      /\ t1.res = "Ok" /\ WellFormed(seg) /\ ~Aligned(seg.vaddr) => PageRight(seg, t1, a0)
  BY FirstMaps, Zenon
<1>4. Sound(t1)
  BY <1>3, Zenon DEF Maps
<1> HIDE DEF t1, a0, a1, a2, a3, a4, e
<1>5. Maps(t1, t2, a1, a2) /\ (t2.res = "Ok" /\ e > a1 => Among(t2.vmas, FileArea(seg)))
  <2>1. CASE e > a1
    BY <1>2, <1>4, <2>1, FullMaps, Zenon DEF e, a1
  <2>2. CASE ~(e > a1)
    <3>1. t2 = t1
      BY <1>4, <2>2, FullMaps, Zenon DEF e, a1
    <3>2. Maps(t1, t1, a1, a1)
      BY <1>0, <1>4, MapsNone, Zenon
    <3>. QED
      BY <1>2, <2>2, <3>1, <3>2, Zenon
  <2>. QED
    BY <2>1, <2>2, Zenon
<1>6. Sound(t2)
  BY <1>5, Zenon DEF Maps
<1> HIDE DEF t2
<1>7. Maps(t2, t3, a2, a3) /\ (t3.res = "Ok" /\ WellFormed(seg) /\ IsThird(seg) => PageRight(seg, t3, e))
  <2>1. CASE IsThird(seg)
    BY <1>2, <1>6, <2>1, LastMaps, Zenon DEF e, a3
  <2>2. CASE ~IsThird(seg)
    <3>1. t3 = t2
      BY <1>6, <2>2, LastMaps, Zenon
    <3>2. Maps(t2, t2, a2, a2)
      BY <1>1, <1>6, MapsNone, Zenon
    <3>. QED
      BY <1>2, <2>2, <3>1, <3>2, Zenon
  <2>. QED
    BY <2>1, <2>2, Zenon
<1>8. Sound(t3)
  BY <1>7, Zenon DEF Maps
<1>9. t = BssPages(t3, seg)
  BY Zenon DEF t1, t2
<1> HIDE DEF t3
<1>10. Maps(t3, t, a3, a4)
  <2>1. CASE a3 < ceil_pg(seg.vaddr + seg.memsz)
    BY <1>8, <1>9, <2>1, BssMaps, Zenon DEF a3, a4, SegmentEnd
  <2>2. CASE ~(a3 < ceil_pg(seg.vaddr + seg.memsz))
    <3>1. t = t3 /\ a4 = a3
      BY <1>8, <1>9, <2>2, BssMaps, Zenon DEF a3, a4, SegmentEnd
    <3>2. Maps(t3, t3, a3, a3)
      BY <1>0, <1>8, MapsNone, Zenon
    <3>. QED
      BY <3>1, <3>2, Zenon
  <2>. QED
    BY <2>1, <2>2, Zenon
<1>11. Maps(s, t, a0, a4)
  <2>0. a0 \in Nat /\ a1 \in Nat /\ a2 \in Nat /\ a3 \in Nat /\ a4 \in Nat
        /\ a0 <= a1 /\ a1 <= a2 /\ a2 <= a3 /\ a3 <= a4 /\ a0 <= a2 /\ a0 <= a3
    BY <1>0, <1>1
  <2>1. Maps(s, t2, a0, a2)
    BY <1>3, <1>5, <2>0, MapsTrans, Zenon
  <2>2. Maps(s, t3, a0, a3)
    BY <1>7, <2>0, <2>1, MapsTrans, Zenon
  <2>. QED
    BY <1>10, <2>0, <2>2, MapsTrans, Zenon
<1>12. ASSUME t.res = "Ok", WellFormed(seg) PROVE Mapped(seg, t)
  <2>1. t3.res = "Ok" /\ Keeps(t3, t)
    BY <1>10, <1>12, Zenon DEF Maps
  <2>2. t2.res = "Ok" /\ Keeps(t2, t3)
    BY <1>7, <2>1, Zenon DEF Maps
  <2>3. t1.res = "Ok" /\ Keeps(t1, t2)
    BY <1>5, <2>2, Zenon DEF Maps
  <2>4. Keeps(t2, t) /\ Keeps(t1, t)
    BY <2>1, <2>2, <2>3, KeepsTrans, Zenon
  <2>5. ~Aligned(seg.vaddr) => PageRight(seg, t, a0)
    BY <1>3, <1>12, <2>3, <2>4, KeepsPage, Zenon
  <2>6. e > a1 => Among(t.vmas, FileArea(seg))
    BY <1>5, <2>2, <2>4, Zenon DEF Keeps
  <2>7. IsThird(seg) => PageRight(seg, t, e)
    BY <1>7, <1>12, <2>1, KeepsPage, Zenon
  <2>. QED
    BY <2>5, <2>6, <2>7, Zenon DEF Mapped, a0, a1, e
<1>. QED
  BY <1>11, <1>12, Zenon DEF a0, a4

-----------------------------------------------------------------------------
(* the pages of an image *)

LEMMA FloorMono ==
  ASSUME NEW a \in Nat, NEW b \in Nat, a <= b
  PROVE  floor_pg(a) <= floor_pg(b) /\ floor_pg(a) \in Nat /\ floor_pg(b) \in Nat
<1>1. /\ Aligned(floor_pg(a)) /\ floor_pg(a) <= a
      /\ Aligned(floor_pg(b)) /\ floor_pg(b) <= b /\ b < floor_pg(b) + PG_SZ
  BY Floor, Zenon
<1>2. floor_pg(a) \in Nat /\ floor_pg(b) \in Nat
  BY <1>1, Zenon DEF Aligned
<1>3. floor_pg(b) < floor_pg(a) => floor_pg(b) + PG_SZ <= floor_pg(a)
  BY <1>1, AlignedSum, Zenon
<1>. QED
  BY <1>1, <1>2, <1>3, PageSize

\* An address is below the beginning of a page when its page is.
LEMMA FloorBelow ==
  ASSUME NEW a \in Nat, NEW p, Aligned(p)
  PROVE  /\ a < p <=> floor_pg(a) < p
         /\ a < p => floor_pg(a) + PG_SZ <= p
<1>1. Aligned(floor_pg(a)) /\ floor_pg(a) <= a /\ a < floor_pg(a) + PG_SZ
  BY Floor, Zenon
<1>2. floor_pg(a) \in Nat /\ p \in Nat
  BY <1>1, Zenon DEF Aligned
<1>3. floor_pg(a) < p => floor_pg(a) + PG_SZ <= p
  BY <1>1, AlignedSum, Zenon
<1>. QED
  BY <1>1, <1>2, <1>3, PageSize

LEMMA CeilingMono ==
  ASSUME NEW a \in Nat, NEW b \in Nat, a <= b
  PROVE  ceil_pg(a) <= ceil_pg(b) /\ ceil_pg(a) \in Nat /\ ceil_pg(b) \in Nat
<1>1. a + PG_SZ - 1 \in Nat /\ b + PG_SZ - 1 \in Nat /\ a + PG_SZ - 1 <= b + PG_SZ - 1
  BY PageSize
<1>. QED
  BY <1>1, FloorMono, Zenon DEF ceil_pg

\* ceil_pg() of what ends before a page ends there at the latest.
LEMMA CeilingBelow ==
  ASSUME NEW a \in Nat, NEW p, Aligned(p), a <= p
  PROVE  ceil_pg(a) <= p
<1>1. p \in Nat
  BY DEF Aligned
<1>2. ceil_pg(a) <= ceil_pg(p) /\ ceil_pg(p) = p
  BY <1>1, CeilingMono, Ceiling, Zenon
<1>. QED
  BY <1>2, Zenon

\* Areas are made of whole pages.
LEMMA SpansPage ==
  ASSUME NEW x \in Area, NEW a \in Nat
  PROVE  Spans(x, a) <=> Spans(x, floor_pg(a))
<1>1. x.addr \in Nat /\ x.len \in Nat /\ Aligned(x.addr) /\ Aligned(x.addr + x.len)
  BY AreaIs, AlignedSum, Zenon
<1>2. floor_pg(a) \in Nat
  BY Floor DEF Aligned
<1>3. /\ a < x.addr <=> floor_pg(a) < x.addr
      /\ a < x.addr + x.len <=> floor_pg(a) < x.addr + x.len
  BY <1>1, FloorBelow, Zenon
<1>. QED
  BY <1>1, <1>2, <1>3 DEF Spans

LEMMA WithinIs ==
  ASSUME NEW seg \in PHEntry, NEW a
  PROVE  a \in Within(seg) <=> a \in Nat /\ seg.vaddr <= a /\ a < seg.vaddr + seg.memsz
<1>1. seg.vaddr \in Nat /\ seg.memsz \in Nat
  BY SegmentIs
<1>. QED
  BY <1>1 DEF Within

\* The pages of a segment follow each other.
LEMMA PagesInterval ==
  ASSUME NEW seg \in PHEntry, seg.memsz > 0, NEW a \in Nat
  PROVE  floor_pg(a) \in PagesOf(seg) <=> InPages(seg, a)
<1> DEFINE v == seg.vaddr
           e == seg.vaddr + seg.memsz
           p == floor_pg(a)
<1>0. v \in Nat /\ e \in Nat /\ v < e
  BY SegmentIs
<1>1. Aligned(p) /\ p \in Nat /\ p <= a /\ a < p + PG_SZ
  BY Floor, Zenon DEF Aligned
<1>2. Aligned(floor_pg(v)) /\ floor_pg(v) \in Nat /\ floor_pg(v) <= v /\ v < floor_pg(v) + PG_SZ
  BY <1>0, Floor, Zenon DEF Aligned
<1>3. Aligned(ceil_pg(e)) /\ ceil_pg(e) \in Nat /\ e <= ceil_pg(e) /\ ceil_pg(e) < e + PG_SZ
  BY <1>0, Ceiling, Zenon DEF Aligned
<1>4. a < floor_pg(v) <=> p < floor_pg(v)
  BY <1>2, FloorBelow, Zenon
<1>5. (a < ceil_pg(e) <=> p < ceil_pg(e)) /\ (a < ceil_pg(e) => p + PG_SZ <= ceil_pg(e))
  BY <1>3, FloorBelow, Zenon
<1> HIDE DEF p
<1>6. ASSUME p \in PagesOf(seg) PROVE InPages(seg, a)
  <2>1. PICK b \in Within(seg) : p = floor_pg(b)
    BY <1>6, Zenon DEF PagesOf
  <2>2. b \in Nat /\ v <= b /\ b < e
    BY <2>1, WithinIs, Zenon
  <2>3. floor_pg(v) <= p
    BY <1>0, <2>1, <2>2, FloorMono, Zenon
  <2>4. p < ceil_pg(e)
    <3>1. b < ceil_pg(e)
      BY <1>0, <1>3, <2>2
    <3>. QED
      BY <1>3, <2>1, <2>2, <3>1, FloorBelow, Zenon
  <2>5. floor_pg(v) <= a /\ a < ceil_pg(e)
    BY <1>1, <1>2, <1>5, <2>3, <2>4
  <2>. QED
    BY <2>5, Zenon DEF InPages
<1>7. ASSUME InPages(seg, a) PROVE p \in PagesOf(seg)
  <2>1. floor_pg(v) <= a /\ a < ceil_pg(e)
    BY <1>7, Zenon DEF InPages
  <2>2. floor_pg(v) <= p /\ p + PG_SZ <= ceil_pg(e)
    BY <1>1, <1>2, <1>4, <1>5, <2>1
  <2>3. CASE v <= p
    <3>1. p \in Within(seg)
      <4>1. p < e
        BY <1>0, <1>1, <1>3, <2>2, PageSize
      <4>. QED
        BY <1>1, <2>3, <4>1, WithinIs, Zenon
    <3>2. floor_pg(p) = p
      BY <1>1, PageSize, FloorIs
    <3>. QED
      BY <3>1, <3>2, Zenon DEF PagesOf
  <2>4. CASE p < v
    <3>1. v \in Within(seg)
      <4>1. v <= v
        BY <1>0
      <4>. QED
        BY <1>0, <4>1, WithinIs, Zenon
    <3>2. floor_pg(v) = p
      <4>1. floor_pg(v) < p => floor_pg(v) + PG_SZ <= p
        BY <1>1, <1>2, AlignedSum, Zenon
      <4>. QED
        BY <1>0, <1>1, <1>2, <2>2, <2>4, <4>1, PageSize
    <3>. QED
      BY <3>1, <3>2, Zenon DEF PagesOf
  <2>. QED
    BY <1>0, <1>1, <2>3, <2>4
<1>. QED
  BY <1>6, <1>7, Zenon DEF p

\* A segment as the format has it ends where its memory does.
LEMMA EndOfSegment ==
  ASSUME NEW seg \in PHEntry, WellFormed(seg)
  PROVE  SegmentEnd(seg) = ceil_pg(seg.vaddr + seg.memsz)
<1>1. seg.vaddr + seg.filesz \in Nat /\ seg.vaddr + seg.memsz \in Nat
      /\ seg.vaddr + seg.filesz <= seg.vaddr + seg.memsz
  BY SegmentIs DEF WellFormed
<1>2. /\ filesz_ceil(seg) <= ceil_pg(seg.vaddr + seg.memsz)
      /\ filesz_ceil(seg) \in Nat /\ ceil_pg(seg.vaddr + seg.memsz) \in Nat
  BY <1>1, CeilingMono, Zenon DEF filesz_ceil
<1>. QED
  BY <1>2 DEF SegmentEnd

LEMMA StackIs == /\ stack_top \in Nat /\ stack_size \in Nat /\ stack_size > 0
                 /\ stack_top - stack_size \in Nat
                 /\ Aligned(stack_top) /\ Aligned(stack_size) /\ Aligned(stack_top - stack_size)
<1>1. stack_top \in Nat /\ stack_size \in Nat /\ stack_size > 0 /\ stack_size <= stack_top
  BY ProcessAssumption
<1>2. Aligned(stack_top) /\ Aligned(stack_size)
  BY <1>1, ProcessAssumption, Zenon DEF Aligned
<1>3. Aligned(stack_top - stack_size)
  BY <1>1, <1>2, AlignedSum, Zenon
<1>. QED
  BY <1>1, <1>2, <1>3

\* The segments of an image that can be loaded are apart from each other and from
\* the stack.
LEMMA LoadableIs ==
  ASSUME Loadable, elf \in Image, NEW i \in DOMAIN elf, elf[i].load, NEW a \in Nat, InPages(elf[i], a)
  PROVE  /\ ~InStack(a)
         /\ \A j \in DOMAIN elf : elf[j].load /\ InPages(elf[j], a) => j = i
<1>1. elf \in Seq(PHEntry) /\ \A j \in DOMAIN elf : elf[j] \in PHEntry
  BY ProcessAssumption, SeqIs, Zenon
<1>2. \A j \in DOMAIN elf : elf[j].load => WellFormed(elf[j])
  BY Zenon DEF Loadable, Segments
<1>3. \A j \in DOMAIN elf : elf[j].load => (floor_pg(a) \in PagesOf(elf[j]) <=> InPages(elf[j], a))
  BY <1>1, <1>2, PagesInterval, Zenon DEF WellFormed
<1>4. ASSUME NEW j \in DOMAIN elf, elf[j].load, InPages(elf[j], a) PROVE j = i
  <2>1. floor_pg(a) \in PagesOf(elf[i]) /\ floor_pg(a) \in PagesOf(elf[j])
    BY <1>3, <1>4, Zenon
  <2>2. j # i => PagesOf(elf[j]) \cap PagesOf(elf[i]) = {}
    BY <1>4, Zenon DEF Loadable
  <2>. QED
    BY <2>1, <2>2, Zenon
<1>5. ~InStack(a)
  <2>1. /\ elf[i].vaddr + elf[i].memsz <= stack_top - stack_size
        /\ elf[i].vaddr + elf[i].memsz \in Nat
    BY <1>1, <1>2, SegmentIs, Zenon DEF WellFormed
  <2>2. ceil_pg(elf[i].vaddr + elf[i].memsz) <= stack_top - stack_size
    BY <2>1, StackIs, CeilingBelow, Zenon
  <2>3. ceil_pg(elf[i].vaddr + elf[i].memsz) \in Nat
    BY <2>1, Ceiling DEF Aligned
  <2>. QED
    BY <2>2, <2>3, StackIs DEF InPages, InStack
<1>. QED
  BY <1>4, <1>5, Zenon

-----------------------------------------------------------------------------
(* the invariant *)

LEMMA EmptySound ==
  ASSUME NEW r
  PROVE  Sound([vmas |-> <<>>, res |-> r, present |-> <<>>]) /\ \A a : ~Covers(<<>>, a)
<1>1. <<>> \in Seq(Area) /\ DOMAIN <<>> = {}
  OBVIOUS
<1>. QED
  BY <1>1, Zenon DEF Sound, Sorted, Covers

LEMMA InitialMemory == ProcessInit => ProcessInv
<1> SUFFICES ASSUME ProcessInit PROVE ProcessInv
  OBVIOUS
<1>1. /\ elf \in Image /\ loader = "parse" /\ ph = 0
      /\ vmas = <<>> /\ res = "Ok" /\ present = <<>>
      /\ access.addr = 0 /\ access.w = FALSE
  BY DEF ProcessInit
<1>2. Len(elf) \in Nat
  BY <1>1, ProcessAssumption, SeqIs, Zenon
<1>3. Sound(Now) /\ \A a : ~Covers(vmas, a)
  BY <1>1, EmptySound, Zenon DEF Now
<1>4. Loaded(ph) = {}
  BY <1>1 DEF Loaded
<1>5. \A a \in Nat : ~ShouldCover(a)
  BY <1>1, <1>4, Zenon DEF ShouldCover
<1>6. ph \in 0..Len(elf) /\ access.addr \in Nat
  BY <1>1, <1>2
<1>7. WritesAllowed
  BY <1>1, Zenon DEF WritesAllowed
<1>. QED
  BY <1>1, <1>3, <1>4, <1>5, <1>6, <1>7, Zenon DEF ProcessInv

\* What is not a variable of the loader depends on the image alone.
LEMMA SameImage ==
  ASSUME elf' = elf
  PROVE  /\ Loadable' <=> Loadable
         /\ Segments' = Segments
         /\ ph' = ph => Loaded(ph)' = Loaded(ph)
BY Zenon DEF Loadable, Segments, Loaded

LEMMA ParseKeeps ==
  ASSUME ProcessInv, NEW valid \in Valid, parse_executable(valid)
  PROVE  ProcessInv'
<1>1. /\ loader = "parse" /\ elf' = elf /\ ph' = ph /\ vmas' = vmas /\ present' = present /\ access' = access
      /\ \/ loader' = "map" /\ res' = res
         \/ loader' = "failed" /\ res' = "NonExecutable"
  BY Zenon DEF parse_executable
<1>2. /\ elf \in Image /\ ph \in 0..Len(elf) /\ res = "Ok" /\ Sound(Now)
      /\ access.addr \in Nat /\ WritesAllowed /\ ~access.w
      /\ Loadable => /\ \A i \in Loaded(ph) : Mapped(elf[i], Now)
                     /\ \A a \in Nat : Covers(vmas, a) <=> ShouldCover(a)
  BY <1>1, Zenon DEF ProcessInv
<1>3. /\ Loadable' <=> Loadable
      /\ Loaded(ph)' = Loaded(ph)
  BY <1>1, SameImage, Zenon
<1>4. Now' = [vmas |-> vmas, res |-> res', present |-> present]
  BY <1>1, Zenon DEF Now
<1>5. Sound(Now')
  BY <1>2, <1>4 DEF Sound, Now
<1>6. WritesAllowed'
  BY <1>1, <1>2, Zenon DEF WritesAllowed
<1>7. ASSUME Loadable, loader' = "map"
      PROVE  /\ \A i \in Loaded(ph) : Mapped(elf[i], Now')
             /\ \A a \in Nat : Covers(vmas, a) <=> ShouldCover(a)'
  <2>1. Now' = Now
    BY <1>1, <1>4, <1>7, Zenon DEF Now
  <2>2. \A a \in Nat : ShouldCover(a)' <=> ShouldCover(a)
    BY <1>1, <1>3, <1>7, Zenon DEF ShouldCover
  <2>. QED
    BY <1>2, <1>7, <2>1, <2>2, Zenon
<1>. QED
  BY <1>1, <1>2, <1>3, <1>5, <1>6, <1>7, Zenon DEF ProcessInv

\* One turn of the loop: it maps the pages of its segment, and fails only for images
\* that are not as they should be.
LEMMA OneSegment ==
  ASSUME ProcessInv, loader = "map", ph < Len(elf), NEW seg, seg = elf[ph + 1], NEW s,
         s = IF ~seg.load THEN Now
             ELSE IF seg.vaddr % PG_SZ # seg.offset % PG_SZ THEN [Now EXCEPT !.res = "NonExecutable"]
             ELSE BssPages(LastPage(FullPages(FirstPage(Now, seg), seg), seg), seg)
  PROVE  /\ Sound(s)
         /\ s.res = "Ok" => Keeps(Now, s)
         /\ s.res = "Ok" /\ Loadable =>
              /\ seg.load => Mapped(seg, s)
              /\ \A a \in Nat : Covers(s.vmas, a) <=> Covers(vmas, a) \/ (seg.load /\ InPages(seg, a))
         /\ s.res # "Ok" => s.res = "NonExecutable" \/ ~Loadable
<1>1. /\ elf \in Image /\ ph \in 0..Len(elf) /\ res = "Ok" /\ Sound(Now)
      /\ Loadable => \A a \in Nat : Covers(vmas, a) <=> ShouldCover(a)
  BY Zenon DEF ProcessInv
<1>2. elf \in Seq(PHEntry)
  BY <1>1, ProcessAssumption, Zenon
<1>3. ph + 1 \in DOMAIN elf /\ seg \in PHEntry
  BY <1>1, <1>2
<1>4. Now.res = "Ok" /\ Now.vmas = vmas /\ Now.present = present
  BY <1>1 DEF Now
<1>5. Keeps(Now, Now)
  BY Zenon DEF Keeps
<1>6. CASE ~seg.load
  <2>1. s = Now
    BY <1>6, Zenon
  <2>. QED
    BY <1>1, <1>4, <1>5, <1>6, <2>1, Zenon
<1>7. CASE seg.load /\ seg.vaddr % PG_SZ # seg.offset % PG_SZ
  <2>1. s = [vmas |-> vmas, res |-> "NonExecutable", present |-> present]
    BY <1>7 DEF Now
  <2>2. s.res = "NonExecutable" /\ s.res # "Ok"
    BY <2>1
  <2>3. Sound(s)
    BY <1>1, <2>1 DEF Sound, Now
  <2>. QED
    BY <2>2, <2>3, Zenon
<1>8. CASE seg.load /\ seg.vaddr % PG_SZ = seg.offset % PG_SZ
  <2>1. s = BssPages(LastPage(FullPages(FirstPage(Now, seg), seg), seg), seg)
    BY <1>8, Zenon
  <2>2. /\ Maps(Now, s, floor_pg(seg.vaddr), SegmentEnd(seg))
        /\ s.res = "Ok" /\ WellFormed(seg) => Mapped(seg, s)
    BY <1>1, <1>3, <1>8, <2>1, SegmentMaps, Zenon
  <2>3. /\ Sound(s)
        /\ s.res = "Ok" => Keeps(Now, s) /\ Grown(vmas, s.vmas, floor_pg(seg.vaddr), SegmentEnd(seg))
        /\ Free(vmas, floor_pg(seg.vaddr), SegmentEnd(seg)) => s.res = "Ok"
    BY <1>4, <2>2, Zenon DEF Maps
  <2>4. ASSUME Loadable
        PROVE  /\ WellFormed(seg)
               /\ s.res = "Ok" => \A a \in Nat : Covers(s.vmas, a) <=> Covers(vmas, a) \/ InPages(seg, a)
               /\ s.res = "Ok"
    <3>1. WellFormed(seg)
      BY <1>3, <1>8, <2>4, Zenon DEF Loadable, Segments
    <3>2. SegmentEnd(seg) = ceil_pg(seg.vaddr + seg.memsz)
      BY <1>3, <3>1, EndOfSegment, Zenon
    <3>3. ASSUME NEW a \in Nat, InPages(seg, a) PROVE ~Covers(vmas, a)
      <4>1. \A j \in DOMAIN elf : elf[j].load /\ InPages(elf[j], a) => j = ph + 1
        BY <1>1, <1>3, <1>8, <2>4, <3>3, LoadableIs, Zenon
      <4>2. \A i \in Loaded(ph) : i \in DOMAIN elf /\ elf[i].load /\ i # ph + 1
        BY <1>1, <1>2 DEF Loaded
      <4>. QED
        BY <1>1, <2>4, <4>1, <4>2, Zenon DEF ShouldCover
    <3>4. Free(vmas, floor_pg(seg.vaddr), SegmentEnd(seg))
      BY <3>2, <3>3, Zenon DEF Free, InPages
    <3>. QED
      BY <2>3, <3>1, <3>2, <3>4, Zenon DEF Grown, InPages
  <2>. QED
    BY <1>8, <2>2, <2>3, <2>4, Zenon
<1>. QED
  BY <1>6, <1>7, <1>8, Zenon

LEMMA SegmentKeeps ==
  ASSUME ProcessInv, map_elf_segments
  PROVE  ProcessInv'
<1> DEFINE seg == elf[ph + 1]
           s == IF ~seg.load THEN Now
                ELSE IF seg.vaddr % PG_SZ # seg.offset % PG_SZ THEN [Now EXCEPT !.res = "NonExecutable"]
                ELSE BssPages(LastPage(FullPages(FirstPage(Now, seg), seg), seg), seg)
<1>1. /\ loader = "map" /\ ph < Len(elf) /\ ph' = ph + 1 /\ elf' = elf /\ access' = access
      /\ vmas' = s.vmas /\ res' = s.res /\ present' = s.present
      /\ loader' = IF s.res = "Ok" THEN "map" ELSE "failed"
  BY Zenon DEF map_elf_segments, Adopt
<1>2. /\ Sound(s)
      /\ s.res = "Ok" => Keeps(Now, s)
      /\ s.res = "Ok" /\ Loadable =>
           /\ seg.load => Mapped(seg, s)
           /\ \A a \in Nat : Covers(s.vmas, a) <=> Covers(vmas, a) \/ (seg.load /\ InPages(seg, a))
      /\ s.res # "Ok" => s.res = "NonExecutable" \/ ~Loadable
  BY <1>1, OneSegment, Zenon
<1> HIDE DEF s
<1>3. /\ elf \in Image /\ ph \in 0..Len(elf) /\ access.addr \in Nat /\ ~access.w
      /\ Loadable => /\ \A i \in Loaded(ph) : Mapped(elf[i], Now)
                     /\ \A a \in Nat : Covers(vmas, a) <=> ShouldCover(a)
  BY <1>1, Zenon DEF ProcessInv
<1>4. Now' = s
  BY <1>1, <1>2, Zenon DEF Now, Sound
<1>5. Loadable' <=> Loadable
  BY <1>1, SameImage, Zenon
<1>6. ph + 1 \in 0..Len(elf)
  BY <1>1, <1>3
<1>7. \A i : i \in Loaded(ph)' <=> i \in Loaded(ph) \/ (i = ph + 1 /\ seg.load)
  <2>1. \A i : i \in 1..(ph + 1) <=> i \in 1..ph \/ i = ph + 1
    BY <1>3
  <2>. QED
    BY <1>1, <2>1, Zenon DEF Loaded
<1>8. ASSUME Loadable, s.res = "Ok"
      PROVE  /\ \A i \in Loaded(ph)' : Mapped(elf[i], s)
             /\ \A a \in Nat : Covers(s.vmas, a) <=> ShouldCover(a)'
  <2>1. \A i \in Loaded(ph) : Mapped(elf[i], s)
    BY <1>2, <1>3, <1>8, KeepsMapped, Zenon
  <2>2. \A i \in Loaded(ph)' : Mapped(elf[i], s)
    BY <1>2, <1>7, <1>8, <2>1, Zenon
  <2>3. loader' = "map" /\ "map" # "run"
    BY <1>1, <1>8
  <2>4. \A a \in Nat : ShouldCover(a) <=> \E i \in Loaded(ph) : InPages(elf[i], a)
    BY <1>1, <2>3, Zenon DEF ShouldCover
  <2>5. \A a \in Nat : ShouldCover(a)' <=> \E i \in Loaded(ph)' : InPages(elf[i], a)
    BY <1>1, <2>3, Zenon DEF ShouldCover
  <2>6. ASSUME NEW a \in Nat PROVE Covers(s.vmas, a) <=> ShouldCover(a)'
    BY <1>2, <1>3, <1>7, <1>8, <2>4, <2>5, Zenon
  <2>. QED
    BY <2>2, <2>6, Zenon
<1>9. WritesAllowed'
  BY <1>1, <1>3, Zenon DEF WritesAllowed
<1>. QED
  BY <1>1, <1>2, <1>3, <1>4, <1>5, <1>6, <1>8, <1>9, Zenon DEF ProcessInv

LEMMA StackKeeps ==
  ASSUME ProcessInv, MapStack
  PROVE  ProcessInv'
<1> DEFINE m == Vma(stack_top - stack_size, stack_size, [w |-> TRUE, r |-> TRUE], FALSE, 0)
           s == mmap(Now, m)
<1>1. /\ loader = "map" /\ ph = Len(elf) /\ ph' = ph /\ elf' = elf /\ access' = access
      /\ vmas' = s.vmas /\ res' = s.res /\ present' = s.present
      /\ loader' = IF s.res = "Ok" THEN "run" ELSE "failed"
  BY Zenon DEF MapStack, Adopt
<1>2. m \in Area /\ m.addr = stack_top - stack_size /\ m.addr + m.len = stack_top
  <2>1. m.addr = stack_top - stack_size /\ m.len = stack_size
    BY DEF Vma
  <2>2. [w |-> TRUE, r |-> TRUE] \in [r : BOOLEAN, w : BOOLEAN]
    OBVIOUS
  <2>3. m \in Area
    BY <2>2, StackIs, SomeAligned, VmaIsArea, Zenon
  <2>4. (stack_top - stack_size) + stack_size = stack_top
    BY StackIs
  <2>. QED
    BY <2>1, <2>3, <2>4, Zenon
<1>3. /\ elf \in Image /\ ph \in 0..Len(elf) /\ access.addr \in Nat /\ ~access.w
      /\ Sound(Now) /\ res = "Ok"
      /\ Loadable => /\ \A i \in Loaded(ph) : Mapped(elf[i], Now)
                     /\ \A a \in Nat : Covers(vmas, a) <=> ShouldCover(a)
  BY <1>1, Zenon DEF ProcessInv
<1>4. Now.res = "Ok" /\ Now.vmas = vmas
  BY <1>3 DEF Now
<1>5. Maps(Now, s, stack_top - stack_size, stack_top)
  BY <1>2, <1>3, MmapMaps, Zenon
<1> HIDE DEF s
<1>6. /\ Sound(s)
      /\ s.res = "Ok" => Keeps(Now, s) /\ Grown(vmas, s.vmas, stack_top - stack_size, stack_top)
      /\ Free(vmas, stack_top - stack_size, stack_top) => s.res = "Ok"
  BY <1>4, <1>5, Zenon DEF Maps
<1>7. Now' = s
  BY <1>1, <1>6, Zenon DEF Now, Sound
<1>8. (Loadable' <=> Loadable) /\ Loaded(ph)' = Loaded(ph)
  BY <1>1, SameImage, Zenon
<1>9. \A i \in Loaded(ph) : i \in DOMAIN elf /\ elf[i].load
  <2>1. elf \in Seq(PHEntry)
    BY <1>3, ProcessAssumption, Zenon
  <2>. QED
    BY <1>1, <2>1 DEF Loaded
<1>10. \A a \in Nat : ShouldCover(a) <=> \E i \in Loaded(ph) : InPages(elf[i], a)
  <2>1. loader # "run"
    BY <1>1
  <2>. QED
    BY <2>1, Zenon DEF ShouldCover
<1>11. ASSUME Loadable PROVE s.res = "Ok"
  <2>1. ASSUME NEW a \in Nat, InStack(a) PROVE ~Covers(vmas, a)
    BY <1>3, <1>9, <1>10, <1>11, <2>1, LoadableIs, Zenon
  <2>2. Free(vmas, stack_top - stack_size, stack_top)
    BY <2>1, Zenon DEF Free, InStack
  <2>. QED
    BY <1>6, <2>2, Zenon
<1>12. ASSUME Loadable, s.res = "Ok"
       PROVE  /\ \A i \in Loaded(ph) : Mapped(elf[i], s)
              /\ \A a \in Nat : Covers(s.vmas, a) <=> ShouldCover(a)'
  <2>1. \A i \in Loaded(ph) : Mapped(elf[i], s)
    BY <1>3, <1>6, <1>12, KeepsMapped, Zenon
  <2>2. loader' = "run"
    BY <1>1, <1>12, Zenon
  <2>3. \A a \in Nat : ShouldCover(a)' <=> (\E i \in Loaded(ph) : InPages(elf[i], a)) \/ InStack(a)
    BY <1>1, <1>8, <2>2, Zenon DEF ShouldCover
  <2>4. \A a \in Nat : Covers(s.vmas, a) <=> Covers(vmas, a) \/ InStack(a)
    BY <1>6, <1>12, Zenon DEF Grown, InStack
  <2>. QED
    BY <1>3, <1>10, <1>12, <2>1, <2>3, <2>4, Zenon
<1>13. WritesAllowed'
  BY <1>1, <1>3, Zenon DEF WritesAllowed
<1>14. s.res # "Ok" => ~Loadable
  BY <1>11, Zenon
<1>. QED
  BY <1>1, <1>3, <1>6, <1>7, <1>8, <1>12, <1>13, <1>14, Zenon DEF ProcessInv

\* A page that faults is mapped as its area says, and the others stay.
LEMMA FaultSound ==
  ASSUME NEW s, Sound(s), NEW m, Among(s.vmas, m), NEW a \in Nat, Spans(m, a), NEW p, p = floor_pg(a),
         p \notin DOMAIN s.present,
         NEW t, t = [vmas |-> s.vmas, res |-> s.res, present |-> With(s.present, p, FaultIn(m))]
  PROVE  Sound(t) /\ Keeps(s, t)
<1>1. s.vmas \in Seq(Area) /\ \A q \in DOMAIN s.present : Aligned(q) /\ InArea(s.vmas, q, s.present[q])
  BY Zenon DEF Sound
<1>2. t.vmas = s.vmas /\ t.present = With(s.present, p, FaultIn(m)) /\ t.res = s.res
  OBVIOUS
<1>3. /\ DOMAIN t.present = DOMAIN s.present \cup {p}
      /\ t.present[p] = FaultIn(m)
      /\ \A q \in DOMAIN s.present : t.present[q] = s.present[q]
  BY <1>2 DEF With
<1>4. m \in Area
  <2>1. PICK k \in DOMAIN s.vmas : s.vmas[k] = m
    BY Zenon DEF Among
  <2>. QED
    BY <1>1, <2>1, SeqIs, Zenon
<1>5. Aligned(p) /\ Spans(m, p)
  BY <1>4, Floor, SpansPage, Zenon
<1>6. Suits(m, p, FaultIn(m))
  <2>1. FaultIn(m).r_w = m.prot.w /\ (m.file => FaultIn(m).v = BytesOf(floor_pg(m.offset)))
    BY DEF FaultIn, Writable
  <2>. QED
    BY <1>5, <2>1, Zenon DEF Suits
<1>7. \A q \in DOMAIN t.present : Aligned(q) /\ InArea(t.vmas, q, t.present[q])
  BY <1>1, <1>2, <1>3, <1>5, <1>6, InAreaIs, ZenonT(30)
<1>8. Sound(t)
  BY <1>2, <1>7, Zenon DEF Sound
<1>9. Keeps(s, t)
  BY <1>2, <1>3, Zenon DEF Keeps
<1>. QED
  BY <1>8, <1>9, Zenon

\* Steps of user code: the areas stay and pages may come.
LEMMA PageFaultKeeps ==
  ASSUME ProcessInv, NEW a \in 0..stack_top, NEW w \in BOOLEAN, isr_pf(a, w)
  PROVE  ProcessInv'
<1> DEFINE p == floor_pg(a)
           hit == Hit(vmas, a)
           m == vmas[Min(hit)]
<1>1. /\ loader = "run" /\ ph' = ph /\ elf' = elf /\ vmas' = vmas /\ res' = res
      /\ \/ /\ p \in DOMAIN present /\ present' = present
            /\ loader' = IF w /\ ~present[p].r_w THEN "exit" ELSE "run"
            /\ access' = [addr |-> a, w |-> w, ok |-> ~(w /\ ~present[p].r_w)]
         \/ /\ loader' = "exit" /\ access' = [addr |-> a, w |-> w, ok |-> FALSE] /\ present' = present
         \/ /\ p \notin DOMAIN present /\ hit # {} /\ present' = With(present, p, FaultIn(m))
            /\ loader' = loader /\ access' = access
  BY Zenon DEF isr_pf
<1>2. /\ elf \in Image /\ ph \in 0..Len(elf) /\ access.addr \in Nat /\ WritesAllowed
      /\ Sound(Now) /\ res = "Ok" /\ ph = Len(elf)
      /\ Loadable => /\ \A i \in Loaded(ph) : Mapped(elf[i], Now)
                     /\ \A b \in Nat : Covers(vmas, b) <=> ShouldCover(b)
  BY <1>1, Zenon DEF ProcessInv
<1>3. Now.vmas = vmas /\ Now.present = present /\ Now.res = res
  BY DEF Now
<1>4. /\ vmas \in Seq(Area) /\ Sorted(vmas)
      /\ \A q \in DOMAIN present : InArea(vmas, q, present[q])
  BY <1>2, <1>3, Zenon DEF Sound
<1>5. a \in Nat
  BY StackIs
<1>6. /\ \A k \in DOMAIN vmas : vmas[k] \in Area
      /\ \A k \in DOMAIN vmas : k \in Hit(vmas, a) <=> Spans(vmas[k], a)
  <2>1. \A k \in DOMAIN vmas : vmas[k] \in Area
    BY <1>4, SeqIs, Zenon
  <2>2. \A k \in DOMAIN vmas : vmas[k].addr \in Nat
    BY <2>1, AreaIs, Zenon
  <2>. QED
    BY <1>5, <2>1, <2>2 DEF Hit, Spans
<1>7. Sound(Now') /\ Keeps(Now, Now')
  <2>1. CASE present' = present
    <3>1. Now' = Now
      BY <1>1, <2>1, Zenon DEF Now
    <3>. QED
      BY <1>2, <3>1, Zenon DEF Keeps
  <2>2. CASE p \notin DOMAIN present /\ hit # {} /\ present' = With(present, p, FaultIn(m))
    <3>1. PICK k \in DOMAIN vmas : Spans(vmas[k], a)
      BY <1>6, <2>2, Zenon DEF Hit
    <3>2. Among(vmas, vmas[k]) /\ m = vmas[k]
      BY <1>4, <1>5, <3>1, FoundArea, Zenon DEF Among
    <3>3. Now' = [vmas |-> Now.vmas, res |-> Now.res, present |-> With(Now.present, p, FaultIn(m))]
      BY <1>1, <1>3, <2>2, Zenon DEF Now
    <3> HIDE DEF p, m
    <3>4. p = floor_pg(a) /\ Spans(m, a)
      BY <3>1, <3>2, Zenon DEF p
    <3>. QED
      BY <1>2, <1>3, <1>5, <2>2, <3>2, <3>3, <3>4, FaultSound, Zenon
  <2>. QED
    BY <1>1, <2>1, <2>2, Zenon
<1>8. (Loadable' <=> Loadable) /\ Loaded(ph)' = Loaded(ph)
  BY <1>1, SameImage, Zenon
<1>9. ASSUME Loadable, loader' = "run"
      PROVE  /\ \A i \in Loaded(ph) : Mapped(elf[i], Now')
             /\ \A b \in Nat : Covers(vmas, b) <=> ShouldCover(b)'
  <2>1. \A i \in Loaded(ph) : Mapped(elf[i], Now')
    BY <1>2, <1>7, <1>9, KeepsMapped, Zenon
  <2>2. \A b \in Nat : ShouldCover(b)' <=> ShouldCover(b)
    BY <1>1, <1>8, <1>9, Zenon DEF ShouldCover
  <2>. QED
    BY <1>2, <1>9, <2>1, <2>2, Zenon
<1>10. access'.addr \in Nat /\ WritesAllowed'
  <2>1. ASSUME p \in DOMAIN present, present[p].r_w PROVE \E k \in Hit(vmas, a) : vmas[k].prot.w
    <3>1. PICK k \in DOMAIN vmas : Suits(vmas[k], p, present[p])
      BY <1>4, <2>1, Zenon DEF InArea
    <3>2. vmas[k].prot.w /\ Spans(vmas[k], p)
      BY <2>1, <3>1, Zenon DEF Suits
    <3>3. Spans(vmas[k], a)
      BY <1>5, <1>6, <3>2, SpansPage, Zenon
    <3>. QED
      BY <1>6, <3>2, <3>3, Zenon
  <2>2. CASE /\ p \in DOMAIN present
             /\ access' = [addr |-> a, w |-> w, ok |-> ~(w /\ ~present[p].r_w)]
    <3>1. access'.addr = a /\ access'.w = w /\ access'.ok = ~(w /\ ~present[p].r_w)
      BY <2>2, Zenon
    <3>2. access'.ok /\ access'.w => present[p].r_w
      BY <3>1, Zenon
    <3>. QED
      BY <1>1, <1>5, <2>1, <2>2, <3>1, <3>2, Zenon DEF WritesAllowed
  <2>3. CASE access' = [addr |-> a, w |-> w, ok |-> FALSE]
    <3>1. access'.addr = a /\ access'.ok = FALSE
      BY <2>3, Zenon
    <3>. QED
      BY <1>5, <3>1, Zenon DEF WritesAllowed
  <2>4. CASE access' = access
    BY <1>1, <1>2, <2>4, Zenon DEF WritesAllowed
  <2>. QED
    BY <1>1, <2>2, <2>3, <2>4, Zenon
<1>11. loader' \in {"run", "exit"}
  BY <1>1, Zenon
<1>. QED
  BY <1>1, <1>2, <1>7, <1>8, <1>9, <1>10, <1>11, Zenon DEF ProcessInv

-----------------------------------------------------------------------------
(* what the invariant says of the pages of a segment *)

\* The page a file mapping begins with shows the bytes of the segment.
LEMMA FilePageRight ==
  ASSUME NEW seg \in PHEntry, WellFormed(seg), NEW s, Sound(s), Among(s.vmas, FileArea(seg)),
         full_pg_end(seg) > full_pg_start(seg), full_pg_start(seg) \in DOMAIN s.present,
         NEW a \in Nat, floor_pg(a) = full_pg_start(seg)
  PROVE  s.present[full_pg_start(seg)].v[a % PG_SZ] = Expected(seg, a)
<1> DEFINE v == seg.vaddr
           fps == full_pg_start(seg)
           fpe == full_pg_end(seg)
           off == seg.offset + (fps - v)
           m == FileArea(seg)
<1>1. /\ v \in Nat /\ seg.offset \in Nat /\ seg.filesz \in Nat /\ fps \in Nat /\ fpe \in Nat
      /\ Aligned(fps) /\ Aligned(fpe) /\ v <= fps /\ fpe <= v + seg.filesz /\ PG_SZ \in Nat /\ PG_SZ > 0
  BY SegmentIs, Bounds, PageSize, Zenon DEF Aligned
<1>2. m.addr = fps /\ m.len = fpe - fps /\ m.file = TRUE /\ m.offset = off
  BY DEF FileArea, Vma
<1>3. Aligned(off) /\ off \in Nat /\ floor_pg(off) = off
  <2>1. Aligned(off)
    BY <1>1, SamePlace, Zenon DEF WellFormed
  <2>2. off \in Nat
    BY <2>1, Zenon DEF Aligned
  <2>. QED
    BY <1>1, <2>1, <2>2, FloorIs
<1>4. s.present[fps].v = BytesOf(off)
  <2>1. s.vmas \in Seq(Area) /\ Sorted(s.vmas) /\ InArea(s.vmas, fps, s.present[fps])
    BY Zenon DEF Sound
  <2>2. Spans(m, fps)
    BY <1>1, <1>2 DEF Spans
  <2>3. PICK x : Among(s.vmas, x) /\ Suits(x, fps, s.present[fps])
    BY <2>1, InAreaIs, Zenon
  <2>4. x = m
    BY <1>1, <2>1, <2>2, <2>3, FoundArea, Zenon DEF Suits
  <2>. QED
    BY <1>2, <1>3, <2>3, <2>4, Zenon DEF Suits
<1>5. a % PG_SZ = a - fps /\ fps <= a /\ a < fps + PG_SZ
  BY Floor, Zenon
<1>6. fps + PG_SZ <= fpe
  BY <1>1, AlignedSum, Zenon
<1>7. /\ a - fps \in 0..(PG_SZ - 1) /\ off + (a - fps) = seg.offset + (a - v)
      /\ a < v + seg.filesz
      /\ seg.offset + (a - v) \in seg.offset..(seg.offset + seg.filesz - 1)
  <2>1. a < v + seg.filesz /\ v <= a
    BY <1>1, <1>5, <1>6
  <2>2. a - fps \in 0..(PG_SZ - 1)
    BY <1>1, <1>5
  <2>3. off + (a - fps) = seg.offset + (a - v)
    BY <1>1
  <2>4. seg.offset + (a - v) \in seg.offset..(seg.offset + seg.filesz - 1)
    BY <1>1, <2>1
  <2>. QED
    BY <2>1, <2>2, <2>3, <2>4, Zenon
<1>8. seg.offset + (a - v) \in DOMAIN File
  BY <1>7, Zenon DEF WellFormed
<1>9. BytesOf(off)[a - fps] = File[off + (a - fps)]
  <2>1. off + (a - fps) \in DOMAIN File
    BY <1>7, <1>8, Zenon
  <2> HIDE DEF off
  <2>. QED
    BY <1>7, <2>1, Zenon DEF BytesOf
<1>. QED
  BY <1>4, <1>5, <1>7, <1>9, Zenon DEF Expected

LEMMA PresentRight ==
  ASSUME NEW seg \in PHEntry, WellFormed(seg), Sound(Now), Mapped(seg, Now),
         NEW a, a \in Within(seg), floor_pg(a) \in DOMAIN present, floor_pg(a) \notin LaterFilePages,
         floor_pg(a) < BssStart(seg)
  PROVE  present[floor_pg(a)].v[a % PG_SZ] = Expected(seg, a)
<1> DEFINE v == seg.vaddr
           p == floor_pg(a)
           fps == full_pg_start(seg)
           fpe == full_pg_end(seg)
<1>0. Now.present = present /\ Now.vmas = vmas
  BY DEF Now
<1>1. /\ v \in Nat /\ fps \in Nat /\ fpe \in Nat /\ PG_SZ \in Nat /\ PG_SZ > 0
      /\ floor_pg(v) \in Nat /\ filesz_ceil(seg) \in Nat
      /\ Aligned(fps) /\ Aligned(fpe) /\ Aligned(floor_pg(v))
      /\ Aligned(v) => fps = v /\ floor_pg(v) = v
      /\ ~Aligned(v) => fps = floor_pg(v) + PG_SZ
      /\ filesz_ceil(seg) = fpe \/ filesz_ceil(seg) = fpe + PG_SZ
      /\ fpe < fps => filesz_ceil(seg) = fps
  BY SegmentIs, Bounds, PageSize, Zenon DEF Aligned
<1>2. a \in Nat /\ v <= a
  BY WithinIs, Zenon
<1>3. Aligned(p) /\ p \in Nat /\ floor_pg(v) <= p
  BY <1>1, <1>2, Floor, FloorMono, Zenon DEF Aligned
<1>4. p < filesz_ceil(seg)
  BY Zenon DEF BssStart
<1> HIDE DEF p
<1>5. p = floor_pg(a)
  BY DEF p
<1>6. CASE ~Aligned(v) /\ p = floor_pg(v)
  BY <1>0, <1>5, <1>6, Zenon DEF Mapped, PageRight
<1>7. CASE ~(~Aligned(v) /\ p = floor_pg(v))
  <2>1. fps <= p
    <3>1. floor_pg(v) < p => floor_pg(v) + PG_SZ <= p
      BY <1>1, <1>3, AlignedSum, Zenon
    <3>. QED
      BY <1>1, <1>3, <1>7, <3>1
  <2>2. CASE p < fpe
    <3>1. Among(vmas, FileArea(seg))
      <4>1. fpe > fps
        BY <1>1, <1>3, <2>1, <2>2
      <4>. QED
        BY <1>0, <4>1, Zenon DEF Mapped
    <3>2. p = fps
      <4>1. SUFFICES ASSUME p > fps PROVE FALSE
        BY <1>1, <1>3, <2>1
      <4>2. FileArea(seg).addr = fps /\ FileArea(seg).len = fpe - fps /\ FileArea(seg).file = TRUE
        BY DEF FileArea, Vma
      <4>3. p \in (FileArea(seg).addr + 1)..(FileArea(seg).addr + FileArea(seg).len - 1) /\ p % PG_SZ = 0
        <5>1. p % PG_SZ = 0
          BY <1>3, Zenon DEF Aligned
        <5>2. p \in (fps + 1)..(fps + (fpe - fps) - 1)
          BY <1>1, <1>3, <2>2, <4>1
        <5>. QED
          BY <4>2, <5>1, <5>2, Zenon
      <4>4. FileArea(seg) \in {vmas[k] : k \in {i \in DOMAIN vmas : vmas[i].file}}
        BY <3>1, <4>2, Zenon DEF Among
      <4>5. p \in LaterFilePages
        <5> DEFINE Later(x) == {q \in (x.addr + 1)..(x.addr + x.len - 1) : q % PG_SZ = 0}
                   FileAreas == {vmas[k] : k \in {i \in DOMAIN vmas : vmas[i].file}}
        <5>1. LaterFilePages = UNION {Later(x) : x \in FileAreas}
          BY DEF LaterFilePages
        <5>2. p \in Later(FileArea(seg)) /\ FileArea(seg) \in FileAreas
          BY <4>3, <4>4, Zenon
        <5> HIDE DEF Later, FileAreas
        <5>. QED
          BY <5>1, <5>2, Zenon
      <4>. QED
        BY <1>5, <4>5, Zenon
    <3>3. fpe > fps
      BY <1>1, <2>2, <3>2
    <3>. QED
      BY <1>0, <1>2, <1>5, <3>1, <3>2, <3>3, FilePageRight, Zenon
  <2>3. CASE ~(p < fpe)
    <3>1. p = fpe /\ fpe >= fps /\ filesz_ceil(seg) > fpe
      <4>1. fpe < p => fpe + PG_SZ <= p
        BY <1>1, <1>3, AlignedSum, Zenon
      <4>. QED
        BY <1>1, <1>3, <1>4, <2>1, <2>3, <4>1
    <3>2. IsThird(seg)
      BY <3>1, Zenon DEF IsThird
    <3>. QED
      BY <1>0, <1>5, <3>1, <3>2, Zenon DEF Mapped, PageRight
  <2>. QED
    BY <2>2, <2>3, Zenon
<1>. QED
  BY <1>6, <1>7, Zenon

LEMMA InvIsExact == ProcessInv => ProgramMemoryExact
<1> SUFFICES ASSUME ProcessInv PROVE ProgramMemoryExact
  OBVIOUS
<1>1. /\ elf \in Image /\ Sound(Now) /\ WritesAllowed
      /\ loader = "failed" => res = "NonExecutable" \/ ~Loadable
      /\ loader = "run" => ph = Len(elf)
      /\ loader = "run" /\ Loadable => /\ \A i \in Loaded(ph) : Mapped(elf[i], Now)
                                       /\ \A a \in Nat : Covers(vmas, a) <=> ShouldCover(a)
  BY Zenon DEF ProcessInv
<1>2. vmas \in Seq(Area) /\ Sorted(vmas)
  BY <1>1 DEF Sound, Now
<1>3. VmasSorted
  BY <1>2, Zenon DEF VmasSorted, Sorted
<1>4. \A i \in DOMAIN elf : elf[i] \in PHEntry
  BY <1>1, ProcessAssumption, SeqIs, Zenon
<1>5. Loadable => \A i \in DOMAIN elf : elf[i].load => WellFormed(elf[i])
  BY Zenon DEF Loadable, Segments
<1>6. loader = "run" => \A i : i \in Loaded(ph) <=> i \in DOMAIN elf /\ elf[i].load
  <2>1. DOMAIN elf = 1..Len(elf)
    BY <1>1, ProcessAssumption, SeqIs, Zenon
  <2>. QED
    BY <1>1, <2>1, Zenon DEF Loaded
<1>7. ASSUME loader = "run", Loadable, NEW a \in 0..(stack_top - stack_size - 1)
      PROVE  Hit(vmas, a) # {} <=> \E s \in Segments : floor_pg(a) \in PagesOf(s)
  <2>1. a \in Nat /\ ~InStack(a)
    BY StackIs DEF InStack
  <2>2. Hit(vmas, a) # {} <=> Covers(vmas, a)
    <3>1. \A k \in DOMAIN vmas : vmas[k].addr \in Nat
      BY <1>2, SeqIs, AreaIs, Zenon
    <3>2. \A k \in DOMAIN vmas : k \in Hit(vmas, a) <=> Spans(vmas[k], a)
      BY <2>1, <3>1 DEF Hit, Spans
    <3>3. Hit(vmas, a) \subseteq DOMAIN vmas
      BY DEF Hit
    <3>. QED
      BY <3>2, <3>3, Zenon DEF Covers
  <2>3. Covers(vmas, a) <=> \E i \in DOMAIN elf : elf[i].load /\ InPages(elf[i], a)
    BY <1>1, <1>6, <1>7, <2>1, Zenon DEF ShouldCover
  <2>4. \A i \in DOMAIN elf : elf[i].load => (floor_pg(a) \in PagesOf(elf[i]) <=> InPages(elf[i], a))
    BY <1>4, <1>5, <1>7, <2>1, PagesInterval, Zenon DEF WellFormed
  <2>. QED
    BY <2>2, <2>3, <2>4, Zenon DEF Segments
<1>8. SegmentsCovered
  BY <1>1, <1>7, Zenon DEF SegmentsCovered
<1>9. ImageExact
  <2>1. SUFFICES ASSUME loader = "run", Loadable, NEW s \in Segments, NEW a \in 0..(stack_top - 1),
                        a \in Within(s), floor_pg(a) \in DOMAIN present \ LaterFilePages,
                        floor_pg(a) < BssStart(s)
                 PROVE  present[floor_pg(a)].v[a % PG_SZ] = Expected(s, a)
    BY Zenon DEF ImageExact, ShownRight
  <2>2. PICK i \in DOMAIN elf : elf[i].load /\ s = elf[i]
    BY <2>1, Zenon DEF Segments
  <2>3. s \in PHEntry /\ WellFormed(s) /\ Mapped(s, Now)
    BY <1>1, <1>4, <1>5, <1>6, <2>1, <2>2, Zenon
  <2>. QED
    BY <1>1, <2>1, <2>3, PresentRight, Zenon
<1>. QED
  BY <1>1, <1>3, <1>8, <1>9, Zenon DEF ProgramMemoryExact

\* ProcessInv is inductive: the parts of the loader and the page faults keep it.
THEOREM ProcessInvariant == ProcessSpec => []ProcessInv
<1>1. ProcessInv /\ [ProcessNext]_processVars => ProcessInv'
  <2> SUFFICES ASSUME ProcessInv, [ProcessNext]_processVars PROVE ProcessInv'
    OBVIOUS
  <2>1. CASE UNCHANGED processVars
    <3>1. /\ loader' = loader /\ ph' = ph /\ elf' = elf /\ vmas' = vmas /\ res' = res
          /\ present' = present /\ access' = access
      BY <2>1, Zenon DEF processVars
    <3>2. (Loadable' <=> Loadable) /\ Loaded(ph)' = Loaded(ph)
      BY <3>1, SameImage, Zenon
    <3>3. Now' = Now /\ (WritesAllowed' <=> WritesAllowed)
      BY <3>1, Zenon DEF Now, WritesAllowed
    <3>4. \A a \in Nat : ShouldCover(a)' <=> ShouldCover(a)
      BY <3>1, <3>2, Zenon DEF ShouldCover
    <3>. QED
      BY <3>1, <3>2, <3>3, <3>4, Zenon DEF ProcessInv
  <2>2. CASE \E valid \in Valid : parse_executable(valid)
    BY <2>2, ParseKeeps, Zenon
  <2>3. CASE map_elf_segments
    BY <2>3, SegmentKeeps, Zenon
  <2>4. CASE MapStack
    BY <2>4, StackKeeps, Zenon
  <2>5. CASE \E a \in 0..stack_top, w \in BOOLEAN : isr_pf(a, w)
    BY <2>5, PageFaultKeeps, Zenon
  <2>. QED
    BY <2>1, <2>2, <2>3, <2>4, <2>5, Zenon DEF ProcessNext
<1>. QED
  BY <1>1, InitialMemory, PTL DEF ProcessSpec

\* The memory of a program is what its image says (Process::Process(), mmap() and
\* isr_pf()), for every page size, every place of the stack, every file and every
\* image: the areas are sorted and disjoint, segments that can be loaded are, cover
\* their pages and no other; the first page of each file mapping and the pages the
\* loader copies show the bytes of the file and zeros behind them; writes are served
\* in writable areas only.  Nothing is claimed of the later pages of a file mapping,
\* nor of the anonymous pages of .bss, which hold what the heap's page held.
THEOREM ProgramMemory == ProcessSpec => []ProgramMemoryExact
BY ProcessInvariant, InvIsExact, PTL

=============================================================================
