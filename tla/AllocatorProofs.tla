-------------------------- MODULE AllocatorProofs ---------------------------
(***************************************************************************)
(* Proofs about the two allocators.                                        *)
(*                                                                         *)
(* Kmalloc with one caller at a time, as while the kernel boots, for any   *)
(* page size, any set of frames and any sizes of objects.  What has to be  *)
(* found out is which bytes belong to nobody yet: from the arena to the    *)
(* end of its page between calls, and during a call from the object being  *)
(* cut off to the end of its last page.                                    *)
(*                                                                         *)
(* SimplePFA for any size of memory, any set of unusable frames, any       *)
(* request sizes and any history of calls.                                 *)
(***************************************************************************)
EXTENDS SimplePFA, Kmalloc, FiniteSetTheorems, TLAPS

\* The constants as the kernel has them; boot is the one caller.
HeapConstants(boot) ==
  /\ Caller = {boot} /\ PG_SZ \in Nat \ {0}
  /\ PageFrame \subseteq Nat /\ Size \subseteq Nat /\ NoFrame \notin Nat

Ceil(n) == PG_SZ * ((n + PG_SZ - 1) \div PG_SZ)

\* The bytes from a up to e are the heap's, and no object has them.
Unused(a, e) ==
  \A b \in Nat : a <= b /\ b < e => /\ FrameOf(b) \in heap_allocated
                                    /\ \A x \in objects : b \notin Bytes(x)

\* Between calls, and until the arena is replaced.
Resting == arena # nullptr => (arena % PG_SZ # 0 /\ Unused(arena, Ceil(arena)))

\* The frames just taken for an object of size s.
Fetched(f, s) == f \in PageFrame /\ Unused(Addr(f), Addr(f + Pages(s)))

\* An object of size s can be cut off at a.
Ready(a, s) == /\ a \in Nat \ {0} /\ Unused(a, Ceil(a + s))
               /\ s = PG_SZ => a % PG_SZ = 0

HeapInv(boot) ==
  /\ heap_usable \subseteq PageFrame /\ heap_allocated \subseteq heap_usable
  /\ arena \in Nat /\ obj \in [Caller -> Nat] /\ sz \in [Caller -> Size \cup {0}]
  /\ heap_pc \in [Caller -> {"idle", "check", "alloc", "store", "test", "take", "advance", "align"}]
  /\ page_frame \in [Caller -> PageFrame \cup {NoFrame}]
  /\ heap_request = IF heap_pc[boot] = "alloc" THEN Pages(sz[boot]) ELSE NoFrame
  /\ \A x \in objects : /\ x.addr \in Nat \ {0} /\ x.size \in Nat
                        /\ x.size = PG_SZ => x.addr % PG_SZ = 0
                        /\ \A b \in Bytes(x) : FrameOf(b) \in heap_allocated
  /\ ObjectsDisjoint
  /\ heap_pc[boot] \in {"idle", "check", "alloc"} => Resting
  /\ heap_pc[boot] = "store" /\ page_frame[boot] # NoFrame => Fetched(page_frame[boot], sz[boot])
  /\ heap_pc[boot] = "test" /\ arena # nullptr => Ready(arena, sz[boot])
  /\ heap_pc[boot] = "take" => Ready(arena, sz[boot])
  /\ heap_pc[boot] \in {"advance", "align"} => Ready(obj[boot], sz[boot])
  /\ heap_pc[boot] = "advance" => arena = obj[boot]
  /\ heap_pc[boot] = "align" => arena = obj[boot] + sz[boot]
-----------------------------------------------------------------------------
(* division *)

\* Multiplication by a page size keeps the order.
LEMMA MulMono ==
  ASSUME NEW p \in Nat, NEW x \in Nat, NEW y \in Nat, x <= y
  PROVE  x * p <= y * p
<1>1. PICK d \in Nat : y = x + d
  OBVIOUS
<1>2. y * p = x * p + d * p
  BY <1>1
<1>. QED
  BY <1>2

\* A quotient is known by its remainder.
LEMMA Quotient ==
  ASSUME NEW p \in Nat \ {0}, NEW q \in Nat, NEW r \in Nat, r < p
  PROVE  (q * p + r) \div p = q /\ (q * p + r) % p = r
<1>. DEFINE d == (q * p + r) \div p
            m == (q * p + r) % p
<1>1. d \in Nat /\ m \in Nat /\ m < p /\ q * p + r = d * p + m
  BY SMT
<1>2. ~(d < q)
  <2>1. SUFFICES ASSUME d + 1 <= q PROVE FALSE
    BY <1>1
  <2>2. (d + 1) * p <= q * p
    BY <1>1, <2>1, MulMono
  <2>. QED
    BY <1>1, <2>2
<1>3. ~(q < d)
  <2>1. SUFFICES ASSUME q + 1 <= d PROVE FALSE
    BY <1>1
  <2>2. (q + 1) * p <= d * p
    BY <1>1, <2>1, MulMono
  <2>. QED
    BY <1>1, <2>2
<1>. QED
  BY <1>1, <1>2, <1>3

-----------------------------------------------------------------------------
(* pages *)

\* Ceil() is the next multiple of the page size.
LEMMA CeilAbove ==
  ASSUME PG_SZ \in Nat \ {0}, NEW n \in Nat
  PROVE  Ceil(n) \in Nat /\ n <= Ceil(n)
<1>. DEFINE m == n + PG_SZ - 1
<1>1. m \in Nat /\ m \div PG_SZ \in Nat /\ m % PG_SZ < PG_SZ
      /\ m = PG_SZ * (m \div PG_SZ) + (m % PG_SZ) /\ m % PG_SZ \in Nat
  BY SMT
<1>. QED
  BY <1>1 DEF Ceil

\* What fits in the rest of a page does not reach past its end.
LEMMA FitsInPage ==
  ASSUME PG_SZ \in Nat \ {0}, NEW a \in Nat, NEW s \in Nat,
         a % PG_SZ # 0, (a % PG_SZ) + s <= PG_SZ
  PROVE  Ceil(a + s) <= Ceil(a)
<1>. DEFINE q == a \div PG_SZ
            r == a % PG_SZ
            n == a + s + PG_SZ - 1
<1>1. q \in Nat /\ r \in Nat /\ 0 < r /\ r < PG_SZ /\ a = q * PG_SZ + r
  BY SMT
<1>2. (q + 1) * PG_SZ = q * PG_SZ + PG_SZ /\ (q + 2) * PG_SZ = q * PG_SZ + 2 * PG_SZ
  BY <1>1
<1>3. a + PG_SZ - 1 = (q + 1) * PG_SZ + (r - 1)
  BY <1>1, <1>2
<1>4. (a + PG_SZ - 1) \div PG_SZ = q + 1
  <2>1. q + 1 \in Nat /\ r - 1 \in Nat /\ r - 1 < PG_SZ
    BY <1>1
  <2>2. ((q + 1) * PG_SZ + (r - 1)) \div PG_SZ = q + 1
    BY <2>1, Quotient, Zenon
  <2>. QED
    BY <1>3, <2>2, Zenon
<1>5. n \in Nat /\ n < (q + 2) * PG_SZ
  BY <1>1, <1>2
<1>6. n \div PG_SZ \in Nat /\ n % PG_SZ \in Nat /\ n = (n \div PG_SZ) * PG_SZ + (n % PG_SZ)
  BY <1>5, SMT
<1>7. n \div PG_SZ <= q + 1
  <2>1. SUFFICES ASSUME q + 2 <= n \div PG_SZ PROVE FALSE
    BY <1>1, <1>6
  <2>2. (q + 2) * PG_SZ <= (n \div PG_SZ) * PG_SZ
    BY <1>1, <1>6, <2>1, MulMono
  <2>. QED
    BY <1>5, <1>6, <2>2
<1>8. (n \div PG_SZ) * PG_SZ <= (q + 1) * PG_SZ
  BY <1>1, <1>6, <1>7, MulMono
<1>. QED
  BY <1>1, <1>4, <1>6, <1>8 DEF Ceil

\* An object at the start of a run of frames ends in the last one it needs.
LEMMA FrameCeil ==
  ASSUME PG_SZ \in Nat \ {0}, NEW f \in Nat, NEW s \in Nat
  PROVE  /\ Pages(s) \in Nat /\ Addr(f) \in Nat \ {0} /\ Addr(f) % PG_SZ = 0
         /\ Ceil(Addr(f) + s) = Addr(f + Pages(s))
<1>. DEFINE m == s + PG_SZ - 1
            q == m \div PG_SZ
<1>1. q \in Nat /\ m \in Nat /\ m % PG_SZ \in Nat /\ m % PG_SZ < PG_SZ /\ m = q * PG_SZ + (m % PG_SZ)
  BY SMT
<1>2. (f + 1) * PG_SZ \in Nat /\ (f + 1 + q) * PG_SZ = (f + 1) * PG_SZ + q * PG_SZ
  BY <1>1
<1>3. PG_SZ <= (f + 1) * PG_SZ
  <2>1. 1 * PG_SZ <= (f + 1) * PG_SZ
    BY MulMono
  <2>. QED
    BY <2>1
<1>4. ((f + 1) * PG_SZ + 0) % PG_SZ = 0
  BY Quotient
<1>5. (f + 1) * PG_SZ + s + PG_SZ - 1 = (f + 1 + q) * PG_SZ + (m % PG_SZ)
  BY <1>1, <1>2
<1>6. ((f + 1) * PG_SZ + s + PG_SZ - 1) \div PG_SZ = f + 1 + q
  <2>1. f + 1 + q \in Nat
    BY <1>1
  <2>2. ((f + 1 + q) * PG_SZ + (m % PG_SZ)) \div PG_SZ = f + 1 + q
    BY <1>1, <2>1, Quotient, ZenonT(30)
  <2>. QED
    BY <1>5, <2>2, Zenon
<1>7. PG_SZ * (f + 1 + q) = (f + q + 1) * PG_SZ
  BY <1>1
<1>. QED
  BY <1>1, <1>2, <1>3, <1>4, <1>6, <1>7 DEF Ceil, Addr, Pages

\* A byte between two frame addresses is in one of the frames between them.
LEMMA FrameBetween ==
  ASSUME PG_SZ \in Nat \ {0}, NEW f \in Nat, NEW n \in Nat, NEW b \in Nat,
         Addr(f) <= b, b < Addr(f + n)
  PROVE  FrameOf(b) \in f..(f + n - 1)
<1>. DEFINE q == b \div PG_SZ
            r == b % PG_SZ
<1>1. q \in Nat /\ r \in Nat /\ r < PG_SZ /\ b = q * PG_SZ + r
  BY SMT
<1>2. f + 1 <= q
  <2>1. SUFFICES ASSUME q + 1 <= f + 1 PROVE FALSE
    BY <1>1
  <2>2. (q + 1) * PG_SZ <= (f + 1) * PG_SZ
    BY <1>1, <2>1, MulMono
  <2>3. (q + 1) * PG_SZ = q * PG_SZ + PG_SZ
    BY <1>1
  <2>. QED
    BY <1>1, <2>2, <2>3 DEF Addr
<1>3. q <= f + n
  <2>1. SUFFICES ASSUME f + n + 1 <= q PROVE FALSE
    BY <1>1
  <2>2. (f + n + 1) * PG_SZ <= q * PG_SZ
    BY <1>1, <2>1, MulMono
  <2>. QED
    BY <1>1, <2>2 DEF Addr
<1>. QED
  BY <1>1, <1>2, <1>3 DEF FrameOf

-----------------------------------------------------------------------------
(* the invariant *)

LEMMA HeapInitial ==
  ASSUME NEW boot, HeapConstants(boot), HeapInit
  PROVE  HeapInv(boot)
BY Zenon DEF HeapConstants, HeapInit, Allocator!Init, HeapInv, ObjectsDisjoint, Resting, nullptr

\* A piece of an unused range is unused.
LEMMA UnusedPart ==
  ASSUME NEW a \in Nat, NEW b \in Nat, NEW d \in Nat, NEW e \in Nat,
         a <= b, d <= e, Unused(a, e)
  PROVE  Unused(b, d)
BY DEF Unused

\* Steps that take no frame and make no object: where the caller is, and what is
\* ready for it, is all that changes.
LEMMA HeapFrame ==
  ASSUME NEW boot, HeapConstants(boot), HeapInv(boot),
         UNCHANGED <<heap_usable, heap_allocated, objects>>
  PROVE  /\ (heap_usable \subseteq PageFrame /\ heap_allocated \subseteq heap_usable)'
         /\ \A x \in objects' : /\ x.addr \in Nat \ {0} /\ x.size \in Nat
                                /\ x.size = PG_SZ => x.addr % PG_SZ = 0
                                /\ \A b \in Bytes(x) : FrameOf(b) \in heap_allocated'
         /\ ObjectsDisjoint'
         /\ \A a, e : Unused(a, e) => Unused(a, e)'
<1>1. \A a, e : Unused(a, e) => Unused(a, e)'
  BY Zenon DEF Unused
<1>2. ObjectsDisjoint'
  BY Zenon DEF HeapInv, ObjectsDisjoint
<1>. QED
  BY <1>1, <1>2, Zenon DEF HeapInv

LEMMA HeapTypes ==
  ASSUME NEW boot, HeapConstants(boot), HeapInv(boot)
  PROVE  /\ arena \in Nat /\ sz[boot] \in Nat /\ obj[boot] \in Nat
         /\ page_frame[boot] # NoFrame => page_frame[boot] \in Nat
<1>1. boot \in Caller /\ sz[boot] \in Size \cup {0} /\ obj[boot] \in Nat
      /\ page_frame[boot] \in PageFrame \cup {NoFrame} /\ arena \in Nat
  BY Zenon DEF HeapConstants, HeapInv
<1>2. (\A n \in Size : n \in Nat) /\ (\A n \in PageFrame : n \in Nat) /\ 0 \in Nat
  BY Zenon DEF HeapConstants
<1>. QED
  BY <1>1, <1>2, Zenon

LEMMA HeapCall ==
  ASSUME NEW boot, HeapConstants(boot), HeapInv(boot), NEW s \in Size, kmalloc(boot, s)
  PROVE  HeapInv(boot)'
<1>. USE DEF HeapConstants
<1>1. UNCHANGED <<heap_usable, heap_allocated, objects, heap_request, arena, page_frame, obj>> /\ heap_pc[boot] = "idle"
      /\ heap_pc' = [heap_pc EXCEPT ![boot] = IF pfa THEN "check" ELSE "idle"] /\ sz' = [sz EXCEPT ![boot] = s]
  BY Zenon DEF kmalloc, Goto, allocatorVars
<1>2. heap_pc'[boot] \in {"check", "idle"}
  BY <1>1, Zenon DEF HeapInv
<1>3. Resting'
  BY <1>1, HeapFrame, Zenon DEF HeapInv, Resting, nullptr
<1>. QED
  BY <1>1, <1>2, <1>3, HeapFrame, Zenon DEF HeapInv

LEMMA HeapCheck ==
  ASSUME NEW boot, HeapConstants(boot), HeapInv(boot), Check(boot)
  PROVE  HeapInv(boot)'
<1>. USE DEF HeapConstants
<1>1. UNCHANGED <<heap_usable, heap_allocated, objects, arena, page_frame, obj, sz>> /\ heap_pc[boot] = "check"
  BY Zenon DEF Check, Allocator!Call, allocatorVars
<1>2. Resting' /\ Resting
  BY <1>1, HeapFrame, Zenon DEF HeapInv, Resting, nullptr
<1>3. CASE NeedsPages(sz[boot])
  <2>1. heap_request' = Pages(sz[boot]) /\ heap_pc' = [heap_pc EXCEPT ![boot] = "alloc"]
    BY <1>3, Zenon DEF Check, Allocator!Call, Goto
  <2>. QED
    BY <1>1, <1>2, <2>1, HeapFrame, Zenon DEF HeapInv
<1>4. CASE ~NeedsPages(sz[boot])
  <2>1. heap_request' = heap_request /\ heap_pc' = [heap_pc EXCEPT ![boot] = "test"]
    BY <1>4, Zenon DEF Check, allocatorVars, Goto
  <2>2. arena \in Nat /\ sz[boot] \in Nat
    BY HeapTypes, Zenon
  <2>3. arena # 0 /\ arena % PG_SZ # 0 /\ (arena % PG_SZ) + sz[boot] <= PG_SZ
        /\ Unused(arena, Ceil(arena))
    BY <1>2, <1>4, <2>2 DEF NeedsPages, Resting, nullptr
  <2>4. Ceil(arena + sz[boot]) <= Ceil(arena)
    BY <2>2, <2>3, FitsInPage, Zenon
  <2>5. Ceil(arena) \in Nat /\ Ceil(arena + sz[boot]) \in Nat
    BY <2>2, CeilAbove
  <2>6. Unused(arena, Ceil(arena + sz[boot]))
    BY <2>2, <2>3, <2>4, <2>5, UnusedPart
  <2>7. sz[boot] # PG_SZ
    BY <2>2, <2>3
  <2>8. Ready(arena, sz[boot])'
    BY <1>1, <2>2, <2>3, <2>6, <2>7, HeapFrame, Zenon DEF Ready
  <2>. QED
    BY <1>1, <2>1, <2>8, HeapFrame, Zenon DEF HeapInv
<1>. QED
  BY <1>3, <1>4, Zenon

LEMMA HeapAlloc ==
  ASSUME NEW boot, HeapConstants(boot), HeapInv(boot), AllocPages(boot)
  PROVE  HeapInv(boot)'
<1>. USE DEF HeapConstants
<1>1. UNCHANGED <<heap_usable, objects, arena, obj, sz>> /\ heap_pc[boot] = "alloc"
      /\ heap_pc' = [heap_pc EXCEPT ![boot] = "store"] /\ page_frame' = [page_frame EXCEPT ![boot] = heap_result']
  BY Zenon DEF AllocPages, Allocator!AllocOk, Allocator!AllocFails, Goto
<1>2. heap_request = Pages(sz[boot]) /\ sz[boot] \in Nat
  BY <1>1, HeapTypes, Zenon DEF HeapInv
<1>3. CASE Allocator!AllocFails
  <2>1. heap_allocated' = heap_allocated /\ heap_result' = NoFrame /\ heap_request' = NoFrame
    BY <1>3, Zenon DEF Allocator!AllocFails
  <2>. QED
    BY <1>1, <2>1, HeapFrame, Zenon DEF HeapInv
<1>4. ASSUME NEW f \in PageFrame, Allocator!AllocOk(f) PROVE HeapInv(boot)'
  <2>1. heap_result' = f /\ heap_request' = NoFrame /\ heap_allocated' = heap_allocated \cup (f..(f + Pages(sz[boot]) - 1))
        /\ (f..(f + Pages(sz[boot]) - 1)) \cap heap_allocated = {}
        /\ (f..(f + Pages(sz[boot]) - 1)) \subseteq heap_usable
    BY <1>2, <1>4, Zenon DEF Allocator!AllocOk, Allocator!Fits, Allocator!Run
  <2>2. f \in Nat /\ Pages(sz[boot]) \in Nat
    BY <1>2, FrameCeil, Zenon
  <2>3. \A x \in objects : \A b \in Bytes(x) : FrameOf(b) \in heap_allocated
    BY Zenon DEF HeapInv
  <2>4. Fetched(f, sz[boot])'
    <3>1. SUFFICES ASSUME NEW b \in Nat, Addr(f) <= b, b < Addr(f + Pages(sz[boot]))
                   PROVE  FrameOf(b) \in heap_allocated' /\ \A x \in objects : b \notin Bytes(x)
      BY <1>1, Zenon DEF Fetched, Unused
    <3>2. FrameOf(b) \in f..(f + Pages(sz[boot]) - 1)
      BY <2>2, <3>1, FrameBetween, Zenon
    <3>. QED
      BY <2>1, <2>3, <3>2, Zenon
  <2>5. (heap_usable \subseteq PageFrame /\ heap_allocated \subseteq heap_usable)'
    BY <1>1, <2>1, Zenon DEF HeapInv
  <2>6. \A x \in objects' : /\ x.addr \in Nat \ {0} /\ x.size \in Nat
                            /\ x.size = PG_SZ => x.addr % PG_SZ = 0
                            /\ \A b \in Bytes(x) : FrameOf(b) \in heap_allocated'
    BY <1>1, <2>1, Zenon DEF HeapInv
  <2>7. ObjectsDisjoint'
    BY <1>1, Zenon DEF HeapInv, ObjectsDisjoint
  <2>. QED
    BY <1>1, <2>1, <2>4, <2>5, <2>6, <2>7, Zenon DEF HeapInv
<1>. QED
  BY <1>3, <1>4, Zenon DEF AllocPages

LEMMA HeapStore ==
  ASSUME NEW boot, HeapConstants(boot), HeapInv(boot), StoreArena(boot)
  PROVE  HeapInv(boot)'
<1>. USE DEF HeapConstants
<1>1. UNCHANGED <<heap_usable, heap_allocated, heap_request, objects, obj, sz, page_frame>> /\ heap_pc[boot] = "store"
      /\ heap_pc' = [heap_pc EXCEPT ![boot] = "test"]
      /\ arena' = IF page_frame[boot] = NoFrame THEN nullptr ELSE Addr(page_frame[boot])
  BY Zenon DEF StoreArena, Goto, allocatorVars
<1>2. CASE page_frame[boot] = NoFrame
  <2>1. arena' = nullptr /\ arena' \in Nat
    BY <1>1, <1>2, Zenon DEF nullptr
  <2>. QED
    BY <1>1, <2>1, HeapFrame, Zenon DEF HeapInv
<1>3. CASE page_frame[boot] # NoFrame
  <2>. PICK f, s : f = page_frame[boot] /\ s = sz[boot]
    BY Zenon
  <2>1. f \in Nat /\ s \in Nat /\ Unused(Addr(f), Addr(f + Pages(s)))
    BY <1>1, <1>3, HeapTypes, Zenon DEF HeapInv, Fetched
  <2>2. Addr(f) \in Nat \ {0} /\ Addr(f) % PG_SZ = 0 /\ Ceil(Addr(f) + s) = Addr(f + Pages(s))
    BY <2>1, FrameCeil, Zenon
  <2>3. arena' = Addr(f) /\ sz'[boot] = s
    BY <1>1, <1>3, Zenon
  <2>4. Unused(Addr(f), Ceil(Addr(f) + s))'
    BY <1>1, <2>1, <2>2, HeapFrame, Zenon
  <2>5. Ready(arena, sz[boot])' /\ arena' \in Nat
    BY <2>2, <2>3, <2>4, Zenon DEF Ready, Unused
  <2>. QED
    BY <1>1, <2>5, HeapFrame, Zenon DEF HeapInv
<1>. QED
  BY <1>2, <1>3, Zenon

\* Test(), Take() and Advance() move the object along.
LEMMA HeapCut ==
  ASSUME NEW boot, HeapConstants(boot), HeapInv(boot), Test(boot) \/ Take(boot) \/ Advance(boot)
  PROVE  HeapInv(boot)'
<1>. USE DEF HeapConstants
<1>1. UNCHANGED <<heap_usable, heap_allocated, heap_request, objects, sz, page_frame>>
  BY Zenon DEF Test, Take, Advance, allocatorVars
<1>2. arena \in Nat /\ sz[boot] \in Nat /\ obj[boot] \in Nat
  BY HeapTypes, Zenon
<1>4. CASE Test(boot) /\ Oom
  <2>1. arena' = nullptr /\ obj' = obj /\ arena' = arena /\ heap_pc[boot] = "test" /\ heap_pc' = [heap_pc EXCEPT ![boot] = "idle"]
    BY <1>4, Zenon DEF Test, Goto, Oom
  <2>2. Resting'
    BY <2>1, Zenon DEF Resting
  <2>. QED
    BY <1>1, <2>1, <2>2, HeapFrame, Zenon DEF HeapInv
<1>5. CASE Test(boot) /\ ~Oom
  <2>1. arena # nullptr /\ obj' = obj /\ arena' = arena /\ heap_pc[boot] = "test" /\ heap_pc' = [heap_pc EXCEPT ![boot] = "take"]
    BY <1>5, Zenon DEF Test, Goto, Oom
  <2>2. Ready(arena, sz[boot])
    BY <2>1, Zenon DEF HeapInv
  <2>3. Ready(arena, sz[boot])'
    BY <1>1, <2>1, <2>2, Zenon DEF Ready, Unused
  <2>. QED
    BY <1>1, <2>1, <2>3, HeapFrame, Zenon DEF HeapInv
<1>6. CASE Take(boot)
  <2>1. obj' = [obj EXCEPT ![boot] = arena] /\ arena' = arena /\ heap_pc[boot] = "take"
        /\ heap_pc' = [heap_pc EXCEPT ![boot] = "advance"]
    BY <1>6, Zenon DEF Take, Goto
  <2>2. Ready(arena, sz[boot])
    BY <2>1, Zenon DEF HeapInv
  <2>3. obj'[boot] = arena /\ obj' \in [Caller -> Nat] /\ sz'[boot] = sz[boot]
    BY <1>1, <1>2, <2>1, Zenon DEF HeapInv
  <2>4. Ready(obj[boot], sz[boot])'
    BY <1>1, <2>2, <2>3, Zenon DEF Ready, Unused
  <2>. QED
    BY <1>1, <2>1, <2>3, <2>4, HeapFrame, Zenon DEF HeapInv
<1>7. CASE Advance(boot)
  <2>1. obj' = obj /\ arena' = arena + sz[boot] /\ heap_pc[boot] = "advance" /\ heap_pc' = [heap_pc EXCEPT ![boot] = "align"]
    BY <1>7, Zenon DEF Advance, Goto
  <2>2. Ready(obj[boot], sz[boot]) /\ arena = obj[boot]
    BY <2>1, Zenon DEF HeapInv
  <2>3. Ready(obj[boot], sz[boot])'
    BY <1>1, <2>1, <2>2, Zenon DEF Ready, Unused
  <2>4. arena' \in Nat /\ arena' = obj'[boot] + sz'[boot]
    BY <1>1, <1>2, <2>1, <2>2
  <2>. QED
    BY <1>1, <2>1, <2>3, <2>4, HeapFrame, Zenon DEF HeapInv
<1>. QED
  BY <1>4, <1>5, <1>6, <1>7, Zenon

\* The object is returned: its bytes were unused, and the rest of its last page
\* stays unused.
LEMMA HeapAlign ==
  ASSUME NEW boot, HeapConstants(boot), HeapInv(boot), Align(boot)
  PROVE  HeapInv(boot)'
<1>. USE DEF HeapConstants
<1>. PICK a, s, o : a = obj[boot] /\ s = sz[boot]
                    /\ o = [id |-> Cardinality(objects), addr |-> a, size |-> s]
  BY Zenon
<1>1. UNCHANGED <<heap_usable, heap_allocated, heap_request, obj, sz, page_frame>> /\ heap_pc[boot] = "align"
      /\ heap_pc' = [heap_pc EXCEPT ![boot] = "idle"] /\ arena' = Dropped /\ objects' = objects \cup {o}
  BY Zenon DEF Align, Goto, allocatorVars
<1>2. a \in Nat /\ s \in Nat
  BY HeapTypes, Zenon
<1>3. Ready(a, s) /\ arena = a + s
  BY <1>1, Zenon DEF HeapInv
<1>4. Ceil(a + s) \in Nat /\ a + s <= Ceil(a + s)
  BY <1>2, CeilAbove
<1>5. o.addr = a /\ o.size = s /\ Bytes(o) = a..(a + s - 1)
  BY Zenon DEF Bytes
<1>6. ASSUME NEW b \in Bytes(o) PROVE FrameOf(b) \in heap_allocated /\ \A x \in objects : b \notin Bytes(x)
  <2>1. b \in Nat /\ a <= b /\ b < Ceil(a + s)
    BY <1>2, <1>4, <1>5, <1>6, SMTT(30)
  <2>. QED
    BY <1>3, <2>1, Zenon DEF Ready, Unused
<1>7. \A x \in objects' : /\ x.addr \in Nat \ {0} /\ x.size \in Nat
                          /\ x.size = PG_SZ => x.addr % PG_SZ = 0
                          /\ \A b \in Bytes(x) : FrameOf(b) \in heap_allocated'
  <2>1. \A x \in objects : /\ x.addr \in Nat \ {0} /\ x.size \in Nat
                           /\ x.size = PG_SZ => x.addr % PG_SZ = 0
                           /\ \A b \in Bytes(x) : FrameOf(b) \in heap_allocated'
    BY <1>1, Zenon DEF HeapInv
  <2>2. /\ o.addr \in Nat \ {0} /\ o.size \in Nat
        /\ o.size = PG_SZ => o.addr % PG_SZ = 0
    BY <1>2, <1>3, <1>5, Zenon DEF Ready
  <2>3. \A b \in Bytes(o) : FrameOf(b) \in heap_allocated'
    BY <1>1, <1>6, Zenon
  <2>. QED
    BY <1>1, <2>1, <2>2, <2>3, Zenon
<1>8. ObjectsDisjoint'
  <2>1. SUFFICES ASSUME NEW x \in objects \cup {o}, NEW y \in objects \cup {o}, x.id # y.id
                 PROVE  Bytes(x) \cap Bytes(y) = {}
    BY <1>1 DEF ObjectsDisjoint
  <2>2. CASE x \in objects /\ y \in objects
    BY <2>1, <2>2, Zenon DEF HeapInv, ObjectsDisjoint
  <2>3. CASE x = o /\ y \in objects
    BY <1>6, <2>3, Zenon
  <2>4. CASE x \in objects /\ y = o
    BY <1>6, <2>4, Zenon
  <2>. QED
    BY <2>1, <2>2, <2>3, <2>4, ZenonT(30)
<1>9. Resting'
  <2>1. CASE (a + s) % PG_SZ = 0
    BY <1>1, <1>3, <2>1, Zenon DEF Dropped, Resting
  <2>2. CASE (a + s) % PG_SZ # 0
    <3>1. arena' = a + s
      BY <1>1, <1>3, <2>2, Zenon DEF Dropped
    <3>2. ASSUME NEW b \in Nat, a + s <= b, b < Ceil(a + s)
          PROVE  FrameOf(b) \in heap_allocated' /\ \A x \in objects' : b \notin Bytes(x)
      <4>1. a <= b
        BY <1>2, <3>2
      <4>2. FrameOf(b) \in heap_allocated /\ \A x \in objects : b \notin Bytes(x)
        BY <1>3, <3>2, <4>1, Zenon DEF Ready, Unused
      <4>3. b \notin Bytes(o)
        BY <1>2, <1>5, <3>2, SMTT(30)
      <4>. QED
        BY <1>1, <4>2, <4>3, Zenon
    <3>. QED
      BY <2>2, <3>1, <3>2, Zenon DEF Resting, Unused, Ceil
  <2>. QED
    BY <2>1, <2>2, Zenon
<1>10. arena' \in Nat
  BY <1>1, <1>2, <1>3 DEF Dropped, nullptr
<1>11. (heap_usable \subseteq PageFrame /\ heap_allocated \subseteq heap_usable)'
  BY <1>1, Zenon DEF HeapInv
<1>. QED
  BY <1>1, <1>7, <1>8, <1>9, <1>10, <1>11, Zenon DEF HeapInv

LEMMA HeapStutter ==
  ASSUME NEW boot, HeapConstants(boot), HeapInv(boot), set_pfa \/ UNCHANGED heapVars
  PROVE  HeapInv(boot)'
<1>1. UNCHANGED <<heap_usable, heap_allocated, heap_request, arena, heap_pc, sz, page_frame, obj, objects>>
  BY Zenon DEF set_pfa, heapVars, allocatorVars
<1>2. Resting' = Resting /\ Fetched(page_frame[boot], sz[boot])' = Fetched(page_frame[boot], sz[boot])
      /\ Ready(arena, sz[boot])' = Ready(arena, sz[boot])
      /\ Ready(obj[boot], sz[boot])' = Ready(obj[boot], sz[boot])
  BY <1>1, Zenon DEF Resting, Fetched, Ready, Unused
<1>. QED
  BY <1>1, <1>2, HeapFrame, Zenon DEF HeapInv

LEMMA HeapStep ==
  ASSUME NEW boot, HeapConstants(boot), HeapInv(boot), [HeapNext]_heapVars
  PROVE  HeapInv(boot)'
<1>1. CASE set_pfa \/ UNCHANGED heapVars
  BY <1>1, HeapStutter, Zenon
<1>2. ASSUME NEW c \in Caller,
             \/ \E s \in Size : kmalloc(c, s)
             \/ Check(c) \/ AllocPages(c) \/ StoreArena(c) \/ Test(c)
             \/ Take(c) \/ Advance(c) \/ Align(c)
      PROVE  HeapInv(boot)'
  <2>1. c = boot
    BY <1>2, Zenon DEF HeapConstants
  <2>. QED
    BY <1>2, <2>1, HeapCall, HeapCheck, HeapAlloc, HeapStore, HeapCut, HeapAlign, Zenon
<1>. QED
  BY <1>1, <1>2, Zenon DEF HeapNext

LEMMA HeapAlways ==
  ASSUME NEW CONSTANT boot, HeapConstants(boot)
  PROVE  HeapSpec => []HeapInv(boot)
BY HeapInitial, HeapStep, PTL DEF HeapSpec

-----------------------------------------------------------------------------
(* the theorems *)

\* operator new hands out disjoint memory while one thread at a time calls it,
\* as during the boot: whatever the page size, the sizes asked for, the memory
\* there is and the calls that find none left.
THEOREM HeapDisjoint ==
  ASSUME NEW CONSTANT boot, HeapConstants(boot)
  PROVE  HeapSpec => []ObjectsDisjoint
<1>1. HeapInv(boot) => ObjectsDisjoint
  BY Zenon DEF HeapInv
<1>. QED
  BY <1>1, HeapAlways, PTL

\* Under the same conditions no object runs past the frames that kmalloc() took
\* for it from the page frame allocator.
THEOREM HeapBacked ==
  ASSUME NEW CONSTANT boot, HeapConstants(boot)
  PROVE  HeapSpec => []ObjectsBacked
<1>1. HeapInv(boot) => ObjectsBacked
  BY Zenon DEF HeapInv, ObjectsBacked
<1>. QED
  BY <1>1, HeapAlways, PTL

\* Under the same conditions a page-sized object is a page: what vmalloc() and
\* the page cache rely on.
THEOREM HeapPageAligned ==
  ASSUME NEW CONSTANT boot, HeapConstants(boot)
  PROVE  HeapSpec => []PageAligned
<1>1. HeapInv(boot) => PageAligned
  BY Zenon DEF HeapInv, PageAligned
<1>. QED
  BY <1>1, HeapAlways, PTL

\* Under the same conditions the heap is sound: the three together.
THEOREM HeapIsSound ==
  ASSUME NEW CONSTANT boot, HeapConstants(boot)
  PROVE  HeapSpec => []HeapSound
<1>1. HeapInv(boot) => HeapSound
  BY Zenon DEF HeapInv, HeapSound, ObjectsBacked, PageAligned
<1>. QED
  BY <1>1, HeapAlways, PTL

\* Under the same conditions the arena and the callers' variables keep their
\* types, the heap's frames are usable ones, and no object returned is null.
THEOREM HeapTyped ==
  ASSUME NEW CONSTANT boot, HeapConstants(boot)
  PROVE  HeapSpec => []HeapTypeOK
<1>1. HeapInv(boot) => HeapTypeOK
  BY Zenon DEF HeapInv, HeapTypeOK, nullptr
<1>. QED
  BY <1>1, HeapAlways, PTL
-----------------------------------------------------------------------------
(* SimplePFA *)

USE PFAAssumption

LEMMA InitPFAInv == Init => PFAInv
<1> SUFFICES ASSUME NEW l \in Layout,
                    start = l.start, end = l.end, allocated = {}, alloced_pgs = 0,
                    needle = l.start, pc = "idle", num_pg = 0, steps = 0,
                    first = l.start, result = None, last = NoOp
             PROVE  PFAInv
  BY Zenon DEF Init
<1>1. TypeOK
  BY DEF TypeOK, Range0
<1>2. ScanInv /\ LastInv
  BY Zenon DEF ScanInv, LastInv, NoOp
<1> QED BY <1>1, <1>2, Zenon DEF PFAInv

-----------------------------------------------------------------------------
\* Entering alloc(): nothing has been tried yet.
LEMMA EnterStep == PFAInv /\ Enter => PFAInv'
<1> SUFFICES ASSUME PFAInv, Enter PROVE PFAInv'
  BY Zenon
<1> USE DEF PFAInv, Enter, layoutVars
<1>1. TypeOK'
  BY Zenon DEF TypeOK, Return, Range0
<1>2. ScanInv'
  BY DEF TypeOK, ScanInv, Dist, FitsAt, Range0, Run, len, Return
<1>3. LastInv'
  BY DEF TypeOK, LastInv, NoOp, Run, Usable, len, Return
<1> QED BY <1>1, <1>2, <1>3, Zenon

\* What a failed try_alloc() rules out: no run begins between the old needle
\* and the new one, d frames further on.
LEMMA FailedTry ==
  ASSUME PFAInv, pc \in {"try", "skip"}, NEW d \in Nat,
         steps' = steps + d, needle + d <= end,
         \A b \in needle..(needle + d - 1) : ~FitsAt(b),
         steps' < len => needle' = IF needle + d = end THEN start ELSE needle + d,
         UNCHANGED <<layoutVars, allocated, num_pg, first>>
  PROVE  /\ steps' < len => Dist(needle)' = steps'
         /\ \A b \in Range0 : Dist(b)' < steps' => ~FitsAt(b)'
<1> USE DEF PFAInv, layoutVars
<1>1. /\ start \in Nat /\ end \in Nat /\ start < end /\ steps \in Nat
      /\ needle \in start..(end - 1) /\ first \in start..(end - 1)
  BY Zenon DEF TypeOK, Range0
<1>2. /\ Dist(needle)' = IF needle' >= first THEN needle' - first
                         ELSE needle' - first + (end - start)
      /\ len' = end - start /\ len = end - start
  BY Zenon DEF Dist, len
<1>3. steps < len => Dist(needle) = steps
  BY Zenon DEF ScanInv
<1>4. steps' < len => Dist(needle)' = steps'
  BY <1>1, <1>2, <1>3, SMTT(30) DEF Dist
<1>5. ASSUME NEW b \in Range0, Dist(b)' < steps'
      PROVE  ~FitsAt(b)'
  <2>1. Dist(b)' = Dist(b) /\ (FitsAt(b)' <=> FitsAt(b))
    BY Zenon DEF Dist, FitsAt, len, Range0
  <2>2. CASE Dist(b) < steps
    BY <2>1, <2>2, Zenon DEF ScanInv
  <2>3. CASE Dist(b) >= steps
    <3>1. b \in start..(end - 1)
      BY Zenon DEF Range0
    <3>2. Dist(b) < len /\ steps < len
      BY <1>1, <1>2, <2>3, <3>1, SMTT(30) DEF Dist
    <3>3. b \in needle..(needle + d - 1)
      BY <1>1, <1>2, <1>3, <1>5, <2>1, <2>3, <3>1, <3>2, SMTT(30) DEF Dist
    <3> QED BY <2>1, <3>3, Zenon
  <2>4. Dist(b) \in Int
    BY <1>1 DEF Dist, len, Range0
  <2> QED BY <1>1, <2>2, <2>3, <2>4
<1> QED BY <1>4, <1>5, Zenon

\* Both ways try_alloc() fails advance the scan by some d.
LEMMA TryWrapFails ==
  ASSUME PFAInv, TryWrap
  PROVE  /\ num_pg > 0
         /\ steps' < len => Dist(needle)' = steps'
         /\ \A b \in Range0 : Dist(b)' < steps' => ~FitsAt(b)'
<1> DEFINE d == end - needle
<1>1. num_pg > 0 /\ \A b \in needle..(end - 1) : ~FitsAt(b)
  BY DEF PFAInv, TryWrap, TypeOK, FitsAt, Run, Range0
<1>2. /\ d \in Nat /\ needle + d = end
      /\ needle + d <= end /\ needle + d - 1 = end - 1
      /\ needle' = IF needle + d = end THEN start ELSE needle + d
      /\ steps' = steps + d
  BY DEF PFAInv, TryWrap, TypeOK, Range0
<1>3. \A b \in needle..(needle + d - 1) : ~FitsAt(b)
  BY <1>1, <1>2, Zenon
<1>4. pc \in {"try", "skip"} /\ UNCHANGED <<layoutVars, allocated, num_pg, first>>
  BY Zenon DEF TryWrap
<1> HIDE DEF d
<1> QED BY <1>1, <1>2, <1>3, <1>4, FailedTry, Zenon

LEMMA TryBusyFails ==
  ASSUME PFAInv, NEW it \in Frame, TryBusy(it)
  PROVE  /\ num_pg > 0 /\ it \in Range0
         /\ steps' < len => Dist(needle)' = steps'
         /\ \A b \in Range0 : Dist(b)' < steps' => ~FitsAt(b)'
<1> DEFINE d == it - needle
<1>0. it \in Range0 /\ it \in needle..(needle + num_pg - 1) /\ num_pg > 0
  BY DEF PFAInv, TryBusy, TypeOK, Run, Range0
<1>1. \A b \in needle..(it - 1) : ~FitsAt(b)
  BY <1>0 DEF PFAInv, TryBusy, TypeOK, FitsAt, Run, Range0, Usable
<1>2. /\ d \in Nat /\ needle + d = it
      /\ needle + d <= end /\ needle + d - 1 = it - 1
      /\ needle' = IF needle + d = end THEN start ELSE needle + d
      /\ steps' = steps + d
  BY <1>0 DEF PFAInv, TryBusy, TypeOK, Range0
<1>3. \A b \in needle..(needle + d - 1) : ~FitsAt(b)
  BY <1>1, <1>2, Zenon
<1>4. pc \in {"try", "skip"} /\ UNCHANGED <<layoutVars, allocated, num_pg, first>>
  BY Zenon DEF TryBusy
<1> HIDE DEF d
<1> QED BY <1>0, <1>2, <1>3, <1>4, FailedTry, Zenon

LEMMA TryWrapStep == PFAInv /\ TryWrap => PFAInv'
<1> SUFFICES ASSUME PFAInv, TryWrap PROVE PFAInv'
  OBVIOUS
<1>0. /\ num_pg > 0
      /\ steps' < len => Dist(needle)' = steps'
      /\ \A b \in Range0 : Dist(b)' < steps' => ~FitsAt(b)'
  BY TryWrapFails, Zenon
<1> USE DEF PFAInv, TryWrap, layoutVars
<1>1. TypeOK'
  BY DEF TypeOK, OuterTest, Return, Range0
<1>2. ScanInv'
  BY <1>0, Zenon DEF ScanInv, OuterTest, Return, Range0, len
<1>3. LastInv'
  BY DEF TypeOK, LastInv, NoOp, Run, Usable, len, OuterTest, Return, Range0
<1> QED BY <1>1, <1>2, <1>3, Zenon

LEMMA TryBusyStep == ASSUME PFAInv, NEW it \in Frame, TryBusy(it) PROVE PFAInv'
<1>0. /\ num_pg > 0 /\ it \in Range0
      /\ steps' < len => Dist(needle)' = steps'
      /\ \A b \in Range0 : Dist(b)' < steps' => ~FitsAt(b)'
  BY TryBusyFails, Zenon
<1> USE DEF PFAInv, TryBusy, layoutVars
<1>1. TypeOK'
  BY <1>0 DEF TypeOK, OuterTest, Return, Run, Range0
<1>2. ScanInv'
  BY <1>0, ZenonT(30) DEF ScanInv, OuterTest, Return, Range0, len
<1>3. LastInv'
  <2>1. last.op = "free" => num_pg > last.n
    BY <1>0 DEF TypeOK, LastInv, Run
  <2> QED BY <2>1, SMTT(30) DEF TypeOK, LastInv, NoOp, OuterTest, Return, len
<1> QED BY <1>1, <1>2, <1>3, Zenon

LEMMA SkipStep == PFAInv /\ Skip => PFAInv'
<1> SUFFICES ASSUME PFAInv, Skip PROVE PFAInv'
  OBVIOUS
<1> USE DEF PFAInv, Skip, layoutVars
<1>0. num_pg > 0 /\ steps < len /\ pc = "skip"
  BY Zenon DEF ScanInv
<1>1. TypeOK'
  BY DEF TypeOK, StepOne, Wrapped, Range0
<1>2. ScanInv'
  <2>1. CASE Usable(needle)
    BY <1>0, <2>1, Zenon DEF ScanInv, Dist, FitsAt, Run, Range0, len
  <2>2. CASE ~Usable(needle)
    <3>1. ~FitsAt(needle)
      BY <1>0, <2>2, SMTT(30) DEF TypeOK, FitsAt, Run, Usable, Range0
    <3>2. needle \in Int /\ needle + 1 <= end
      BY DEF TypeOK, Range0
    <3>3. \A b \in needle..(needle + 1 - 1) : ~FitsAt(b)
      BY <3>1, <3>2
    <3>4. steps' < len => needle' = IF needle + 1 = end THEN start ELSE needle + 1
      BY <2>2, <3>2 DEF TypeOK, Wrapped, StepOne
    <3>5. steps' = steps + 1 /\ 1 \in Nat
      BY <2>2, Zenon DEF StepOne
    <3>6. /\ steps' < len => Dist(needle)' = steps'
          /\ \A b \in Range0 : Dist(b)' < steps' => ~FitsAt(b)'
      BY <1>0, <3>2, <3>3, <3>4, <3>5, FailedTry, Zenon
    <3> QED BY <1>0, <2>2, <3>6, Zenon DEF ScanInv, Range0, len
  <2> QED BY <2>1, <2>2, Zenon
<1>3. LastInv'
  <2>1. last.op = "free" => num_pg > last.n
    BY <1>0 DEF TypeOK, LastInv
  <2> QED BY <1>0, <2>1, Zenon DEF TypeOK, LastInv, len
<1> QED BY <1>1, <1>2, <1>3, Zenon

\* try_alloc() cannot succeed once every position has been tried.
LEMMA TryOkFits == PFAInv /\ TryOk => FitsAt(needle) /\ steps < len
<1> SUFFICES ASSUME PFAInv, TryOk PROVE FitsAt(needle) /\ steps < len
  BY Zenon
<1>1. FitsAt(needle) /\ needle \in Range0
  BY DEF PFAInv, TypeOK, TryOk, FitsAt, Run, Usable, Range0
<1>2. Dist(needle) < len
  BY DEF PFAInv, TypeOK, Dist, len, Range0
<1>3. ~(Dist(needle) < steps)
  BY <1>1, Zenon DEF PFAInv, ScanInv, TryOk
<1>4. Dist(needle) \in Int /\ steps \in Int /\ len \in Int
  BY DEF PFAInv, TypeOK, Dist, len, Range0
<1>5. pc = "try"
  BY Zenon DEF TryOk
<1>6. steps < len => Dist(needle) = steps
  BY <1>5, Zenon DEF PFAInv, ScanInv
<1> QED BY <1>1, <1>2, <1>3, <1>4

LEMMA TryOkStep == PFAInv /\ TryOk => PFAInv'
<1> SUFFICES ASSUME PFAInv, TryOk PROVE PFAInv'
  OBVIOUS
<1>0. FitsAt(needle) /\ steps < len /\ num_pg <= len
  BY TryOkFits, Zenon DEF PFAInv, ScanInv, TryOk
<1> USE DEF PFAInv, TryOk, layoutVars
<1>1. TypeOK'
  <2>1. needle \in Frame /\ allocated' = allocated \cup Run(needle, num_pg)
    BY <1>0 DEF TypeOK, Range0, len
  <2>2. Run(needle, num_pg) \subseteq Range0
    BY <1>0, Zenon DEF FitsAt
  <2>3. /\ pc' = "idle" /\ result' = needle /\ needle' = needle
        /\ alloced_pgs' = alloced_pgs + num_pg
        /\ UNCHANGED <<start, end, num_pg, steps, first>>
    BY <1>0 DEF TypeOK, Return, Rest, len
  <2> HIDE DEF TryOk
  <2>4. Range0' = Range0 /\ allocated' \subseteq Range0
    BY <2>1, <2>2, <2>3, Zenon DEF TypeOK, Range0
  <2>5. alloced_pgs' \in Int
    BY <2>3 DEF TypeOK
  <2> QED BY <2>1, <2>3, <2>4, <2>5, Zenon DEF TypeOK
<1>2. ScanInv'
  BY Zenon DEF ScanInv, Return
<1>3. LastInv'
  BY <1>0 DEF TypeOK, LastInv, NoOp, Return, Rest, Range0, len
<1>4. (allocated \cap unusable = {})'
  BY <1>0, Zenon DEF TypeOK, len, FitsAt
<1> QED BY <1>1, <1>2, <1>3, <1>4, Zenon

LEMMA CallStep == ASSUME PFAInv, NEW n \in Request, Call(n) PROVE PFAInv'
<1> USE DEF PFAInv, Call, layoutVars
<1>1. TypeOK'
  BY Zenon DEF TypeOK, Range0
<1>2. ScanInv' /\ LastInv'
  BY Zenon DEF TypeOK, ScanInv, LastInv, Run, Usable, len
<1> QED BY <1>1, <1>2, Zenon

LEMMA FreeStep ==
  ASSUME PFAInv, NEW b \in Frame, NEW n \in Request, Free(b, n)
  PROVE  PFAInv'
<1> USE DEF PFAInv, Free, layoutVars, scanVars
<1>1. TypeOK'
  BY DEF TypeOK, Range0, Uncount
<1>2. ScanInv'
  BY Zenon DEF ScanInv
<1>3. LastInv'
  <2>1. CASE last = [op |-> "alloc", base |-> b, n |-> n]
    BY <2>1, Zenon DEF TypeOK, LastInv, Run, Usable, len, Range0
  <2>2. CASE last # [op |-> "alloc", base |-> b, n |-> n]
    BY <2>2, Zenon DEF TypeOK, LastInv, NoOp
  <2> QED BY <2>1, <2>2, Zenon
<1> QED BY <1>1, <1>2, <1>3, Zenon

LEMMA NextPFAInv == PFAInv /\ [Next]_vars => PFAInv'
<1> SUFFICES ASSUME PFAInv, [Next]_vars PROVE PFAInv'
  BY Zenon
<1>1. CASE UNCHANGED vars
  BY <1>1, Zenon
    DEF vars, layoutVars, scanVars, PFAInv, TypeOK, ScanInv, LastInv, Dist, FitsAt,
     Run, Usable, Range0, len
<1> QED BY <1>1, EnterStep, TryWrapStep, TryBusyStep, TryOkStep, SkipStep, CallStep,
           FreeStep, Zenon DEF Next, Scan

\* In every state of alloc()'s scan no position already passed would fit, and the
\* needle stands where steps says (page_frame_allocator.cc:61-94).
THEOREM PFAInvariant == Spec => []PFAInv
BY InitPFAInv, NextPFAInv, PTL DEF Spec

\* The scan never leaves [start, end), and only frames of that range are
\* ever handed out.
THEOREM PFATypes == Spec => []TypeOK
<1>1. PFAInv => TypeOK
  BY Zenon DEF PFAInv
<1> QED BY <1>1, PFAInvariant, PTL

\* Alloc-free-alloc returns the same base, whatever happened before.
THEOREM ReuseTheorem == Spec => ReuseAfterFree
<1>1. PFAInv /\ [Next]_vars
        => [last.op = "free" /\ pc # "idle" /\ pc' = "idle" /\ num_pg <= last.n
              => result' = last.base]_vars
  <2> SUFFICES ASSUME PFAInv, Next, last.op = "free", pc # "idle", pc' = "idle",
                      num_pg <= last.n
               PROVE  result' = last.base
    BY Zenon DEF vars
  <2>1. /\ needle = last.base /\ last.base + last.n <= end /\ last.n <= len
        /\ pc \in {"enter", "try"} /\ (pc = "try" => steps = 0)
        /\ \A p \in Run(last.base, last.n) : Usable(p)
        /\ last.n \in Nat /\ last.base \in Nat
    BY Zenon DEF PFAInv, LastInv
  <2>2. /\ num_pg \in Nat /\ needle \in Nat /\ end \in Nat /\ start \in Nat
        /\ start < end
    BY Zenon DEF PFAInv, TypeOK, Range0
  <2>3. ~TryWrap
    BY <2>1, <2>2, SMTT(30) DEF TryWrap
  <2>4. ASSUME NEW it \in Frame PROVE ~TryBusy(it)
    BY <2>1, <2>2 DEF TryBusy, Run
  <2>5. ~Enter
    BY <2>1, <2>2 DEF Enter, len
  <2>6. ~Skip
    BY <2>1, Zenon DEF Skip
  <2>7. TryOk
    BY <2>3, <2>4, <2>5, <2>6, Zenon DEF Next, Scan, Call, Free, scanVars
  <2> QED BY <2>1, <2>2, <2>7 DEF TryOk, Return, len
<1> QED BY <1>1, PFAInvariant, PTL DEF Spec, ReuseAfterFree

-----------------------------------------------------------------------------
\* When the scan gives up, no run of the size asked for exists.
LEMMA GaveUp ==
  ASSUME PFAInv, num_pg > 0, steps' \in Nat, steps' >= len,
         UNCHANGED <<start, end, unusable, allocated, num_pg, first>>,
         \A b \in Range0 : Dist(b)' < steps' => ~FitsAt(b)'
  PROVE  \A b \in Frame : ~PFA!Fits(b, num_pg)
<1> SUFFICES ASSUME NEW b \in Frame, FitsAt(b) PROVE FALSE
  BY Zenon DEF PFA!Fits, PFA!Run, FitsAt, Run
<1>1. b \in Range0
  BY DEF FitsAt, Run, PFAInv, TypeOK
<1>2. Dist(b)' < steps'
  BY <1>1 DEF Dist, PFAInv, TypeOK, Range0, len
<1>3. FitsAt(b)'
  BY Zenon DEF FitsAt, Range0, Run
<1> QED BY <1>1, <1>2, <1>3, Zenon

\* A step of the scan that returns nothing is a failing alloc().
LEMMA ReturnsNone ==
  ASSUME PFAInv, pc # "idle", pc' = "idle", result' = None,
         UNCHANGED <<start, end, unusable, allocated>>,
         \A b \in Frame : ~PFA!Fits(b, num_pg)
  PROVE  PFA!AllocFails
BY DEF PFA!AllocFails, PFAInv, TypeOK, Range0

LEMMA StepSimulation ==
  ASSUME PFAInv, [Next]_vars
  PROVE  [PFA!Next]_(PFA!vars)
<1> USE DEF layoutVars, scanVars
<1>1. CASE UNCHANGED vars
  BY <1>1, Zenon DEF vars, PFA!vars, Range0
<1>2. ASSUME NEW n \in Request, Call(n)
      PROVE  PFA!Call(n)
  BY <1>2, Zenon DEF Call, PFA!Call, Range0
<1>3. CASE Enter
  <2>1. CASE num_pg > len
    <3>1. \A b \in Frame : ~PFA!Fits(b, num_pg)
      <4> SUFFICES ASSUME NEW b \in Frame, PFA!Fits(b, num_pg) PROVE FALSE
        BY Zenon
      <4>1. b \in Range0 /\ b + num_pg - 1 \in Range0
        BY <2>1 DEF PFA!Fits, PFA!Run, PFAInv, TypeOK, len
      <4> QED BY <2>1, <4>1 DEF PFAInv, TypeOK, Range0, len
    <3> QED BY <1>3, <2>1, <3>1, ReturnsNone, Zenon DEF Enter, Return, PFA!Next
  <2>2. CASE ~(num_pg > len)
    BY <1>3, <2>2, Zenon DEF Enter, PFA!vars, Range0
  <2> QED BY <2>1, <2>2, Zenon
<1>4. CASE TryWrap
  <2>1. steps' \in Nat /\ steps \in Nat
    BY <1>4 DEF TryWrap, PFAInv, TypeOK, Range0
  <2>2. CASE steps' < len
    BY <1>4, <2>2, Zenon DEF TryWrap, OuterTest, PFA!vars, Range0
  <2>3. CASE steps' >= len
    <3>1. \A b \in Frame : ~PFA!Fits(b, num_pg)
      BY <1>4, <2>1, <2>3, TryWrapFails, GaveUp, Zenon DEF TryWrap
    <3> QED BY <1>4, <2>1, <2>3, <3>1, ReturnsNone, SMTT(30)
            DEF TryWrap, OuterTest, Return, PFA!Next, PFAInv, TypeOK, len
  <2> QED BY <2>1, <2>2, <2>3, SMTT(30) DEF PFAInv, TypeOK, len
<1>5. ASSUME NEW it \in Frame, TryBusy(it)
      PROVE  [PFA!Next]_(PFA!vars)
  <2>1. steps' \in Nat /\ steps \in Nat
    BY <1>5 DEF TryBusy, PFAInv, TypeOK, Run, Range0
  <2>2. CASE steps' < len
    BY <1>5, <2>2, Zenon DEF TryBusy, OuterTest, PFA!vars, Range0
  <2>3. CASE steps' >= len
    <3>1. \A b \in Frame : ~PFA!Fits(b, num_pg)
      BY <1>5, <2>1, <2>3, TryBusyFails, GaveUp, Zenon DEF TryBusy
    <3> QED BY <1>5, <2>1, <2>3, <3>1, ReturnsNone, SMTT(30)
            DEF TryBusy, OuterTest, Return, PFA!Next, PFAInv, TypeOK, len
  <2> QED BY <2>1, <2>2, <2>3, SMTT(30) DEF PFAInv, TypeOK, len
<1>6. CASE TryOk
  <2>1. FitsAt(needle) /\ steps < len
    BY <1>6, TryOkFits, Zenon
  <2>2. /\ pc = "try" /\ pc' = "idle" /\ result' = needle
        /\ allocated' = allocated \cup Run(needle, num_pg)
        /\ UNCHANGED <<start, end, unusable>>
    BY <1>6, <2>1, SMTT(30) DEF TryOk, Return, PFAInv, TypeOK, len
  <2>3. PFA!AllocOk(needle)
    BY <2>1, <2>2 DEF PFA!AllocOk, PFA!Fits, PFA!Run, FitsAt, Run, PFAInv, TypeOK, Range0
  <2> QED BY <2>3, Zenon DEF PFA!Next, PFAInv, TypeOK
<1>7. CASE Skip
  BY <1>7, Zenon DEF Skip, PFA!vars, Range0
<1>8. ASSUME NEW b \in Frame, NEW n \in Request, Free(b, n)
      PROVE  PFA!Free(b, n)
  BY <1>8, Zenon DEF Free, PFA!Free, PFA!Run, Run, Range0
<1> QED BY <1>1, <1>2, <1>3, <1>4, <1>5, <1>6, <1>7, <1>8, Zenon DEF Next, Scan, PFA!Next

\* SimplePFA implements the interface: it hands out free contiguous runs, and it
\* gives up only when there is none.
THEOREM SimplePFAImplements == Spec => PFASpec
<1>1. Init => PFA!Init
  <2> SUFFICES ASSUME NEW l \in Layout, start = l.start, end = l.end, allocated = {},
                      pc = "idle", result = None
               PROVE  PFA!Init
    BY Zenon DEF Init
  <2> QED BY Zenon DEF PFA!Init, Range0
<1>2. PFAInv /\ [Next]_vars => [PFA!Next]_(PFA!vars)
  BY StepSimulation, Zenon
<1> QED BY <1>1, <1>2, PFAInvariant, PTL DEF Spec, PFASpec, PFA!Spec

-----------------------------------------------------------------------------
\* The counters: alloced_pgs counts the allocated frames, total_pgs the usable.
CountInv ==
  /\ alloced_pgs = Cardinality(allocated)
  /\ total_pgs = Cardinality(Range0 \ unusable)

\* A run of n frames has n elements.
LEMMA RunSize ==
  ASSUME NEW b \in Nat, NEW n \in Nat
  PROVE  IsFiniteSet(Run(b, n)) /\ Cardinality(Run(b, n)) = n
<1>1. /\ IsFiniteSet(b..(b + n - 1))
      /\ Cardinality(b..(b + n - 1)) = IF b > b + n - 1 THEN 0 ELSE (b + n - 1) - b + 1
  BY FS_Interval
<1> QED BY <1>1 DEF Run

LEMMA FiniteRange == PFAInv => IsFiniteSet(Range0) /\ IsFiniteSet(allocated)
<1> SUFFICES ASSUME PFAInv PROVE IsFiniteSet(Range0) /\ IsFiniteSet(allocated)
  BY Zenon
<1>1. start \in Int /\ end - 1 \in Int
  BY DEF PFAInv, TypeOK
<1>2. IsFiniteSet(Range0)
  BY <1>1, FS_Interval, Zenon DEF Range0
<1> QED BY <1>2, FS_Subset, Zenon DEF PFAInv, TypeOK

LEMMA CountStep == PFAInv /\ CountInv /\ [Next]_vars => CountInv'
<1> SUFFICES ASSUME PFAInv, CountInv, [Next]_vars PROVE CountInv'
  BY Zenon
<1>1. CASE TryOk
  <2>1. FitsAt(needle) /\ steps < len
    BY <1>1, TryOkFits, Zenon
  <2>2. /\ allocated' = allocated \cup Run(needle, num_pg)
        /\ alloced_pgs' = alloced_pgs + num_pg
        /\ UNCHANGED <<start, end, unusable, total_pgs>>
    BY <1>1, <2>1 DEF TryOk, PFAInv, TypeOK, len, layoutVars
  <2>3. IsFiniteSet(Run(needle, num_pg)) /\ Cardinality(Run(needle, num_pg)) = num_pg
    BY RunSize, Zenon DEF PFAInv, TypeOK, Range0
  <2>4. allocated \cap Run(needle, num_pg) = {}
    BY <2>1, Zenon DEF FitsAt
  <2>5. Cardinality(allocated') = Cardinality(allocated) + num_pg - Cardinality({})
    BY <2>2, <2>3, <2>4, FiniteRange, FS_Union
  <2>6. Cardinality({}) = 0 /\ Cardinality(allocated) \in Nat /\ num_pg \in Nat
    BY FS_EmptySet, FiniteRange, FS_CardinalityType, Zenon DEF PFAInv, TypeOK
  <2> QED BY <2>2, <2>5, <2>6 DEF CountInv, Range0
<1>2. ASSUME NEW b \in Frame, NEW n \in Request, Free(b, n) PROVE CountInv'
  <2>1. /\ allocated' = allocated \ Run(b, n) /\ alloced_pgs' = alloced_pgs - n
        /\ Run(b, n) \subseteq allocated
        /\ UNCHANGED <<start, end, unusable, total_pgs>>
    BY <1>2, Zenon DEF Free, Uncount, layoutVars
  <2>2. Cardinality(Run(b, n)) = n
    BY RunSize, Zenon
  <2>3. allocated \cap Run(b, n) = Run(b, n)
    BY <2>1, Zenon
  <2>4. Cardinality(allocated') = Cardinality(allocated) - n
    <3>1. Cardinality(allocated \ Run(b, n))
            = Cardinality(allocated) - Cardinality(allocated \cap Run(b, n))
      BY FiniteRange, FS_Difference, Zenon
    <3> QED BY <2>1, <2>2, <2>3, <3>1, Zenon
  <2> QED BY <2>1, <2>4, Zenon DEF CountInv, Range0
<1>3. CASE UNCHANGED <<allocated, alloced_pgs, start, end, unusable, total_pgs>>
  BY <1>3, Zenon DEF CountInv, Range0
<1>4. ASSUME NEW n \in Request, Call(n)
      PROVE  UNCHANGED <<allocated, alloced_pgs, start, end, unusable, total_pgs>>
  BY <1>4, Zenon DEF Call, layoutVars
<1>5. ASSUME NEW it \in Frame, TryBusy(it)
      PROVE  UNCHANGED <<allocated, alloced_pgs, start, end, unusable, total_pgs>>
  BY <1>5, Zenon DEF TryBusy, layoutVars
<1>6. Enter \/ TryWrap \/ Skip \/ UNCHANGED vars
        => UNCHANGED <<allocated, alloced_pgs, start, end, unusable, total_pgs>>
  BY Zenon DEF Enter, TryWrap, Skip, layoutVars, vars
<1> QED BY <1>1, <1>2, <1>3, <1>4, <1>5, <1>6, Zenon DEF Next, Scan

\* get_free_pages() is exact for every history of calls, if the constructors
\* counted what they left unmarked.
THEOREM FreeCountTheorem == ASSUME CountsAgree PROVE Spec => []FreeCountExact
<1>1. Init => CountInv
  <2> SUFFICES ASSUME NEW l \in Layout, start = l.start, end = l.end, allocated = {},
                      alloced_pgs = 0, unusable = MarkUnusable(l),
                      total_pgs = CountTotal(l)
               PROVE  CountInv
    BY Zenon DEF Init
  <2> QED BY FS_EmptySet, Zenon DEF CountInv, Range0, CountsAgree
<1>2. PFAInv /\ CountInv => FreeCountExact
  <2> SUFFICES ASSUME PFAInv, CountInv PROVE FreeCountExact
    BY Zenon
  <2>1. {p \in Range0 : Usable(p)} = (Range0 \ unusable) \ allocated
    BY Zenon DEF Usable
  <2>2. (Range0 \ unusable) \cap allocated = allocated
    BY Zenon DEF PFAInv, TypeOK
  <2>3. IsFiniteSet(Range0 \ unusable)
    BY FiniteRange, FS_Difference, Zenon
  <2>4. Cardinality((Range0 \ unusable) \ allocated)
          = Cardinality(Range0 \ unusable) - Cardinality(allocated)
    BY <2>2, <2>3, FS_Difference, Zenon
  <2> QED BY <2>1, <2>4, Zenon DEF FreeCountExact, CountInv
<1>3. PFAInv /\ CountInv /\ [Next]_vars => CountInv'
  BY CountStep, Zenon
<1> QED BY <1>1, <1>2, <1>3, PFAInvariant, PTL DEF Spec
=============================================================================
