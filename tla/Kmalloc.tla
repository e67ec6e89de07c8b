------------------------------ MODULE Kmalloc -------------------------------
(***************************************************************************)
(* The kernel heap (mm/kmalloc.cc): kmalloc() cuts objects off the end of  *)
(* an arena and takes whole frames from the page frame allocator, here the *)
(* one specified by PageFrameAllocator.  kfree() does nothing.  kmalloc()  *)
(* holds no lock, so with more than one caller its accesses to arena, each *)
(* a step below (the default build is -O0), interleave.                    *)
(***************************************************************************)
EXTENDS Algorithm, FiniteSets

CONSTANTS PageFrame, NoFrame,
          Caller,     \* threads that call kmalloc()
          Size,       \* sizes they ask for, in bytes
          MaxObject   \* bound on the number of calls

VARIABLES heap_usable, heap_allocated, heap_request, heap_result,   \* its allocator
          pfa,        \* set_pfa() has been called
          arena,      \* the next free byte, or nullptr
          heap_pc, sz, page_frame, obj,   \* of each caller
          calls,      \* number of calls so far
          objects     \* history: the objects returned, [id, addr, size]

allocatorVars == <<heap_usable, heap_allocated, heap_request, heap_result>>
heapVars == <<allocatorVars, pfa, arena, heap_pc, sz, page_frame, obj, calls, objects>>

nullptr == 0

\* direct_to_hhdm(): frame 0 is mapped one page above nullptr.
Addr(frame) == (frame + 1) * PG_SZ
FrameOf(addr) == addr \div PG_SZ - 1

Pages(size) == (size + PG_SZ - 1) \div PG_SZ     \* ceil_pow2<PG_SZ>(sz) / PG_SZ

Allocator == INSTANCE PageFrameAllocator WITH
               Frame <- PageFrame, None <- NoFrame, Request <- {Pages(s) : s \in Size},
               usable <- heap_usable, allocated <- heap_allocated,
               request <- heap_request, result <- heap_result

HeapInit ==
  /\ Allocator!Init
  /\ pfa = FALSE /\ arena = nullptr
  /\ heap_pc = [c \in Caller |-> "idle"]
  /\ sz = [c \in Caller |-> 0] /\ page_frame = [c \in Caller |-> NoFrame]
  /\ obj = [c \in Caller |-> nullptr]
  /\ calls = 0 /\ objects = {}

Goto(c, l) == heap_pc' = [heap_pc EXCEPT ![c] = l]

set_pfa ==
  /\ ~pfa /\ pfa' = TRUE
  /\ UNCHANGED <<allocatorVars, arena, heap_pc, sz, page_frame, obj, calls, objects>>

\* kmalloc(s): nullptr without an allocator.
kmalloc(c, s) ==
  /\ heap_pc[c] = "idle" /\ calls < MaxObject /\ calls' = calls + 1
  /\ sz' = [sz EXCEPT ![c] = s]
  /\ Goto(c, IF pfa THEN "check" ELSE "idle")
  /\ UNCHANGED <<allocatorVars, pfa, arena, page_frame, obj, objects>>

\* Whether new pages are needed.  Faulty variants: the rest of the page is
\* taken to be one byte longer; only the size is looked at.
NeedsPages_OneOff(s) == arena = nullptr \/ (arena % PG_SZ) + s > PG_SZ + 1
NeedsPages_SizeOnly(s) == arena = nullptr \/ s > PG_SZ
NeedsPages(s) == arena = nullptr \/ (arena % PG_SZ) + s > PG_SZ

Check(c) ==
  /\ heap_pc[c] = "check"
  /\ IF NeedsPages(sz[c])
     THEN Allocator!Call(Pages(sz[c])) /\ Goto(c, "alloc")
     ELSE Goto(c, "test") /\ UNCHANGED allocatorVars
  /\ UNCHANGED <<pfa, arena, sz, page_frame, obj, calls, objects>>

AllocPages(c) ==
  /\ heap_pc[c] = "alloc" /\ Goto(c, "store")
  /\ (\E b \in PageFrame : Allocator!AllocOk(b)) \/ Allocator!AllocFails
  /\ page_frame' = [page_frame EXCEPT ![c] = heap_result']
  /\ UNCHANGED <<pfa, arena, sz, obj, calls, objects>>

StoreArena(c) ==
  /\ heap_pc[c] = "store" /\ Goto(c, "test")
  /\ arena' = IF page_frame[c] = NoFrame THEN nullptr ELSE Addr(page_frame[c])
  /\ UNCHANGED <<allocatorVars, pfa, sz, page_frame, obj, calls, objects>>

\* Out of memory?
Oom == arena = nullptr

Test(c) ==
  /\ heap_pc[c] = "test" /\ Goto(c, IF Oom THEN "idle" ELSE "take")
  /\ UNCHANGED <<allocatorVars, pfa, arena, sz, page_frame, obj, calls, objects>>

Take(c) ==
  /\ heap_pc[c] = "take" /\ Goto(c, "advance")
  /\ obj' = [obj EXCEPT ![c] = arena]
  /\ UNCHANGED <<allocatorVars, pfa, arena, sz, page_frame, calls, objects>>

Advance(c) ==
  /\ heap_pc[c] = "advance" /\ Goto(c, "align")
  /\ arena' = arena + sz[c]
  /\ UNCHANGED <<allocatorVars, pfa, sz, page_frame, obj, calls, objects>>

\* At the end of a page the arena is dropped.  Faulty variant: it is kept.
Dropped_Never == arena
Dropped == IF arena % PG_SZ = 0 THEN nullptr ELSE arena

Align(c) ==
  /\ heap_pc[c] = "align" /\ Goto(c, "idle")
  /\ arena' = Dropped
  /\ objects' = objects \cup
                  {[id |-> Cardinality(objects), addr |-> obj[c], size |-> sz[c]]}
  /\ UNCHANGED <<allocatorVars, pfa, sz, page_frame, obj, calls>>

HeapNext ==
  \/ set_pfa
  \/ \E c \in Caller :
       \/ \E s \in Size : kmalloc(c, s)
       \/ Check(c) \/ AllocPages(c) \/ StoreArena(c) \/ Test(c)
       \/ Take(c) \/ Advance(c) \/ Align(c)

HeapSpec == HeapInit /\ [][HeapNext]_heapVars

-----------------------------------------------------------------------------
Bytes(x) == x.addr..(x.addr + x.size - 1)

HeapTypeOK ==
  /\ heap_allocated \subseteq heap_usable /\ heap_usable \subseteq PageFrame
  /\ arena \in Nat /\ page_frame \in [Caller -> PageFrame \cup {NoFrame}]
  /\ obj \in [Caller -> Nat] /\ sz \in [Caller -> Size \cup {0}]
  /\ \A x \in objects : x.addr # nullptr

\* No two objects returned by operator new share a byte: what every user of the
\* heap relies on, across page ends, multi-page objects and failed calls.
ObjectsDisjoint ==
  \A x, y \in objects : x.id # y.id => Bytes(x) \cap Bytes(y) = {}

\* Every byte of an object is in a frame that the heap holds: an object never
\* runs past the end of the frames taken for it (kmalloc.cc:24, 32).
ObjectsBacked ==
  \A x \in objects : \A a \in Bytes(x) : FrameOf(a) \in heap_allocated

\* "The kernel heap implementation ensures that this is page-aligned"
\* (virt.cc:41): an object of PG_SZ bytes, which vmalloc() and the page cache
\* use as a frame, fills a frame exactly.
PageAligned == \A x \in objects : x.size = PG_SZ => x.addr % PG_SZ = 0

\* Objects of kmalloc() are disjoint, lie in frames the allocator gave to the heap,
\* and are page-aligned when they are as large as a page (kmalloc.cc).
HeapSound == ObjectsDisjoint /\ ObjectsBacked /\ PageAligned
=============================================================================
