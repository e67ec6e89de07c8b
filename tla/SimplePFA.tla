----------------------------- MODULE SimplePFA ------------------------------
(***************************************************************************)
(* SimplePFA (mm/page_frame_allocator.cc): a round-robin first-fit scan of *)
(* the page frame table.  Addresses are counted in pages.  alloc() is cut  *)
(* at the iterations of its two loops, which is where its correctness is   *)
(* decided: steps counts how far the needle has come since the call, and   *)
(* the scan must give up exactly when every position has been tried.       *)
(***************************************************************************)
EXTENDS Integers, Sequences, FiniteSets, FiniteSetsExt

CONSTANTS Frame,      \* indices of the page frame table
          Request,    \* sizes passed to alloc() and free()
          None,       \* std::nullopt
          Layout      \* [start, end, regions]: the constructor's arguments and
                      \* PageFrameTable::usable_regions, [base, len] each

ASSUME PFAAssumption ==
  /\ Frame \subseteq Nat /\ Request \subseteq Nat /\ None \notin Int
  /\ \A l \in Layout : /\ l.start \in Nat /\ l.end \in Nat /\ l.start < l.end
                       /\ l.start..(l.end - 1) \subseteq Frame

VARIABLES
  start, end,         \* the frames [start, end) this allocator is responsible for
  regions,            \* usable regions
  unusable,           \* frames whose descriptor has unusable set
  allocated,          \* frames whose descriptor has allocated set
  needle,             \* where the next scan begins
  total_pgs, alloced_pgs,
  pc, num_pg, steps,  \* alloc() in progress
  result,             \* what the last alloc() returned
  first,              \* history: the needle at the call
  last                \* history: the last completed operation

layoutVars == <<start, end, regions, unusable, total_pgs>>
scanVars == <<pc, num_pg, steps, needle, first>>
vars == <<layoutVars, allocated, alloced_pgs, scanVars, result, last>>

NoOp == [op |-> "none", base |-> 0, n |-> 0]
Range0 == start..(end - 1)
len == end - start
Run(b, n) == b..(b + n - 1)
Usable(p) == p \notin allocated /\ p \notin unusable

TypeOK ==
  /\ start \in Nat /\ end \in Nat /\ start < end /\ Range0 \subseteq Frame
  /\ allocated \subseteq Range0 /\ alloced_pgs \in Int
  /\ needle \in Range0 /\ first \in Range0
  /\ pc \in {"idle", "enter", "try", "skip"}
  /\ num_pg \in Nat /\ steps \in Nat
  /\ result \in Frame \cup {None}

Larger(a, b) == IF a > b THEN a ELSE b
Smaller(a, b) == IF a < b THEN a ELSE b

-----------------------------------------------------------------------------
\* Faulty variant: the scan does not step over the region.
PastRegion_Not(it, r) == it
PastRegion(it, r) == it + r.len

\* The constructors.  Regions that begin below start are skipped; the frames
\* between the others are marked; frames after the last region are not.
MarkUnusable(l) ==
  LET scan[k \in 0..Len(l.regions)] ==
        IF k = 0 THEN [it |-> l.start, marked |-> {}]
        ELSE LET s == scan[k - 1]
                 r == l.regions[k]
                 stop == Smaller(r.base, l.end)
             IN  IF s.it >= l.end \/ r.base < l.start THEN s
                 ELSE [it |-> IF stop = l.end THEN l.end
                              ELSE PastRegion(Larger(s.it, stop), r),
                       marked |-> s.marked \cup (s.it..(stop - 1))]
  IN  scan[Len(l.regions)].marked

CountTotal(l) ==
  MapThenSumSet(LAMBDA k : LET r == l.regions[k] IN
                  Larger(0, Smaller(r.base + r.len, l.end) - Larger(r.base, l.start)),
                DOMAIN l.regions)

Init ==
  \E l \in Layout :
    /\ start = l.start /\ end = l.end /\ regions = l.regions
    /\ unusable = MarkUnusable(l) /\ total_pgs = CountTotal(l)
    /\ allocated = {} /\ alloced_pgs = 0 /\ needle = l.start
    /\ pc = "idle" /\ num_pg = 0 /\ steps = 0 /\ first = l.start
    /\ result = None /\ last = NoOp

-----------------------------------------------------------------------------
\* alloc(n): the call, and the size check.
Call(n) ==
  /\ pc = "idle" /\ pc' = "enter" /\ num_pg' = n
  /\ UNCHANGED <<layoutVars, allocated, alloced_pgs, steps, needle, first, result, last>>

Return(r) == pc' = "idle" /\ result' = r

Enter ==
  /\ pc = "enter" /\ steps' = 0 /\ first' = needle
  /\ IF num_pg > len
     THEN Return(None) /\ last' = NoOp
     ELSE pc' = "try" /\ UNCHANGED <<result, last>>
  /\ UNCHANGED <<layoutVars, allocated, alloced_pgs, needle, num_pg>>

\* A failed try_alloc(), and the test of the outer loop that follows it.
\* Faulty variant: the scan stops one position early.
OuterTest_Early(s) ==
  IF s < len - 1 THEN pc' = "skip" /\ UNCHANGED <<result, last>>
  ELSE Return(None) /\ last' = NoOp
OuterTest(s) ==
  IF s < len THEN pc' = "skip" /\ UNCHANGED <<result, last>>
  ELSE Return(None) /\ last' = NoOp

\* The run would pass the end: wrap.
TryWrap ==
  /\ pc = "try" /\ needle + num_pg > end
  /\ steps' = steps + (end - needle) /\ needle' = start
  /\ OuterTest(steps')
  /\ UNCHANGED <<layoutVars, allocated, alloced_pgs, num_pg, first>>

\* it is the first frame of the run that is not usable.
TryBusy(it) ==
  /\ pc = "try" /\ needle + num_pg <= end
  /\ it \in Run(needle, num_pg) /\ ~Usable(it)
  /\ \A p \in needle..(it - 1) : Usable(p)
  /\ steps' = steps + (it - needle) /\ needle' = it
  /\ OuterTest(steps')
  /\ UNCHANGED <<layoutVars, allocated, alloced_pgs, num_pg, first>>

\* try_alloc() succeeds.  Faulty variant: the needle moves past the block.
Rest_Past == needle' = IF needle + num_pg < end THEN needle + num_pg ELSE start
Rest == UNCHANGED needle

TryOk ==
  /\ pc = "try" /\ needle + num_pg <= end
  /\ \A p \in Run(needle, num_pg) : Usable(p)
  /\ IF steps >= len
     THEN Return(None) /\ UNCHANGED <<allocated, alloced_pgs, needle>>
          /\ last' = NoOp
     ELSE Return(needle) /\ Rest
          /\ allocated' = allocated \cup Run(needle, num_pg)
          /\ alloced_pgs' = alloced_pgs + num_pg
          /\ last' = [op |-> "alloc", base |-> needle, n |-> num_pg]
  /\ UNCHANGED <<layoutVars, num_pg, steps, first>>

\* One test of the inner loop: find the next location to try.  Faulty variant:
\* the step is not counted.
StepOne_Not == steps
StepOne == steps + 1
Wrapped(p) == IF p + 1 >= end THEN start ELSE p + 1

Skip ==
  /\ pc = "skip"
  /\ IF Usable(needle)
     THEN pc' = "try" /\ UNCHANGED <<steps, needle>>
     ELSE /\ steps' = StepOne
          /\ IF steps' < len THEN needle' = Wrapped(needle) /\ UNCHANGED pc
             ELSE pc' = "try" /\ UNCHANGED needle
  /\ UNCHANGED <<layoutVars, allocated, alloced_pgs, num_pg, first, result, last>>

\* free(b, n), of frames that are allocated (its ASSERTs).  Faulty variant: one page is counted back whatever n is.
Uncount_One(n) == alloced_pgs' = alloced_pgs - 1
Uncount(n) == alloced_pgs' = alloced_pgs - n

Free(b, n) ==
  /\ pc = "idle" /\ b >= start /\ Run(b, n) \subseteq allocated
  /\ allocated' = allocated \ Run(b, n)
  /\ Uncount(n)
  /\ last' = IF last = [op |-> "alloc", base |-> b, n |-> n]
             THEN [last EXCEPT !.op = "free"] ELSE NoOp
  /\ UNCHANGED <<layoutVars, scanVars, result>>

Scan == Enter \/ TryWrap \/ (\E it \in Frame : TryBusy(it)) \/ TryOk \/ Skip

Next ==
  \/ \E n \in Request : Call(n)
  \/ Scan
  \/ \E b \in Frame, n \in Request : Free(b, n)

Spec == Init /\ [][Next]_vars
FairSpec == Spec /\ WF_vars(Scan)

-----------------------------------------------------------------------------
\* The frames marked unusable are those of [start, end) in no usable region:
\* the allocator "will determine which pages are usable by looking at the PFT's
\* usable regions" (page_frame_allocator.h:8).
UsableExact ==
  \A p \in Range0 :
    p \in unusable <=> ~\E k \in DOMAIN regions :
                          p \in Run(regions[k].base, regions[k].len)

\* get_free_pages(), which subtracts a running count from a total computed from
\* the regions, is the number of frames that alloc() could still hand out.
FreeCountExact ==
  total_pgs - alloced_pgs = Cardinality({p \in Range0 : Usable(p)})

\* "In the case of an alloc-free-alloc pattern, the second alloc will return
\* the same base address as the first alloc if the second alloc is of no greater
\* size than the first." (page_frame_allocator.h:75)
ReuseAfterFree ==
  [][last.op = "free" /\ pc # "idle" /\ pc' = "idle" /\ num_pg <= last.n
       => result' = last.base]_vars

\* Every call returns: the two nested loops of alloc() end.
AllocReturns == pc # "idle" ~> pc = "idle"

\* alloc() returns contiguous usable frames that nobody holds, and returns
\* nothing only if [start, end) has no such run, wherever the needle was and
\* however the run straddles it (page_frame_allocator.cc:61-94).
PFA == INSTANCE PageFrameAllocator
         WITH usable <- Range0 \ unusable,
              request <- IF pc = "idle" THEN None ELSE num_pg
PFASpec == PFA!Spec

-----------------------------------------------------------------------------
(***************************************************************************)
(* The inductive invariant behind PFASpec.  Dist(b) is how far the scan    *)
(* has to go from where it began to try b.                                 *)
(***************************************************************************)
Dist(b) == IF b >= first THEN b - first ELSE b - first + len

FitsAt(b) == Run(b, num_pg) \subseteq (Range0 \ unusable) \ allocated

ScanInv ==
  pc \in {"try", "skip"} =>
    /\ num_pg <= len
    /\ steps < len => Dist(needle) = steps
    /\ \A b \in Range0 : Dist(b) < steps => ~FitsAt(b)
    /\ pc = "skip" => steps < len /\ num_pg > 0

\* The needle rests at the block that was allocated last.
LastInv ==
  /\ last \in [op : {"none", "alloc", "free"}, base : Nat, n : Nat]
  /\ last.op = "alloc" /\ pc = "idle" =>
       needle = last.base /\ last.base + last.n <= end /\ last.n <= len
  /\ last.op = "free" /\ (pc = "idle" \/ num_pg <= last.n) =>
       /\ needle = last.base /\ last.base + last.n <= end /\ last.n <= len
       /\ pc \in {"idle", "enter"} \/ (pc = "try" /\ steps = 0)
       /\ \A p \in Run(last.base, last.n) : Usable(p)

\* What FreeCountExact needs of the constructors: the total counted from the
\* regions is the number of frames left unmarked.
CountsAgree ==
  \A l \in Layout :
    CountTotal(l) = Cardinality((l.start..(l.end - 1)) \ MarkUnusable(l))

PFAInv == TypeOK /\ ScanInv /\ LastInv /\ allocated \cap unusable = {}
=============================================================================
