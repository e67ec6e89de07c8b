------------------------- MODULE PageFrameAllocator -------------------------
(***************************************************************************)
(* What an allocator of physical page frames promises (the abstract class  *)
(* PageFrameAllocator, mm/page_frame_allocator.h): alloc(n) hands out n    *)
(* contiguous usable frames that nobody holds, and fails only if there is  *)
(* no such run; free() takes frames back.                                  *)
(***************************************************************************)
EXTENDS Integers

CONSTANTS Frame,      \* page frame numbers
          Request,    \* the sizes callers ask for, in frames
          None        \* std::nullopt, and "no request"

VARIABLES usable,     \* the frames this allocator may hand out
          allocated,  \* the frames handed out
          request,    \* the size asked for by the call in progress
          result      \* what the last alloc() returned

vars == <<usable, allocated, request, result>>

Run(b, n) == b..(b + n - 1)
Fits(b, n) == Run(b, n) \subseteq usable \ allocated

Init ==
  /\ usable \in SUBSET Frame
  /\ allocated = {} /\ request = None /\ result = None

Call(n) ==
  /\ request = None /\ request' = n
  /\ UNCHANGED <<usable, allocated, result>>

AllocOk(b) ==
  /\ request # None /\ Fits(b, request)
  /\ allocated' = allocated \cup Run(b, request)
  /\ result' = b /\ request' = None /\ UNCHANGED usable

AllocFails ==
  /\ request # None
  /\ \A b \in Frame : ~Fits(b, request)
  /\ result' = None /\ request' = None /\ UNCHANGED <<usable, allocated>>

Free(b, n) ==
  /\ request = None /\ Run(b, n) \subseteq allocated
  /\ allocated' = allocated \ Run(b, n)
  /\ UNCHANGED <<usable, request, result>>

Next ==
  \/ \E n \in Request : Call(n)
  \/ \E b \in Frame : AllocOk(b)
  \/ AllocFails
  \/ \E b \in Frame, n \in Request : Free(b, n)

Spec == Init /\ [][Next]_vars
=============================================================================
