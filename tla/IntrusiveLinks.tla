--------------------------- MODULE IntrusiveLinks ---------------------------
(***************************************************************************)
(* The pointer assignments of util/intrusive_list.h, as functions of the   *)
(* _next and _prev members of all nodes, here f and g.  The statements of  *)
(* a method are applied in the order of the code: next() and prev() are    *)
(* read again in every statement.                                          *)
(***************************************************************************)

\* empty(), and its debug assertion.
Alone(f, n) == f[n] = n
EmptyAssert(f, g, n) == f[n] = n <=> g[n] = n

\* erase(): nothing for a node that is alone.  Faulty variant: its own _next is
\* not reset.
EraseNext_Keep(f, g, n) == [f EXCEPT ![g[n]] = f[n]]
EraseNext(f, g, n) == IF Alone(f, n) THEN f
                      ELSE [[f EXCEPT ![g[n]] = f[n]] EXCEPT ![n] = n]
ErasePrev(f, g, n) == IF Alone(f, n) THEN g
                      ELSE [[g EXCEPT ![f[n]] = g[n]] EXCEPT ![n] = n]

\* The four statements of push_back() that follow p.erase().
BackPPrev(g, at, p) == [g EXCEPT ![p] = g[at]]
BackPNext(f, at, p) == [f EXCEPT ![p] = at]
BackLink(f, g, at, p) == [f EXCEPT ![g[at]] = p]
BackPrev(g, at, p) == [g EXCEPT ![at] = p]

BackNexts(f, g, at, p) == BackLink(BackPNext(f, at, p), BackPPrev(g, at, p), at, p)
BackPrevs(g, at, p) == BackPrev(BackPPrev(g, at, p), at, p)

PushBackNext(f, g, at, p) ==
  BackNexts(EraseNext(f, g, p), ErasePrev(f, g, p), at, p)
PushBackPrev(f, g, at, p) == BackPrevs(ErasePrev(f, g, p), at, p)

\* The four statements of push_front() that follow p.erase().  Faulty variant:
\* the last two the other way round.
FrontNexts(f, at, p) == [[f EXCEPT ![p] = f[at]] EXCEPT ![at] = p]
FrontPrevs_Swapped(f, g, at, p) == [g EXCEPT ![p] = p]
FrontPrevs(f, g, at, p) ==
  LET f1 == [f EXCEPT ![p] = f[at]]
  IN [[g EXCEPT ![p] = at] EXCEPT ![f1[at]] = p]

PushFrontNext(f, g, at, p) == FrontNexts(EraseNext(f, g, p), at, p)
PushFrontPrev(f, g, at, p) ==
  FrontPrevs(EraseNext(f, g, p), ErasePrev(f, g, p), at, p)

\* Every node is its successor's predecessor and its predecessor's successor.
Linked(f, g) == \A n \in DOMAIN f : g[f[n]] = n /\ f[g[n]] = n
=============================================================================
