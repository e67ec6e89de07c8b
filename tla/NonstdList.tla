----------------------------- MODULE NonstdList -----------------------------
(***************************************************************************)
(* nonstd::list (nonstd/list.h) at the level of its pointers: two lists,   *)
(* each with the node made of its own _back and _front, which is end().    *)
(***************************************************************************)
EXTENDS Integers, SequencesExt

CONSTANTS Node, List, End, nullptr   \* End: [List -> end nodes]

VARIABLES heap,   \* [prev, next, size]: prev of an end node is _back, next _front
          std     \* history: the sequences of nodes the lists stand for

vars == <<heap, std>>

Ends == {End[l] : l \in List}

\* std::swap(a->prev, b->prev) and std::swap(a->next, b->next)
SwapPrev(h, a, b) == [h EXCEPT !.prev[a] = h.prev[b], !.prev[b] = h.prev[a]]
SwapNext(h, a, b) == [h EXCEPT !.next[a] = h.next[b], !.next[b] = h.next[a]]

begin(h, l) == IF h.size[l] = 0 THEN End[l] ELSE h.next[End[l]]

emplace(h, l, pos, n) ==
  LET p == h.prev[pos]
  IN [prev |-> [h.prev EXCEPT ![n] = p, ![pos] = n],
      next |-> [h.next EXCEPT ![n] = pos, ![p] = n],
      size |-> [h.size EXCEPT ![l] = @ + 1]]

erase(h, l, n) ==
  [prev |-> [h.prev EXCEPT ![h.next[n]] = h.prev[n], ![n] = nullptr],
   next |-> [h.next EXCEPT ![h.prev[n]] = h.next[n], ![n] = nullptr],
   size |-> [h.size EXCEPT ![l] = @ - 1]]

clear(h, l) ==
  LET f[k \in 0..h.size[l]] == IF k = 0 THEN h ELSE erase(f[k - 1], l, begin(f[k - 1], l))
  IN f[h.size[l]]

\* operator=(list &&).  Faulty variant: _back is read again after the first swap.
move_assign_Reread(h, l, o) ==
  LET h1 == SwapPrev(h, h.next[End[l]], h.next[End[o]])
      h2 == SwapNext(h1, h1.prev[End[l]], h1.prev[End[o]])
      h3 == SwapPrev(SwapNext(h2, End[l], End[o]), End[l], End[o])
  IN [h3 EXCEPT !.size[l] = h.size[o], !.size[o] = h.size[l]]
move_assign(h, l, o) ==
  LET h1 == SwapPrev(h, h.next[End[l]], h.next[End[o]])
      h2 == SwapNext(h1, h.prev[End[l]], h.prev[End[o]])
      h3 == SwapPrev(SwapNext(h2, End[l], End[o]), End[l], End[o])
  IN [h3 EXCEPT !.size[l] = h.size[o], !.size[o] = h.size[l]]

splice_impl(h, l, pos, o, first, last, n) ==
  LET prev == h.prev[pos]
      first_prev == h.prev[first]
      last_prev == h.prev[last]
      h1 == SwapNext(SwapPrev(h, first, pos), last_prev, prev)
      h2 == SwapPrev(SwapNext(h1, prev, first_prev), pos, last)
  IN [h2 EXCEPT !.size = [[@ EXCEPT ![l] = @ + n] EXCEPT ![o] = @ - n]]

Init ==
  /\ heap = [prev |-> [x \in Node \cup Ends |-> IF x \in Ends THEN x ELSE nullptr],
             next |-> [x \in Node \cup Ends |-> IF x \in Ends THEN x ELSE nullptr],
             size |-> [l \in List |-> 0]]
  /\ std = [l \in List |-> <<>>]

\* The iterator to the i-th element of a list; end() after the last.
Iter(l, i) == IF i > Len(std[l]) THEN End[l] ELSE std[l][i]

Emplace(l, i, n) ==
  /\ \A m \in List : n \notin Range(std[m])
  /\ heap' = emplace(heap, l, Iter(l, i), n)
  /\ std' = [std EXCEPT ![l] = InsertAt(@, i, n)]

Erase(l, i) ==
  /\ i <= Len(std[l]) /\ heap' = erase(heap, l, Iter(l, i))
  /\ std' = [std EXCEPT ![l] = RemoveAt(@, i)]

Clear(l) == heap' = clear(heap, l) /\ std' = [std EXCEPT ![l] = <<>>]

MoveAssign(l, o) ==
  /\ heap' = move_assign(heap, l, o)
  /\ std' = [std EXCEPT ![l] = std[o], ![o] = std[l]]

\* splice() of the elements i to j - 1 of another list.
Splice(l, p, o, i, j) ==
  /\ l # o /\ i <= j
  /\ heap' = splice_impl(heap, l, Iter(l, p), o, Iter(o, i), Iter(o, j), j - i)
  /\ std' = [std EXCEPT ![l] = SubSeq(@, 1, p - 1) \o SubSeq(std[o], i, j - 1)
                                 \o SubSeq(@, p, Len(@)),
                        ![o] = SubSeq(@, 1, i - 1) \o SubSeq(@, j, Len(@))]

Next ==
  \E l \in List :
    \/ Clear(l)
    \/ \E i \in 1..(Len(std[l]) + 1) : Erase(l, i) \/ \E n \in Node : Emplace(l, i, n)
    \/ \E o \in List :
         \/ MoveAssign(l, o)
         \/ \E p \in 1..(Len(std[l]) + 1), i, j \in 1..(Len(std[o]) + 1) : Splice(l, p, o, i, j)

-----------------------------------------------------------------------------
\* Both directions of every list visit the elements std::list would have, and end
\* at its own end(): through emplace, erase, move assignment with empty lists on
\* either side, and splices of empty, partial and whole ranges.
ListIsSequence ==
  \A l \in List :
    LET at(i) == IF i \in 1..Len(std[l]) THEN std[l][i] ELSE End[l]
    IN /\ heap.size[l] = Len(std[l])
       /\ \A i \in 0..Len(std[l]) : heap.next[at(i)] = at(i + 1) /\ heap.prev[at(i + 1)] = at(i)
=============================================================================
