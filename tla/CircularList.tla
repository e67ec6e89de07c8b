---------------------------- MODULE CircularList ----------------------------
(***************************************************************************)
(* What IntrusiveListHead promises.  Every node is on exactly one ring, a  *)
(* detached node alone on its own.  ring[n] is the sequence of the other   *)
(* nodes that an iteration from n (n.begin() to n.end()) visits, so that   *)
(* the ring of a sentinel is the contents of its list.                     *)
(***************************************************************************)
EXTENDS SequencesExt

CONSTANT Node
VARIABLE ring

Init == ring = [n \in Node |-> <<>>]

\* The nodes that follow n on the circle c.
After(c, n) == LET i == CHOOSE k \in 1..Len(c) : c[k] = n
               IN SubSeq(c, i + 1, Len(c)) \o SubSeq(c, 1, i - 1)

Insert(c, p) ==
  ring' = [n \in Node |-> IF n \in Range(c) THEN After(c, n) ELSE Remove(ring[n], p)]

\* n.erase()
Erase(n) ==
  ring' = [m \in Node |-> IF m = n THEN <<>> ELSE Remove(ring[m], n)]

\* at.push_back(p) and at.push_front(p) move p, wherever it was, to the end and
\* to the front of at's list.
PushBack(at, p) == Insert(IF p = at THEN <<p>>
                              ELSE Append(<<at>> \o Remove(ring[at], p), p), p)

PushFront(at, p) == Insert(IF p = at THEN <<p>>
                               ELSE <<at, p>> \o Remove(ring[at], p), p)

Next == \E n \in Node :
          \/ Erase(n)
          \/ \E p \in Node : PushBack(n, p) \/ PushFront(n, p)

Spec == Init /\ [][Next]_ring
=============================================================================
