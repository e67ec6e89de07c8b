------------------------------ MODULE ListOps -------------------------------
(***************************************************************************)
(* A list of distinct nodes as a sequence, for the modules that use an     *)
(* IntrusiveListHead (util/intrusive_list.h) without looking at its links. *)
(***************************************************************************)
EXTENDS Naturals, Sequences

Range1(q) == {q[i] : i \in 1..Len(q)}
Distinct(q) == \A i, j \in 1..Len(q) : q[i] = q[j] => i = j

\* The place of x in q.
Position(q, x) == CHOOSE i \in 1..Len(q) : q[i] = x

\* node.erase(): unlink x; a node that is in no list is left alone.
Erase(q, x) ==
  IF x \in Range1(q)
  THEN LET k == CHOOSE i \in 1..Len(q) : q[i] = x
       IN  [i \in 1..(Len(q) - 1) |-> IF i < k THEN q[i] ELSE q[i + 1]]
  ELSE q
=============================================================================
