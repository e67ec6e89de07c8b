------------------------------- MODULE Vector -------------------------------
(***************************************************************************)
(* nonstd::vector (nonstd/vector.h) as the kernel's descriptor table uses  *)
(* it: a buffer of _capacity slots, of which a slot is Dead or holds a     *)
(* constructed element.                                                    *)
(***************************************************************************)
EXTENDS Integers, Sequences

CONSTANTS Value, Dead, Default,   \* Default: what T{} makes
          MaxLen                  \* bound on the length

VARIABLES v,     \* [len, capacity, data]
          std    \* history: the sequence it stands for

vars == <<v, std>>

MaxOf(a, b) == IF a > b THEN a ELSE b

\* vector(count, value)
Make(n, x) == [len |-> n, capacity |-> n, data |-> [i \in 0..(n - 1) |-> x]]

\* The elements move to a buffer of at least twice the size.
reserve(w, n) ==
  IF n <= w.capacity THEN w
  ELSE LET c == MaxOf(n, 2 * w.capacity)
       IN [w EXCEPT !.capacity = c,
                    !.data = [i \in 0..(c - 1) |-> IF i < w.len THEN w.data[i] ELSE Dead]]

emplace_back(w, x) ==
  LET r == reserve(w, w.len + 1) IN [r EXCEPT !.data[w.len] = x, !.len = w.len + 1]

\* Constructs or destroys the elements between the two lengths.  Faulty variant:
\* a shorter vector keeps them.
resize_Keep(w, n) ==
  LET r == reserve(w, n)
  IN [r EXCEPT !.len = n,
               !.data = [i \in DOMAIN @ |-> IF i >= w.len /\ i < n THEN Default ELSE @[i]]]
resize(w, n) ==
  LET r == reserve(w, n)
  IN [r EXCEPT !.len = n,
               !.data = [i \in DOMAIN @ |-> IF i >= n THEN Dead
                                            ELSE IF i >= w.len THEN Default ELSE @[i]]]

Init == v = Make(0, Dead) /\ std = <<>>

push_back(x) ==
  /\ Len(std) < MaxLen /\ v' = emplace_back(v, x) /\ std' = Append(std, x)

\* ASSERT(len > 0)
pop_back ==
  /\ v.len > 0
  /\ v' = [v EXCEPT !.len = @ - 1, !.data[v.len - 1] = Dead]
  /\ std' = SubSeq(std, 1, Len(std) - 1)

Resize(n) ==
  /\ v' = resize(v, n)
  /\ std' = [i \in 1..n |-> IF i <= Len(std) THEN std[i] ELSE Default]

Reserve(n) == v' = reserve(v, n) /\ UNCHANGED std

\* v = vector(n, x), through swap() with a new vector.
Assign(n, x) == v' = Make(n, x) /\ std' = [i \in 1..n |-> x]

\* operator[]
Store(i, x) ==
  /\ i < v.len /\ v' = [v EXCEPT !.data[i] = x] /\ std' = [std EXCEPT ![i + 1] = x]

Next ==
  \/ pop_back
  \/ \E n \in 0..MaxLen : Resize(n) \/ Reserve(n)
  \/ \E x \in Value : push_back(x) \/ \E n \in 0..MaxLen : Assign(n, x) \/ Store(n, x)

-----------------------------------------------------------------------------
\* The vector is the sequence std::vector would be, and exactly the slots below
\* its length hold a constructed element: every element is destroyed once, also
\* those a shrinking resize() drops before the vector grows again.
VectorIsSequence ==
  /\ v.len <= v.capacity /\ DOMAIN v.data = 0..(v.capacity - 1)
  /\ [i \in 1..v.len |-> v.data[i - 1]] = std
  /\ \A i \in DOMAIN v.data : i >= v.len => v.data[i] = Dead
=============================================================================
