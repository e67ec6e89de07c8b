---------------------------- MODULE NodeHashMap -----------------------------
(***************************************************************************)
(* nonstd::node_hash_map (nonstd/node_hash_map.h): all nodes are on one    *)
(* list, _data, those of a bucket next to each other, and _buckets holds   *)
(* the first node of each bucket.  A node is known by its key.             *)
(***************************************************************************)
EXTENDS Integers, SequencesExt

CONSTANTS Key, Value, none,   \* none: the empty iterator, and no value
          Hash,               \* [Key -> Nat]
          Candidate           \* bucket counts to grow through, ascending

VARIABLES map,   \* [buckets, data]: data is a sequence of [key, val]
          std    \* history: the map it stands for, [Key -> Value \cup {none}]

vars == <<map, std>>

bucket_count(m) == Cardinality(DOMAIN m.buckets)
get_bucket(m, k) == Hash[k] % bucket_count(m)

next_bucket_count(n) == SelectSeq(Candidate, LAMBDA c : c >= n)[1]

New(n) == [buckets |-> [b \in 0..(next_bucket_count(n) - 1) |-> none], data |-> <<>>]

\* The position of the node an iterator points to; end() for a key on no node.
Pos(m, k) ==
  IF \E i \in 1..Len(m.data) : m.data[i].key = k
  THEN CHOOSE i \in 1..Len(m.data) : m.data[i].key = k ELSE Len(m.data) + 1

same_bucket(m, i, b) == i <= Len(m.data) /\ get_bucket(m, m.data[i].key) = b

\* The walk of find() from the first node of the bucket while same_bucket().
Walked(m, b) ==
  IF m.buckets[b] = none THEN {}
  ELSE LET p == Pos(m, m.buckets[b])
       IN {i \in p..Len(m.data) : \A j \in p..i : same_bucket(m, j, b)}

find(m, k) == {i \in Walked(m, get_bucket(m, k)) : m.data[i].key = k}

\* Where a new node goes: before the first of its bucket, else at begin().
\* Faulty variant: at the end of _data.
Place_End(m, b) == IF m.buckets[b] = none THEN Len(m.data) + 1 ELSE Pos(m, m.buckets[b]) + 1
Place(m, b) == IF m.buckets[b] = none THEN 1 ELSE Pos(m, m.buckets[b])

\* _data.emplace() or splice() of a node at the head of its bucket.
Link(m, node) ==
  LET b == get_bucket(m, node.key)
  IN [buckets |-> [m.buckets EXCEPT ![b] = node.key],
      data |-> InsertAt(m.data, Place(m, b), node)]

\* Every node moves to the list of a larger map, which then takes this one's place.
rehash(m, count) ==
  IF count <= bucket_count(m) THEN m ELSE FoldLeft(Link, New(count), m.data)

Insert(m, k, v) ==
  LET n == Link(m, [key |-> k, val |-> v]) IN rehash(n, Len(n.data))

emplace(m, k, v) ==
  IF find(m, k) = {} THEN Insert(m, k, v)
  ELSE [m EXCEPT !.data[CHOOSE i \in find(m, k) : TRUE].val = v]

try_emplace(m, k, v) == IF find(m, k) = {} THEN Insert(m, k, v) ELSE m

\* The bucket of an erased first node: its second, or nothing.  Faulty variant:
\* the node after it, whichever bucket that is in.
NextHead_Any(m, i, b) == IF i < Len(m.data) THEN m.data[i + 1].key ELSE none
NextHead(m, i, b) == IF same_bucket(m, i + 1, b) THEN m.data[i + 1].key ELSE none

\* erase(iterator) of the node at position i.
erase(m, i) ==
  LET k == m.data[i].key
      b == get_bucket(m, k)
  IN [buckets |-> IF m.buckets[b] = k THEN [m.buckets EXCEPT ![b] = NextHead(m, i, b)]
                  ELSE m.buckets,
      data |-> RemoveAt(m.data, i)]

\* for (it = begin(); it != end(); it = erase(it))
clear(m) == FoldLeft(LAMBDA n, x : erase(n, 1), m, m.data)

Init == map = New(0) /\ std = [k \in Key |-> none]

Emplace(k, v) == map' = emplace(map, k, v) /\ std' = [std EXCEPT ![k] = v]
TryEmplace(k, v) ==
  /\ map' = try_emplace(map, k, v)
  /\ std' = IF std[k] = none THEN [std EXCEPT ![k] = v] ELSE std
\* erase(key)
Erase(k) ==
  /\ map' = IF find(map, k) = {} THEN map ELSE erase(map, CHOOSE i \in find(map, k) : TRUE)
  /\ std' = [std EXCEPT ![k] = none]
Clear == map' = clear(map) /\ std' = [k \in Key |-> none]
Reserve(n) == map' = rehash(map, n) /\ UNCHANGED std

Next ==
  \/ \E k \in Key : Erase(k) \/ \E v \in Value : Emplace(k, v) \/ TryEmplace(k, v)
  \/ Clear
  \/ \E n \in 1..Candidate[Len(Candidate)] : Reserve(n)

-----------------------------------------------------------------------------
\* find() finds a key exactly when it was inserted and not erased since, and its
\* node has the value of the last insertion that took effect; through collisions,
\* erasure of first, middle and last nodes of a bucket, and rehashes.
MapExact ==
  \A k \in Key :
    LET f == find(map, k)
    IN IF std[k] = none THEN f = {}
       ELSE Cardinality(f) = 1 /\ \A i \in f : map.data[i].val = std[k]

\* The nodes of a bucket are neighbours, and its iterator is at the first of them;
\* what the walks of find(), emplace() and erase() rely on.
BucketsExact ==
  \A b \in DOMAIN map.buckets :
    Walked(map, b) = {i \in 1..Len(map.data) : same_bucket(map, i, b)}
=============================================================================
