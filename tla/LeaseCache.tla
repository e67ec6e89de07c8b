----------------------------- MODULE LeaseCache -----------------------------
(***************************************************************************)
(* What LRUCache promises its clients (util/lru.h): a key stays in the     *)
(* cache as long as somebody holds a lease on it.                          *)
(***************************************************************************)
CONSTANTS Key, Lease, None

VARIABLES cached,   \* keys in the cache
          holds     \* the key each lease is for, or None

vars == <<cached, holds>>

Unheld(k) == \A l \in Lease : holds[l] # k

Init == cached = {} /\ holds = [l \in Lease |-> None]

\* get(k), or another reference to an element that is held already.
Get(l, k) ==
  /\ holds[l] = None /\ holds' = [holds EXCEPT ![l] = k]
  /\ cached' = cached \cup {k}

Release(l) ==
  /\ holds[l] # None /\ holds' = [holds EXCEPT ![l] = None]
  /\ UNCHANGED cached

\* evict()
Evict(k) ==
  /\ k \in cached /\ Unheld(k)
  /\ cached' = cached \ {k} /\ UNCHANGED holds

\* evict_one(lease), by the only holder.
EvictOne(l) ==
  /\ holds[l] # None /\ \A m \in Lease \ {l} : holds[m] # holds[l]
  /\ cached' = cached \ {holds[l]}
  /\ holds' = [holds EXCEPT ![l] = None]

Next ==
  \/ \E l \in Lease : Release(l) \/ EvictOne(l) \/ \E k \in Key : Get(l, k)
  \/ \E k \in Key : Evict(k)

Spec == Init /\ [][Next]_vars
=============================================================================
