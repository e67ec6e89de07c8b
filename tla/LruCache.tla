------------------------------ MODULE LruCache ------------------------------
(***************************************************************************)
(* LRUCache (util/lru.h), the cache under the page cache.  get() is cut    *)
(* at the call of populate_cache(), which for the page cache waits for the *)
(* disk and lets other threads run; the other operations are one step      *)
(* each, evict() one per iteration.  The kernel itself never evicts (only  *)
(* the tests do), so on_evict() is not a point where others run.           *)
(*                                                                         *)
(* A slot of Lease stands for a Lease object, or for a reference taken     *)
(* with inc_leases() and given back with dec_leases().  Node is the set of *)
(* all nodes ever made: kfree() does nothing.                              *)
(***************************************************************************)
EXTENDS Integers, FiniteSets, ListOps

CONSTANTS Key, Node, Lease, Thread, None,
          Hint      \* values passed to evict()

ASSUME LruAssumption == /\ IsFiniteSet(Lease) /\ Hint \subseteq Nat
                        /\ None \notin Key /\ None \notin Node /\ None \notin Nat

VARIABLES lookup,   \* the node of each key, or None
          key,      \* Node::key, None for a node not made yet
          refcount,
          lru,      \* evictable nodes, last released first
          lease,    \* Lease::node, None for an empty lease
          miss,     \* per thread: [key, slot] of a get() in populate_cache()
          size_hint \* of the evict() that is running, or None

cacheVars == <<lookup, key, refcount, lru>>
vars == <<cacheVars, lease, miss, size_hint>>

Cached == {lookup[k] : k \in Key} \ {None}
Waiting == {t \in Thread : miss[t] # None}
Free == {l \in Lease : lease[l] = None} \ {miss[t].slot : t \in Waiting}

TypeOK ==
  /\ lookup \in [Key -> Node \cup {None}] /\ key \in [Node -> Key \cup {None}]
  /\ refcount \in [Node -> Int] /\ lru \in Seq(Node)
  /\ lease \in [Lease -> Node \cup {None}]
  /\ miss \in [Thread -> [key : Key, slot : Lease] \cup {None}]
  /\ size_hint \in Hint \cup {None}

Init ==
  /\ lookup = [k \in Key |-> None] /\ key = [n \in Node |-> None]
  /\ refcount = [n \in Node |-> 0] /\ lru = << >>
  /\ lease = [l \in Lease |-> None] /\ miss = [t \in Thread |-> None]
  /\ size_hint = None

\* inc_leases(), on the counts r.  Faulty variants: the node stays evictable; the
\* count is set and not incremented.
IncLeases_Keep(n, r) == refcount' = [r EXCEPT ![n] = @ + 1] /\ UNCHANGED lru
IncLeases_Set(n, r) ==
  refcount' = [r EXCEPT ![n] = 1] /\ lru' = IF r[n] = 0 THEN Erase(lru, n) ELSE lru
IncLeases(n, r) ==
  /\ refcount' = [r EXCEPT ![n] = @ + 1]
  /\ lru' = IF r[n] + 1 = 1 THEN Erase(lru, n) ELSE lru

\* dec_leases(), on the lease l.  Faulty variant: made evictable at the first
\* release.
DecLeases_Early(n) ==
  /\ refcount' = [refcount EXCEPT ![n] = @ - 1]
  /\ lru' = <<n>> \o Erase(lru, n)
DecLeases(n) ==
  /\ refcount' = [refcount EXCEPT ![n] = @ - 1]
  /\ lru' = IF refcount[n] - 1 = 0 THEN <<n>> \o Erase(lru, n) ELSE lru

\* get(k) of a key in the cache.  Without insert_if_missing, get() of any other key
\* changes nothing.
Hit(t, k, l) ==
  /\ miss[t] = None /\ size_hint = None /\ l \in Free
  /\ lookup[k] # None
  /\ IncLeases(lookup[k], refcount) /\ lease' = [lease EXCEPT ![l] = lookup[k]]
  /\ UNCHANGED <<lookup, key, miss, size_hint>>

\* get(k) of a key that is not: populate_cache(k) is called.
Miss(t, k, l) ==
  /\ miss[t] = None /\ size_hint = None /\ l \in Free
  /\ lookup[k] = None
  /\ miss' = [miss EXCEPT ![t] = [key |-> k, slot |-> l]]
  /\ UNCHANGED <<cacheVars, lease, size_hint>>

\* try_emplace() when it returns: a node that is there by now is kept.
Populated(t) ==
  LET k == miss[t].key
      l == miss[t].slot
  IN /\ miss[t] # None /\ miss' = [miss EXCEPT ![t] = None]
     /\ IF lookup[k] # None
        THEN /\ IncLeases(lookup[k], refcount)
             /\ lease' = [lease EXCEPT ![l] = lookup[k]]
             /\ UNCHANGED <<lookup, key>>
        ELSE \E n \in Node :
               /\ key[n] = None /\ key' = [key EXCEPT ![n] = k]
               /\ lookup' = [lookup EXCEPT ![k] = n]
               /\ IncLeases(n, [refcount EXCEPT ![n] = 0])
               /\ lease' = [lease EXCEPT ![l] = n]
     /\ UNCHANGED size_hint

\* lease.inc_leases(), called on l and remembered as m.
Inc(l, m) ==
  /\ size_hint = None /\ lease[l] \in Cached /\ m \in Free
  /\ IncLeases(lease[l], refcount) /\ lease' = [lease EXCEPT ![m] = lease[l]]
  /\ UNCHANGED <<lookup, key, miss, size_hint>>

\* ~Lease(), or dec_leases().
Release(l) ==
  /\ size_hint = None /\ lease[l] # None
  /\ DecLeases(lease[l]) /\ lease' = [lease EXCEPT ![l] = None]
  /\ UNCHANGED <<lookup, key, miss, size_hint>>

\* evict(h), an iteration of its loop, and its end.
Evict(h) ==
  /\ size_hint = None /\ size_hint' = h
  /\ UNCHANGED <<cacheVars, lease, miss>>

More == Cardinality(Cached) > size_hint /\ lru # << >>

\* evict_one(node).  Faulty variant: the node stays on the list.
Drop_Unlinked(n, q) == lru' = q /\ lookup' = [lookup EXCEPT ![key[n]] = None]
Drop(n, q) == lru' = Erase(q, n) /\ lookup' = [lookup EXCEPT ![key[n]] = None]

EvictLast ==
  /\ size_hint # None /\ More
  /\ Drop(lru[Len(lru)], lru)
  /\ UNCHANGED <<key, refcount, lease, miss, size_hint>>

EvictDone ==
  /\ size_hint # None /\ ~More /\ size_hint' = None
  /\ UNCHANGED <<cacheVars, lease, miss>>

\* evict_one(lease) when nobody else holds one.  The lease is destroyed here, but
\* its node pointer stays, and the caller's own destructor (Release) comes later.
EvictOne(l) ==
  /\ size_hint = None
  /\ lease[l] \in Cached /\ refcount[lease[l]] = 1
  /\ refcount' = [refcount EXCEPT ![lease[l]] = 0]
  /\ Drop(lease[l], <<lease[l]>> \o Erase(lru, lease[l]))
  /\ UNCHANGED <<key, lease, miss, size_hint>>

Next ==
  \/ \E t \in Thread :
       \/ Populated(t)
       \/ \E k \in Key, l \in Lease : Hit(t, k, l) \/ Miss(t, k, l)
  \/ \E l \in Lease : Release(l) \/ EvictOne(l) \/ \E m \in Lease : Inc(l, m)
  \/ \E h \in Hint : Evict(h)
  \/ EvictLast \/ EvictDone

Spec == Init /\ [][Next]_vars
FairSpec == Spec /\ WF_vars(EvictLast \/ EvictDone)

-----------------------------------------------------------------------------
Holders(n) == {l \in Lease : lease[l] = n}

\* The count of every element in the cache is the number of leases on it, though
\* leases are destroyed, evicted through and taken while others wait for a miss.
RefcountExact == \A n \in Cached : refcount[n] = Cardinality(Holders(n))

\* "Evictable items in the cache [...]  Everything in this list should have
\* refcount 0" (lru.h:195), and everything with refcount 0 is in it, once.
LruExact ==
  /\ Distinct(lru)
  /\ Range1(lru) = {n \in Cached : refcount[n] = 0}

\* "Holding a lease will prevent the element from being evicted" (lru.h:53), and
\* what a lease refers to is the element of its key: two threads that miss the same
\* key at the same time end up with the same element.
LC == INSTANCE LeaseCache
        WITH cached <- {k \in Key : lookup[k] # None},
             holds <- [l \in Lease |-> IF lease[l] \in Cached THEN key[lease[l]] ELSE None]
LeaseSpec == LC!Spec

\* evict() returns: every iteration of its loop (lru.h:164) brings it nearer to
\* size_hint or to an empty list, whatever misses are answered meanwhile.
EvictReturns == size_hint # None ~> size_hint = None
=============================================================================
