--------------------------- MODULE LruCacheProofs ---------------------------
(***************************************************************************)
(* The counts and the list of evictable elements of LRUCache are exact,    *)
(* for any number of keys, nodes, leases and threads.                      *)
(***************************************************************************)
EXTENDS LruCache, FiniteSetTheorems, TLAPS

----------------------------------------------------------------------------
\* What the two operations on the list do to a list without duplicates.
\* erase() removes that node and nothing else.
LEMMA EraseLemma ==
  ASSUME NEW S, NEW q \in Seq(S), NEW x, Distinct(q)
  PROVE  /\ Erase(q, x) \in Seq(S)
         /\ Distinct(Erase(q, x))
         /\ Range1(Erase(q, x)) = Range1(q) \ {x}
<1>1. CASE x \notin Range1(q)
  BY <1>1, Zenon DEF Erase
<1>2. CASE x \in Range1(q)
  <2> DEFINE k == CHOOSE i \in 1..Len(q) : q[i] = x
             r == [i \in 1..(Len(q) - 1) |-> IF i < k THEN q[i] ELSE q[i + 1]]
  <2>1. Erase(q, x) = r
    BY <1>2, Zenon DEF Erase
  <2>2. k \in 1..Len(q) /\ q[k] = x /\ Len(q) \in Nat
    BY <1>2 DEF Range1
  <2> HIDE DEF k
  <2>3. /\ r \in Seq(S) /\ Len(r) = Len(q) - 1
        /\ \A i \in 1..Len(r) : r[i] = IF i < k THEN q[i] ELSE q[i + 1]
    <3>1. \A i \in 1..(Len(q) - 1) : (IF i < k THEN q[i] ELSE q[i + 1]) \in S
      BY <2>2
    <3>2. Len(q) - 1 \in Nat
      BY <2>2
    <3>3. r \in [1..(Len(q) - 1) -> S]
      BY <3>1, Zenon
    <3> QED BY <3>2, <3>3
  <2> HIDE DEF r
  <2>4. Distinct(r)
    BY <2>2, <2>3, SMTT(30) DEF Distinct
  <2>5. Range1(r) = Range1(q) \ {x}
    <3>1. ASSUME NEW y \in Range1(r) PROVE y \in Range1(q) /\ y # x
      BY <2>2, <2>3, <3>1 DEF Range1, Distinct
    <3>2. ASSUME NEW y \in Range1(q), y # x PROVE y \in Range1(r)
      <4>1. PICK i \in 1..Len(q) : y = q[i]
        BY Zenon DEF Range1
      <4>2. CASE i < k
        BY <2>2, <2>3, <4>1, <4>2 DEF Range1
      <4>3. CASE i > k
        <5>1. i - 1 \in 1..Len(r) /\ r[i - 1] = q[i]
          BY <2>2, <2>3, <4>3
        <5> QED BY <4>1, <5>1, Zenon DEF Range1
      <4> QED BY <2>2, <3>2, <4>1, <4>2, <4>3
    <3> QED BY <3>1, <3>2, Zenon
  <2> QED BY <2>1, <2>3, <2>4, <2>5, Zenon
<1> QED BY <1>1, <1>2, Zenon

\* push_front() of a node that is on no list adds it and nothing else.
LEMMA PushFrontLemma ==
  ASSUME NEW S, NEW q \in Seq(S), NEW x \in S, Distinct(q), x \notin Range1(q)
  PROVE  /\ <<x>> \o q \in Seq(S)
         /\ Distinct(<<x>> \o q)
         /\ Range1(<<x>> \o q) = Range1(q) \cup {x}
<1> DEFINE r == <<x>> \o q
<1>1. /\ r \in Seq(S) /\ Len(r) = Len(q) + 1 /\ Len(q) \in Nat
      /\ \A i \in 1..Len(q) : r[i + 1] = q[i]
      /\ \A i \in 2..Len(r) : r[i] = q[i - 1]
      /\ r[1] = x
  OBVIOUS
<1> HIDE DEF r
<1>2. Distinct(r)
  <2>1. \A i \in 2..Len(r) : r[i] # x
    <3>1. \A j \in 1..Len(q) : q[j] # x
      BY Zenon DEF Range1
    <3> QED BY <1>1, <3>1
  <2>2. ASSUME NEW i \in 2..Len(r), NEW j \in 2..Len(r), r[i] = r[j] PROVE i = j
    <3>1. i - 1 \in 1..Len(q) /\ j - 1 \in 1..Len(q) /\ q[i - 1] = q[j - 1]
      BY <1>1, <2>2
    <3>2. i - 1 = j - 1
      BY <3>1, Zenon DEF Distinct
    <3> QED BY <1>1, <3>2
  <2>3. \A i \in 1..Len(r) : i = 1 \/ i \in 2..Len(r)
    BY <1>1
  <2> QED BY <1>1, <2>1, <2>2, <2>3, Zenon DEF Distinct
<1>3. Range1(r) = Range1(q) \cup {x}
  <2>1. ASSUME NEW y \in Range1(r) PROVE y \in Range1(q) \cup {x}
    BY <1>1, <2>1, SMTT(30) DEF Range1
  <2>2. ASSUME NEW y \in Range1(q) PROVE y \in Range1(r)
    <3>1. PICK i \in 1..Len(q) : y = q[i]
      BY Zenon DEF Range1
    <3>2. i + 1 \in 1..Len(r) /\ r[i + 1] = y
      BY <1>1, <3>1
    <3> QED BY <3>2, Zenon DEF Range1
  <2>3. x \in Range1(r)
    BY <1>1 DEF Range1
  <2> QED BY <2>1, <2>2, <2>3
<1> QED BY <1>1, <1>2, <1>3, Zenon DEF r

----------------------------------------------------------------------------

\* The node found under a key is the node of that key; a leased node has been made.
KeysAgree ==
  /\ \A k \in Key : lookup[k] # None => key[lookup[k]] = k
  /\ \A l \in Lease : lease[l] # None => key[lease[l]] # None

\* A node that was taken out of the cache can never become evictable again: its
\* count is at most 0, and destroying the lease it was evicted through lowers it.
DroppedLow == \A n \in Node : n \notin Cached /\ key[n] # None => refcount[n] <= 0

\* The lease that a waiting get() will return is empty, and its own.
SlotsOwn ==
  /\ \A t \in Waiting : lease[miss[t].slot] = None
  /\ \A t, u \in Waiting : t # u => miss[t].slot # miss[u].slot

LruInv == TypeOK /\ RefcountExact /\ LruExact /\ KeysAgree /\ DroppedLow /\ SlotsOwn

LEMMA HoldersFinite ==
  ASSUME NEW n
  PROVE  IsFiniteSet(Holders(n)) /\ Cardinality(Holders(n)) \in Nat
<1>1. Holders(n) \subseteq Lease
  BY Zenon DEF Holders
<1>2. IsFiniteSet(Holders(n))
  BY <1>1, LruAssumption, FS_Subset, Zenon
<1> QED BY <1>2, FS_CardinalityType, Zenon

\* A lease is filled in.
LEMMA HoldersAdd ==
  ASSUME TypeOK, NEW n \in Node, NEW l \in Lease, lease[l] = None,
         lease' = [lease EXCEPT ![l] = n]
  PROVE  /\ Cardinality(Holders(n)') = Cardinality(Holders(n)) + 1
         /\ \A m \in Node : m # n => Holders(m)' = Holders(m)
<1>1. Holders(n)' = Holders(n) \cup {l} /\ l \notin Holders(n)
  BY LruAssumption DEF Holders, TypeOK
<1>2. \A m \in Node : m # n => Holders(m)' = Holders(m)
  BY LruAssumption, Zenon DEF Holders, TypeOK
<1> QED BY <1>1, <1>2, HoldersFinite, FS_AddElement, Zenon

\* A lease is destroyed.
LEMMA HoldersRemove ==
  ASSUME TypeOK, NEW l \in Lease, lease[l] # None,
         lease' = [lease EXCEPT ![l] = None]
  PROVE  /\ Cardinality(Holders(lease[l]))
              = Cardinality({m \in Lease : lease'[m] = lease[l]}) + 1
         /\ \A m \in Node : m # lease[l] => Holders(m)' = Holders(m)
<1> DEFINE H == {m \in Lease : lease'[m] = lease[l]}
<1>1. Holders(lease[l]) = H \cup {l} /\ l \notin H
  BY LruAssumption DEF Holders, TypeOK
<1>2. \A m \in Node : m # lease[l] => Holders(m)' = Holders(m)
  BY LruAssumption, Zenon DEF Holders, TypeOK
<1>3. IsFiniteSet(H)
  BY LruAssumption, FS_Subset, Zenon
<1> QED BY <1>1, <1>2, <1>3, FS_AddElement, Zenon

-----------------------------------------------------------------------------
\* Taking a reference to an element in the cache: get() of a present key, the end of
\* a get() that waited, and inc_leases().
LEMMA AcquireStep ==
  ASSUME LruInv, NEW n \in Cached, NEW l \in Lease, lease[l] = None,
         IncLeases(n, refcount), lease' = [lease EXCEPT ![l] = n],
         UNCHANGED <<lookup, key>>
  PROVE  /\ lru' \in Seq(Node) /\ refcount' \in [Node -> Int]
         /\ lease' \in [Lease -> Node \cup {None}]
         /\ RefcountExact' /\ LruExact' /\ KeysAgree' /\ DroppedLow'
<1>1. /\ TypeOK /\ n \in Node /\ Cached' = Cached /\ n # None
      /\ Cached \subseteq Node
  BY LruAssumption DEF LruInv, TypeOK, Cached
<1>2. /\ refcount' \in [Node -> Int] /\ refcount'[n] = refcount[n] + 1
      /\ \A m \in Node : m # n => refcount'[m] = refcount[m]
      /\ refcount[n] \in Int
  BY <1>1 DEF IncLeases, TypeOK
<1>3. lease' \in [Lease -> Node \cup {None}] /\ lease'[l] = n
      /\ \A m \in Lease : m # l => lease'[m] = lease[m]
  BY <1>1, Zenon DEF TypeOK
<1>4. refcount[n] \in Nat
  BY <1>1, HoldersFinite, Zenon DEF LruInv, RefcountExact
<1>5. RefcountExact'
  BY <1>1, <1>2, HoldersAdd, Zenon DEF LruInv, RefcountExact
<1>6. lru' \in Seq(Node) /\ LruExact'
  <2>1. CASE refcount[n] = 0
    <3>1. lru' = Erase(lru, n)
      BY <2>1 DEF IncLeases
    <3>2. /\ Erase(lru, n) \in Seq(Node) /\ Distinct(Erase(lru, n))
          /\ Range1(Erase(lru, n)) = Range1(lru) \ {n}
      BY <1>1, EraseLemma, Zenon DEF LruInv, LruExact, TypeOK
    <3>3. {m \in Cached : refcount'[m] = 0} = {m \in Cached : refcount[m] = 0} \ {n}
      BY <1>1, <1>2, <2>1
    <3> QED BY <1>1, <3>1, <3>2, <3>3, Zenon DEF LruInv, LruExact
  <2>2. CASE refcount[n] # 0
    <3>1. lru' = lru
      BY <1>2, <2>2 DEF IncLeases
    <3>2. {m \in Cached : refcount'[m] = 0} = {m \in Cached : refcount[m] = 0}
      BY <1>1, <1>2, <1>4, <2>2
    <3> QED BY <1>1, <3>1, <3>2, Zenon DEF LruInv, LruExact, TypeOK
  <2> QED BY <2>1, <2>2, Zenon
<1>7. KeysAgree'
  <2>1. key[n] # None
    BY LruAssumption, <1>1 DEF LruInv, KeysAgree, Cached
  <2> QED BY <1>1, <1>3, <2>1, Zenon DEF LruInv, KeysAgree
<1>8. DroppedLow'
  BY <1>1, <1>2, Zenon DEF LruInv, DroppedLow
<1> QED BY <1>2, <1>3, <1>5, <1>6, <1>7, <1>8, Zenon

\* populate_cache() returned and the key is still missing: a new node is made.
LEMMA NewNodeStep ==
  ASSUME LruInv, NEW k \in Key, lookup[k] = None, NEW n \in Node, key[n] = None,
         NEW l \in Lease, lease[l] = None,
         key' = [key EXCEPT ![n] = k], lookup' = [lookup EXCEPT ![k] = n],
         IncLeases(n, [refcount EXCEPT ![n] = 0]), lease' = [lease EXCEPT ![l] = n]
  PROVE  /\ lru' \in Seq(Node) /\ refcount' \in [Node -> Int]
         /\ lease' \in [Lease -> Node \cup {None}]
         /\ lookup' \in [Key -> Node \cup {None}] /\ key' \in [Node -> Key \cup {None}]
         /\ Cached' = Cached \cup {n} /\ n \notin Cached
         /\ RefcountExact' /\ LruExact' /\ KeysAgree' /\ DroppedLow'
<1>1. /\ TypeOK /\ n # None /\ Cached \subseteq Node /\ n \notin Cached
      /\ \A m \in Cached : key[m] # None
  BY LruAssumption DEF LruInv, TypeOK, Cached, KeysAgree
<1>2. /\ lookup' \in [Key -> Node \cup {None}] /\ key' \in [Node -> Key \cup {None}]
      /\ lease' \in [Lease -> Node \cup {None}]
      /\ key'[n] = k /\ \A m \in Node : m # n => key'[m] = key[m]
      /\ lookup'[k] = n /\ \A j \in Key : j # k => lookup'[j] = lookup[j]
      /\ lease'[l] = n /\ \A m \in Lease : m # l => lease'[m] = lease[m]
  BY <1>1, Zenon DEF TypeOK
<1>3. /\ refcount' \in [Node -> Int] /\ refcount'[n] = 1
      /\ \A m \in Node : m # n => refcount'[m] = refcount[m]
  BY <1>1 DEF IncLeases, TypeOK
<1>4. Cached' = Cached \cup {n}
  BY <1>1, <1>2 DEF Cached
<1>5. Cardinality(Holders(n)') = 1
  <2>1. Holders(n) = {}
    BY <1>1, Zenon DEF Holders, LruInv, KeysAgree
  <2>2. Cardinality(Holders(n)) = 0
    BY <2>1, FS_EmptySet, Zenon
  <2>3. Cardinality(Holders(n)') = Cardinality(Holders(n)) + 1
    BY <1>1, HoldersAdd, Zenon
  <2> QED BY <2>2, <2>3
<1>6. RefcountExact'
  BY <1>1, <1>3, <1>4, <1>5, HoldersAdd, Zenon DEF LruInv, RefcountExact
<1>7. lru' \in Seq(Node) /\ LruExact'
  <2>1. lru' = lru
    BY <1>1, Zenon DEF IncLeases, Erase, LruInv, LruExact
  <2>2. {m \in Cached' : refcount'[m] = 0} = {m \in Cached : refcount[m] = 0}
    BY <1>1, <1>3, <1>4
  <2> QED BY <1>1, <2>1, <2>2, Zenon DEF LruInv, LruExact, TypeOK
<1>8. KeysAgree'
  <2>1. \A j \in Key : lookup'[j] # None => key'[lookup'[j]] = j
    <3>1. \A j \in Key : j # k /\ lookup[j] # None => lookup[j] \in Cached
      BY Zenon DEF Cached
    <3> QED BY <1>1, <1>2, <3>1 DEF LruInv, KeysAgree
  <2>2. \A m \in Lease : lease'[m] # None => key'[lease'[m]] # None
    BY LruAssumption, <1>1, <1>2 DEF LruInv, KeysAgree, TypeOK
  <2> QED BY <2>1, <2>2, Zenon DEF KeysAgree
<1>9. DroppedLow'
  BY <1>1, <1>2, <1>3, <1>4, Zenon DEF LruInv, DroppedLow
<1> QED BY <1>1, <1>2, <1>3, <1>4, <1>6, <1>7, <1>8, <1>9, Zenon

\* A lease is destroyed, whether its element is still in the cache or was evicted
\* through it.
LEMMA ReleaseStep ==
  ASSUME LruInv, NEW l \in Lease, lease[l] # None,
         DecLeases(lease[l]), lease' = [lease EXCEPT ![l] = None],
         UNCHANGED <<lookup, key>>
  PROVE  /\ lru' \in Seq(Node) /\ refcount' \in [Node -> Int]
         /\ lease' \in [Lease -> Node \cup {None}]
         /\ RefcountExact' /\ LruExact' /\ KeysAgree' /\ DroppedLow'
<1> DEFINE n == lease[l]
<1>1. TypeOK /\ n \in Node /\ Cached' = Cached /\ Cached \subseteq Node /\ key[n] # None
  BY LruAssumption DEF LruInv, TypeOK, Cached, KeysAgree
<1>2. /\ refcount' \in [Node -> Int] /\ refcount'[n] = refcount[n] - 1
      /\ \A m \in Node : m # n => refcount'[m] = refcount[m]
      /\ \A m \in Node : refcount[m] \in Int
  BY <1>1 DEF DecLeases, TypeOK
<1>3. lease' \in [Lease -> Node \cup {None}] /\ lease'[l] = None
      /\ \A m \in Lease : m # l => lease'[m] = lease[m]
  BY <1>1, Zenon DEF TypeOK
<1>4. /\ Cardinality(Holders(n)) = Cardinality({m \in Lease : lease'[m] = n}) + 1
      /\ \A m \in Node : m # n => Holders(m)' = Holders(m)
  BY <1>1, HoldersRemove, Zenon
<1>5. Cardinality({m \in Lease : lease'[m] = n}) \in Nat
  BY LruAssumption, FS_Subset, FS_CardinalityType, Zenon
<1>6. n \in Cached => refcount[n] > 0
  BY <1>4, <1>5 DEF LruInv, RefcountExact
<1>7. RefcountExact'
  <2> SUFFICES ASSUME NEW m \in Cached
               PROVE  refcount'[m] = Cardinality({i \in Lease : lease'[i] = m})
    BY <1>1, Zenon DEF RefcountExact, Holders
  <2>1. CASE m = n
    BY <1>1, <1>2, <1>4, <1>5, <2>1 DEF LruInv, RefcountExact
  <2>2. CASE m # n
    BY <1>1, <1>2, <1>4, <2>2, Zenon DEF LruInv, RefcountExact, Holders
  <2> QED BY <2>1, <2>2, Zenon
<1>8. lru' \in Seq(Node) /\ LruExact'
  <2>0. lru \in Seq(Node) /\ Distinct(lru) /\ Range1(lru) = {m \in Cached : refcount[m] = 0}
    BY Zenon DEF LruInv, LruExact, TypeOK
  <2>1. CASE refcount[n] - 1 = 0
    <3>1. n \in Cached
      BY <1>1, <1>2, <2>1 DEF LruInv, DroppedLow
    <3>2. n \notin Range1(lru)
      BY <2>0, <2>1
    <3>3. lru' = <<n>> \o lru
      BY <2>1, <3>2, Zenon DEF DecLeases, Erase
    <3>4. /\ <<n>> \o lru \in Seq(Node) /\ Distinct(<<n>> \o lru)
          /\ Range1(<<n>> \o lru) = Range1(lru) \cup {n}
      BY <1>1, <2>0, <3>2, PushFrontLemma
    <3>5. {m \in Cached : refcount'[m] = 0} = {m \in Cached : refcount[m] = 0} \cup {n}
      BY <1>1, <1>2, <2>1, <3>1, Zenon
    <3> QED BY <1>1, <2>0, <3>3, <3>4, <3>5, Zenon DEF LruExact
  <2>2. CASE refcount[n] - 1 # 0
    <3>1. lru' = lru
      BY <2>2, Zenon DEF DecLeases
    <3>2. {m \in Cached : refcount'[m] = 0} = {m \in Cached : refcount[m] = 0}
      BY <1>1, <1>2, <1>6, <2>2
    <3> QED BY <1>1, <2>0, <3>1, <3>2, Zenon DEF LruExact
  <2> QED BY <2>1, <2>2, Zenon
<1>9. KeysAgree' /\ DroppedLow'
  BY <1>1, <1>2, <1>3 DEF LruInv, KeysAgree, DroppedLow
<1> QED BY <1>2, <1>3, <1>7, <1>8, <1>9, Zenon

\* An element is taken out of the cache, by evict() or through its only lease.
LEMMA DropStep ==
  ASSUME LruInv, NEW n \in Cached, NEW q \in Seq(Node), Distinct(q),
         refcount' = [refcount EXCEPT ![n] = 0],
         Range1(q) = {m \in Cached : refcount'[m] = 0},
         Drop(n, q), UNCHANGED <<key, lease>>
  PROVE  /\ lru' \in Seq(Node) /\ refcount' \in [Node -> Int]
         /\ lookup' \in [Key -> Node \cup {None}]
         /\ Cached' = Cached \ {n} /\ key[n] \in Key /\ lookup[key[n]] = n
         /\ RefcountExact' /\ LruExact' /\ KeysAgree' /\ DroppedLow'
<1>1. TypeOK /\ n \in Node /\ n # None /\ Cached \subseteq Node
  BY LruAssumption DEF LruInv, TypeOK, Cached
<1>2. key[n] \in Key /\ lookup[key[n]] = n
  BY <1>1 DEF LruInv, KeysAgree, Cached
<1>3. /\ lookup' \in [Key -> Node \cup {None}] /\ lookup'[key[n]] = None
      /\ \A k \in Key : k # key[n] => lookup'[k] = lookup[k]
  BY <1>1, <1>2, Zenon DEF Drop, TypeOK
<1>4. /\ refcount' \in [Node -> Int] /\ refcount'[n] = 0
      /\ \A m \in Node : m # n => refcount'[m] = refcount[m]
  BY <1>1 DEF TypeOK
<1>5. Cached' = Cached \ {n}
  <2>1. \A k \in Key : k # key[n] => lookup[k] # n
    BY <1>1, Zenon DEF LruInv, KeysAgree
  <2> QED BY <1>1, <1>2, <1>3, <2>1 DEF Cached
<1>6. RefcountExact'
  BY <1>1, <1>4, <1>5 DEF LruInv, RefcountExact, Holders
<1>7. lru' \in Seq(Node) /\ LruExact'
  <2>1. lru' = Erase(q, n)
    BY Zenon DEF Drop
  <2>2. /\ Erase(q, n) \in Seq(Node) /\ Distinct(Erase(q, n))
        /\ Range1(Erase(q, n)) = Range1(q) \ {n}
    BY EraseLemma, Zenon
  <2>3. {m \in Cached' : refcount'[m] = 0} = Range1(q) \ {n}
    BY <1>5, Zenon
  <2> QED BY <2>1, <2>2, <2>3, Zenon DEF LruExact
<1>8. KeysAgree'
  BY <1>3, Zenon DEF LruInv, KeysAgree
<1>9. DroppedLow'
  BY <1>1, <1>4, <1>5 DEF LruInv, DroppedLow
<1> QED BY <1>1, <1>2, <1>3, <1>4, <1>5, <1>6, <1>7, <1>8, <1>9, Zenon

-----------------------------------------------------------------------------
LEMMA LruInit == Init => LruInv
<1> SUFFICES ASSUME Init PROVE LruInv
  BY Zenon
<1>1. TypeOK
  BY DEF Init, TypeOK
<1>2. Cached = {} /\ Waiting = {}
  BY Zenon DEF Init, Cached, Waiting
<1>3. lru = << >> /\ Distinct(lru) /\ Range1(lru) = {}
  BY DEF Init, Distinct, Range1
<1> QED BY <1>1, <1>2, <1>3, Zenon DEF Init, LruInv, RefcountExact, LruExact, KeysAgree,
           DroppedLow, SlotsOwn

LEMMA LruStep == LruInv /\ [Next]_vars => LruInv'
<1> SUFFICES ASSUME LruInv, [Next]_vars PROVE LruInv'
  BY Zenon
<1>0. TypeOK /\ SlotsOwn /\ Cached \subseteq Node
  BY LruAssumption DEF LruInv, TypeOK, Cached
<1>1. ASSUME NEW t \in Thread, NEW k \in Key, NEW l \in Lease, Hit(t, k, l) PROVE LruInv'
  <2>1. lookup[k] \in Cached /\ lease[l] = None /\ \A u \in Waiting : miss[u].slot # l
    BY <1>1, Zenon DEF Hit, Free, Cached
  <2>2. /\ IncLeases(lookup[k], refcount) /\ lease' = [lease EXCEPT ![l] = lookup[k]]
        /\ UNCHANGED <<lookup, key, miss, size_hint>>
    BY <1>1, Zenon DEF Hit
  <2>3. /\ lru' \in Seq(Node) /\ refcount' \in [Node -> Int]
        /\ lease' \in [Lease -> Node \cup {None}]
        /\ RefcountExact' /\ LruExact' /\ KeysAgree' /\ DroppedLow'
    BY <2>1, <2>2, AcquireStep, Zenon
  <2>4. TypeOK'
    BY <1>0, <2>2, <2>3, Zenon DEF TypeOK
  <2>5. SlotsOwn'
    BY <1>0, <2>1, <2>2, Zenon DEF SlotsOwn, Waiting, TypeOK
  <2> QED BY <2>3, <2>4, <2>5, Zenon DEF LruInv
<1>2. ASSUME NEW t \in Thread, NEW k \in Key, NEW l \in Lease, Miss(t, k, l) PROVE LruInv'
  <2>1. /\ lease[l] = None /\ \A u \in Waiting : miss[u].slot # l
        /\ miss[t] = None /\ miss' = [miss EXCEPT ![t] = [key |-> k, slot |-> l]]
        /\ UNCHANGED <<lookup, key, refcount, lru, lease, size_hint>>
    BY <1>2, Zenon DEF Miss, Free, cacheVars
  <2>2. TypeOK'
    BY <1>0, <2>1, Zenon DEF TypeOK
  <2>3. SlotsOwn'
    BY <1>0, <2>1, Zenon DEF SlotsOwn, Waiting, TypeOK
  <2>4. Cached' = Cached /\ \A n : Holders(n)' = Holders(n)
    BY <2>1, Zenon DEF Cached, Holders
  <2>5. RefcountExact' /\ LruExact' /\ KeysAgree' /\ DroppedLow'
    BY <2>1, <2>4, Zenon DEF LruInv, RefcountExact, LruExact, KeysAgree, DroppedLow
  <2> QED BY <2>2, <2>3, <2>5, Zenon DEF LruInv
<1>3. ASSUME NEW t \in Thread, Populated(t) PROVE LruInv'
  <2> DEFINE k == miss[t].key
             l == miss[t].slot
  <2>1. /\ miss[t] # None /\ miss' = [miss EXCEPT ![t] = None] /\ size_hint' = size_hint
        /\ t \in Waiting /\ k \in Key /\ l \in Lease /\ lease[l] = None
    BY <1>0, <1>3, Zenon DEF Populated, Waiting, TypeOK, SlotsOwn
  <2>2. ASSUME lease' \in [Lease -> Node \cup {None}], \A m \in Lease : m # l => lease'[m] = lease[m]
        PROVE  SlotsOwn'
    <3>1. Waiting' = Waiting \ {t} /\ \A u \in Waiting' : miss'[u] = miss[u]
      BY <1>0, <2>1, Zenon DEF Waiting, TypeOK
    <3>2. \A u \in Waiting' : miss[u].slot # l /\ miss[u].slot \in Lease
      BY <1>0, <2>1, <3>1 DEF SlotsOwn, Waiting, TypeOK
    <3> QED BY <1>0, <2>2, <3>1, <3>2 DEF SlotsOwn
  <2>3. CASE lookup[k] # None
    <3>1. /\ IncLeases(lookup[k], refcount) /\ lease' = [lease EXCEPT ![l] = lookup[k]]
          /\ UNCHANGED <<lookup, key>> /\ lookup[k] \in Cached
      BY <1>3, <2>1, <2>3, Zenon DEF Populated, Cached
    <3>2. /\ lru' \in Seq(Node) /\ refcount' \in [Node -> Int]
          /\ lease' \in [Lease -> Node \cup {None}]
          /\ RefcountExact' /\ LruExact' /\ KeysAgree' /\ DroppedLow'
      BY <2>1, <3>1, AcquireStep, Zenon
    <3>3. TypeOK'
      BY <1>0, <2>1, <3>1, <3>2, Zenon DEF TypeOK
    <3>4. SlotsOwn'
      BY <1>0, <2>2, <3>1, <3>2, Zenon DEF TypeOK
    <3> QED BY <3>2, <3>3, <3>4, Zenon DEF LruInv
  <2>4. CASE lookup[k] = None
    <3>1. PICK n \in Node :
               /\ key[n] = None /\ key' = [key EXCEPT ![n] = k]
               /\ lookup' = [lookup EXCEPT ![k] = n]
               /\ IncLeases(n, [refcount EXCEPT ![n] = 0])
               /\ lease' = [lease EXCEPT ![l] = n]
      BY <1>3, <2>4, Zenon DEF Populated
    <3>2. /\ lru' \in Seq(Node) /\ refcount' \in [Node -> Int]
          /\ lease' \in [Lease -> Node \cup {None}]
          /\ lookup' \in [Key -> Node \cup {None}] /\ key' \in [Node -> Key \cup {None}]
          /\ RefcountExact' /\ LruExact' /\ KeysAgree' /\ DroppedLow'
      <4> HIDE DEF k, l
      <4> QED BY <2>1, <2>4, <3>1, NewNodeStep, Zenon
    <3>3. TypeOK'
      BY <1>0, <2>1, <3>2, Zenon DEF TypeOK
    <3>4. SlotsOwn'
      BY <1>0, <2>2, <3>1, <3>2, Zenon DEF TypeOK
    <3> QED BY <3>2, <3>3, <3>4, Zenon DEF LruInv
  <2> QED BY <2>3, <2>4, Zenon
<1>4. ASSUME NEW l \in Lease, NEW m \in Lease, Inc(l, m) PROVE LruInv'
  <2>1. lease[l] \in Cached /\ lease[m] = None /\ \A u \in Waiting : miss[u].slot # m
    BY <1>4, Zenon DEF Inc, Free
  <2>2. /\ IncLeases(lease[l], refcount) /\ lease' = [lease EXCEPT ![m] = lease[l]]
        /\ UNCHANGED <<lookup, key, miss, size_hint>>
    BY <1>4, Zenon DEF Inc
  <2>3. /\ lru' \in Seq(Node) /\ refcount' \in [Node -> Int]
        /\ lease' \in [Lease -> Node \cup {None}]
        /\ RefcountExact' /\ LruExact' /\ KeysAgree' /\ DroppedLow'
    BY <2>1, <2>2, AcquireStep, Zenon
  <2>4. TypeOK'
    BY <1>0, <2>2, <2>3, Zenon DEF TypeOK
  <2>5. SlotsOwn'
    BY <1>0, <2>1, <2>2, Zenon DEF SlotsOwn, Waiting, TypeOK
  <2> QED BY <2>3, <2>4, <2>5, Zenon DEF LruInv
<1>5. ASSUME NEW l \in Lease, Release(l) PROVE LruInv'
  <2>1. /\ lease[l] # None /\ DecLeases(lease[l]) /\ lease' = [lease EXCEPT ![l] = None]
        /\ UNCHANGED <<lookup, key, miss, size_hint>>
    BY <1>5, Zenon DEF Release
  <2>2. /\ lru' \in Seq(Node) /\ refcount' \in [Node -> Int]
        /\ lease' \in [Lease -> Node \cup {None}]
        /\ RefcountExact' /\ LruExact' /\ KeysAgree' /\ DroppedLow'
    BY <2>1, ReleaseStep, Zenon
  <2>3. TypeOK'
    BY <1>0, <2>1, <2>2, Zenon DEF TypeOK
  <2>4. SlotsOwn'
    BY <1>0, <2>1, Zenon DEF SlotsOwn, Waiting, TypeOK
  <2> QED BY <2>2, <2>3, <2>4, Zenon DEF LruInv
<1>6. CASE EvictLast
  <2> DEFINE n == lru[Len(lru)]
  <2>1. /\ Drop(n, lru) /\ UNCHANGED <<key, refcount, lease, miss, size_hint>> /\ lru # << >>
    BY <1>6, Zenon DEF EvictLast, More
  <2>2. /\ lru \in Seq(Node) /\ Distinct(lru) /\ n \in Range1(lru)
        /\ Range1(lru) = {m \in Cached : refcount'[m] = 0}
    <3>1. lru \in Seq(Node) /\ Distinct(lru) /\ Range1(lru) = {m \in Cached : refcount'[m] = 0}
      BY <2>1, Zenon DEF LruInv, LruExact, TypeOK
    <3>2. Len(lru) \in 1..Len(lru)
      BY <2>1, <3>1
    <3> QED BY <3>1, <3>2, Zenon DEF Range1
  <2>3. n \in Cached /\ refcount' = [refcount EXCEPT ![n] = 0]
    BY <1>0, <2>1, <2>2, Zenon DEF TypeOK
  <2>4. /\ lru' \in Seq(Node) /\ refcount' \in [Node -> Int]
        /\ lookup' \in [Key -> Node \cup {None}]
        /\ RefcountExact' /\ LruExact' /\ KeysAgree' /\ DroppedLow'
    <3> HIDE DEF n
    <3> QED BY <2>1, <2>2, <2>3, DropStep, Zenon
  <2> QED BY <1>0, <2>1, <2>4, Zenon DEF LruInv, TypeOK, SlotsOwn, Waiting
<1>7. ASSUME NEW l \in Lease, EvictOne(l) PROVE LruInv'
  <2> DEFINE n == lease[l]
             q == <<n>> \o Erase(lru, n)
  <2>1. /\ n \in Cached /\ refcount[n] = 1 /\ refcount' = [refcount EXCEPT ![n] = 0]
        /\ Drop(n, q) /\ UNCHANGED <<key, lease, miss, size_hint>>
    BY <1>7, Zenon DEF EvictOne
  <2>2. q = <<n>> \o lru /\ n \notin Range1(lru)
    BY <2>1 DEF LruInv, LruExact, Erase
  <2>3. q \in Seq(Node) /\ Distinct(q) /\ Range1(q) = Range1(lru) \cup {n}
    <3>1. n \in Node /\ lru \in Seq(Node) /\ Distinct(lru)
      BY <1>0, <2>1, Zenon DEF LruInv, LruExact, TypeOK
    <3> HIDE DEF n, q
    <3> QED BY <2>2, <3>1, PushFrontLemma
  <2>4. Range1(q) = {m \in Cached : refcount'[m] = 0}
    BY <1>0, <2>1, <2>3, Zenon DEF LruInv, LruExact, TypeOK
  <2>5. /\ lru' \in Seq(Node) /\ refcount' \in [Node -> Int]
        /\ lookup' \in [Key -> Node \cup {None}]
        /\ RefcountExact' /\ LruExact' /\ KeysAgree' /\ DroppedLow'
    <3> HIDE DEF n, q
    <3> QED BY <2>1, <2>3, <2>4, DropStep, Zenon
  <2> QED BY <1>0, <2>1, <2>5, Zenon DEF LruInv, TypeOK, SlotsOwn, Waiting
<1>8. CASE EvictDone \/ (\E h \in Hint : Evict(h)) \/ UNCHANGED vars
  <2>1. UNCHANGED <<lookup, key, refcount, lru, lease, miss>> /\ size_hint' \in Hint \cup {None}
    BY <1>0, <1>8, Zenon DEF EvictDone, Evict, vars, cacheVars, TypeOK
  <2>2. Cached' = Cached /\ \A n \in Node : Holders(n)' = Holders(n)
    BY <2>1, Zenon DEF Cached, Holders
  <2>3. TypeOK'
    BY <1>0, <2>1, Zenon DEF TypeOK
  <2>4. RefcountExact' /\ LruExact'
    BY <1>0, <2>1, <2>2, LruAssumption DEF LruInv, RefcountExact, LruExact, Cached, TypeOK
  <2>5. KeysAgree' /\ DroppedLow' /\ SlotsOwn'
    BY <2>1, <2>2, Zenon DEF LruInv, KeysAgree, DroppedLow, SlotsOwn, Waiting
  <2> QED BY <2>3, <2>4, <2>5, Zenon DEF LruInv
<1> QED BY <1>1, <1>2, <1>3, <1>4, <1>5, <1>6, <1>7, <1>8, Zenon DEF Next

LEMMA LruAlways == Spec => []LruInv
BY LruInit, LruStep, PTL DEF Spec

\* The cache's tables keep their types, for any number of threads, leases and keys.
THEOREM LruTypes == Spec => []TypeOK
<1>1. LruInv => TypeOK
  BY Zenon DEF LruInv
<1> QED BY <1>1, LruAlways, PTL

\* The count of a cached element is the number of its leases, whichever threads took
\* them and however their misses overlapped.
THEOREM LruCounts == Spec => []RefcountExact
<1>1. LruInv => RefcountExact
  BY Zenon DEF LruInv
<1> QED BY <1>1, LruAlways, PTL

\* The list of evictable elements holds each element without a lease once, and no
\* element with one.
THEOREM LruListExact == Spec => []LruExact
<1>1. LruInv => LruExact
  BY Zenon DEF LruInv
<1> QED BY <1>1, LruAlways, PTL

-----------------------------------------------------------------------------
\* The abstract state, as LeaseSpec maps it.
InCache == {k \in Key : lookup[k] # None}
HeldKeys == [l \in Lease |-> IF lease[l] \in Cached THEN key[lease[l]] ELSE None]

\* The keys of two cached nodes differ.
LEMMA KeysDiffer ==
  ASSUME LruInv
  PROVE  /\ \A n \in Cached : n \in Node /\ n # None /\ key[n] \in Key /\ lookup[key[n]] = n
         /\ \A k \in Key : lookup[k] # None => lookup[k] \in Cached /\ key[lookup[k]] = k
BY LruAssumption DEF LruInv, KeysAgree, Cached, TypeOK

\* Filling in lease l with a node of key k is Get(l, k).
LEMMA AcquireRefines ==
  ASSUME LruInv, NEW n, n \in Cached', Cached' = Cached \cup {n},
         NEW k \in Key, key'[n] = k, InCache' = InCache \cup {k},
         NEW l \in Lease, lease[l] = None, lease' = [lease EXCEPT ![l] = n],
         \A m \in Lease : lease[m] # None => key'[lease[m]] = key[lease[m]],
         n \notin Cached => \A m \in Lease : lease[m] # n
  PROVE  LC!Next
<1>1. HeldKeys[l] = None
  BY LruAssumption, KeysDiffer, Zenon DEF HeldKeys
<1>2. lease \in [Lease -> Node \cup {None}] /\ None \notin Cached
  BY KeysDiffer, Zenon DEF LruInv, TypeOK
<1>3. HeldKeys' = [HeldKeys EXCEPT ![l] = k]
  BY <1>2, Zenon DEF HeldKeys
<1>4. LC!Get(l, k)
  BY <1>1, <1>3, Zenon DEF LC!Get, InCache, HeldKeys
<1> QED BY <1>4, Zenon DEF LC!Next

LEMMA LeaseInit == Init => LC!Init
BY Zenon DEF Init, LC!Init, Cached

LEMMA LeaseStep == LruInv /\ [Next]_vars => [LC!Next]_(LC!vars)
<1> SUFFICES ASSUME LruInv, [Next]_vars PROVE [LC!Next]_(LC!vars)
  BY Zenon
<1>0. TypeOK /\ SlotsOwn /\ KeysAgree
  BY Zenon DEF LruInv
<1>1. ASSUME NEW n \in Cached, NEW l \in Lease, lease[l] = None,
             lease' = [lease EXCEPT ![l] = n], UNCHANGED <<lookup, key>>
      PROVE  LC!Next
  <2>1. key[n] \in Key /\ lookup[key[n]] = n /\ n # None
    BY KeysDiffer, Zenon
  <2>2. Cached' = Cached /\ InCache' = InCache
    BY <1>1, Zenon DEF Cached, InCache
  <2>3. InCache' = InCache \cup {key[n]} /\ Cached' = Cached \cup {n} /\ n \in Cached'
    BY <2>1, <2>2, Zenon DEF InCache
  <2> QED BY <1>1, <2>1, <2>3, AcquireRefines, Zenon
<1>2. ASSUME NEW t \in Thread, NEW k \in Key, NEW l \in Lease, Hit(t, k, l) PROVE LC!Next
  <2>1. lookup[k] \in Cached
    BY <1>2, Zenon DEF Hit, Cached
  <2> QED BY <1>1, <1>2, <2>1, Zenon DEF Hit, Free
<1>3. ASSUME NEW l \in Lease, NEW m \in Lease, Inc(l, m) PROVE LC!Next
  BY <1>1, <1>3, Zenon DEF Inc, Free
<1>4. ASSUME NEW t \in Thread, Populated(t) PROVE LC!Next
  <2> DEFINE k == miss[t].key
             l == miss[t].slot
  <2>1. k \in Key /\ l \in Lease /\ lease[l] = None
    BY <1>0, <1>4, Zenon DEF Populated, Waiting, TypeOK, SlotsOwn
  <2>2. CASE lookup[k] # None
    <3>1. lookup[k] \in Cached
      BY <2>1, <2>2, Zenon DEF Cached
    <3> QED BY <1>1, <1>4, <2>1, <2>2, <3>1, Zenon DEF Populated
  <2>3. CASE lookup[k] = None
    <3>1. PICK n \in Node :
               /\ key[n] = None /\ key' = [key EXCEPT ![n] = k]
               /\ lookup' = [lookup EXCEPT ![k] = n]
               /\ IncLeases(n, [refcount EXCEPT ![n] = 0])
               /\ lease' = [lease EXCEPT ![l] = n]
      BY <1>4, <2>3, ZenonT(30) DEF Populated
    <3> HIDE DEF k, l
    <3>2. Cached' = Cached \cup {n} /\ n \notin Cached
      BY <2>1, <2>3, <3>1, NewNodeStep, Zenon
    <3>3. \A m \in Lease : lease[m] # n
      BY LruAssumption, <1>0, <3>1, Zenon DEF KeysAgree
    <3>4. key'[n] = k /\ \A m \in Lease : lease[m] # None => key'[lease[m]] = key[lease[m]]
      BY <1>0, <3>1, <3>3, Zenon DEF TypeOK
    <3>5. InCache' = InCache \cup {k}
      BY LruAssumption, <1>0, <2>1, <3>1, Zenon DEF InCache, TypeOK
    <3> QED BY <2>1, <3>1, <3>2, <3>3, <3>4, <3>5, AcquireRefines, Zenon
  <2> QED BY <2>2, <2>3, Zenon
<1>5. ASSUME NEW l \in Lease, Release(l) PROVE [LC!Next]_(LC!vars)
  <2>1. /\ lease[l] # None /\ lease' = [lease EXCEPT ![l] = None]
        /\ Cached' = Cached /\ InCache' = InCache /\ key' = key
        /\ lease \in [Lease -> Node \cup {None}] /\ None \notin Cached
    BY <1>0, <1>5, KeysDiffer DEF Release, Cached, InCache, TypeOK
  <2>2. HeldKeys' = [HeldKeys EXCEPT ![l] = None]
    BY <2>1, Zenon DEF HeldKeys
  <2>3. CASE lease[l] \in Cached
    <3>1. HeldKeys[l] # None
      BY LruAssumption, <2>3, KeysDiffer, Zenon DEF HeldKeys
    <3>2. LC!Release(l)
      BY <2>1, <2>2, <3>1, Zenon DEF LC!Release, HeldKeys, InCache
    <3> QED BY <3>2, Zenon DEF LC!Next
  <2>4. CASE lease[l] \notin Cached
    <3>1. HeldKeys' = HeldKeys
      BY <2>1, <2>4, Zenon DEF HeldKeys
    <3> QED BY <2>1, <3>1, Zenon DEF LC!vars, HeldKeys, InCache
  <2> QED BY <2>3, <2>4, Zenon
<1>6. CASE EvictLast
  <2> DEFINE n == lru[Len(lru)]
  <2>1. /\ Drop(n, lru) /\ UNCHANGED <<key, refcount, lease, miss, size_hint>> /\ lru # << >>
    BY <1>6 DEF EvictLast, More
  <2>2. lru \in Seq(Node) /\ Distinct(lru) /\ Range1(lru) = {m \in Cached : refcount[m] = 0}
    BY Zenon DEF LruInv, LruExact, TypeOK
  <2>3. n \in Cached /\ refcount[n] = 0
    <3>1. Len(lru) \in 1..Len(lru)
      BY <2>1, <2>2
    <3> QED BY <2>2, <3>1, Zenon DEF Range1
  <2> HIDE DEF n
  <2>4. refcount' = [refcount EXCEPT ![n] = 0]
    BY <1>0, <2>1, <2>3, KeysDiffer, Zenon DEF TypeOK
  <2>n. /\ n \in Node
        /\ Range1(lru) = {m \in Cached : refcount'[m] = 0}
    BY <1>0, <2>1, <2>2, <2>3, KeysDiffer, Zenon
  <2>5. Cached' = Cached \ {n} /\ key[n] \in Key /\ lookup[key[n]] = n
    BY <2>1, <2>2, <2>3, <2>4, <2>n, DropStep, Zenon
  <2>6. Holders(n) = {}
    BY <2>3, HoldersFinite, FS_EmptySet, Zenon DEF LruInv, RefcountExact
  <2>7. InCache' = InCache \ {key[n]} /\ key[n] \in InCache
    BY <1>0, <2>1, <2>5, <2>3, KeysDiffer, Zenon DEF InCache, Drop, TypeOK
  <2>8. \A m \in Lease : lease[m] # n
    BY <2>6, Zenon DEF Holders
  <2>9. HeldKeys' = HeldKeys
    BY <2>1, <2>5, <2>8, Zenon DEF HeldKeys
  <2>10. \A m \in Lease : HeldKeys[m] # key[n]
    BY LruAssumption, <2>3, <2>5, <2>8, KeysDiffer DEF HeldKeys
  <2>11. PICK k \in Key : k = key[n]
    BY <2>5, Zenon
  <2>12. LC!Evict(k)
    BY <2>7, <2>9, <2>10, <2>11, Zenon DEF LC!Evict, LC!Unheld, HeldKeys, InCache
  <2> QED BY <2>12, Zenon DEF LC!Next
<1>7. ASSUME NEW l \in Lease, EvictOne(l) PROVE LC!Next
  <2> DEFINE n == lease[l]
             q == <<n>> \o Erase(lru, n)
  <2>1. /\ n \in Cached /\ refcount[n] = 1 /\ refcount' = [refcount EXCEPT ![n] = 0]
        /\ Drop(n, q) /\ UNCHANGED <<key, lease>>
    BY <1>7, Zenon DEF EvictOne
  <2>2. \A m \in Lease : m # l => lease[m] # n
    <3>1. Cardinality(Holders(n)) = 1 /\ l \in Holders(n)
      BY <2>1, Zenon DEF LruInv, RefcountExact, Holders
    <3>2. PICK x : Holders(n) = {x}
      BY <3>1, HoldersFinite, FS_Singleton, Zenon
    <3> QED BY <3>1, <3>2, Zenon DEF Holders
  <2>3. lookup' = [lookup EXCEPT ![key[n]] = None] /\ n \in Node /\ n # None
        /\ key[n] \in Key /\ lookup[key[n]] = n
    BY <2>1, KeysDiffer, Zenon DEF Drop
  <2>4. InCache' = InCache \ {key[n]}
    BY <1>0, <2>3, Zenon DEF InCache, TypeOK
  <2>5. Cached' = Cached \ {n}
    BY <1>0, <2>3, KeysDiffer DEF Cached, TypeOK
  <2>6. HeldKeys' = [HeldKeys EXCEPT ![l] = None]
    BY <2>1, <2>2, <2>5, Zenon DEF HeldKeys
  <2>7. HeldKeys[l] = key[n] /\ key[n] # None
    BY LruAssumption, <2>1, <2>3, Zenon DEF HeldKeys
  <2>8. \A m \in Lease \ {l} : HeldKeys[m] # key[n]
    BY LruAssumption, <2>2, <2>3, KeysDiffer DEF HeldKeys
  <2>9. LC!EvictOne(l)
    BY <2>4, <2>6, <2>7, <2>8, Zenon DEF LC!EvictOne, HeldKeys, InCache
  <2> QED BY <2>9, Zenon DEF LC!Next
<1>8. ASSUME UNCHANGED <<lookup, key, lease>> PROVE [LC!Next]_(LC!vars)
  BY <1>8, Zenon DEF LC!vars, Cached
<1>9. CASE \/ EvictDone \/ (\E h \in Hint : Evict(h)) \/ UNCHANGED vars
           \/ \E t \in Thread, k \in Key, l \in Lease : Miss(t, k, l)
  BY <1>8, <1>9, Zenon DEF EvictDone, Evict, vars, cacheVars, Miss
<1> QED BY <1>2, <1>3, <1>4, <1>5, <1>6, <1>7, <1>9, Zenon DEF Next

\* LRUCache keeps the promise of lru.h:53 for any number of threads, leases and keys:
\* every step, of whichever thread, is a step of LeaseCache or changes nothing there.
THEOREM LeaseRefinement == Spec => LeaseSpec
BY LruAlways, LeaseInit, LeaseStep, PTL DEF Spec, LeaseSpec, LC!Spec
=============================================================================
