---------------------------- MODULE FilesProofs ---------------------------
(***************************************************************************)
(* The references of dentries and inodes are exact and descriptors sound,  *)
(* for every tree of directories, all paths and any number of processes.   *)
(* CountsExact and CacheExact are inductive with the types, UnhashOk (what *)
(* close() still has to take out of the cache) and Trail: the second       *)
(* lookup of creat() finds the dentries of the first.                      *)
(***************************************************************************)
EXTENDS Files, FiniteSetTheorems, WellFoundedInduction, TLAPS

-----------------------------------------------------------------------------
(* the invariant *)

\* The names of dentries; that of the root is on no path.
Name == STRING \cup {"<root>"}
DentryRecord == [parent : Dentry \cup {null}, inode : Clusters, name : Name, rc : Nat]

DentTypes ==
  /\ DOMAIN dent \subseteq Dentry /\ IsFiniteSet(DOMAIN dent)
  /\ \A d \in DOMAIN dent : dent[d] \in DentryRecord
  /\ root \in DOMAIN dent /\ dent[root].parent = null

Descriptor == [dentry : Dentry \cup {null}, offset : Nat]
FdTypes == /\ fds \in [Proc -> Seq(Descriptor)] /\ \A p \in Proc : Len(fds[p]) <= MaxFd
MapTypes == DOMAIN mapped = Proc /\ \A p \in Proc : DOMAIN mapped[p] \subseteq Slot

\* The call in progress; a table that is full is not opened into, and only close()
\* leaves deleted dentries in the cache.
CallTypes ==
  /\ op \in {"none", "open", "creat", "parent", "close"}
  /\ at \in Nat /\ path \in Seq(STRING)
  /\ it # null => it \in DOMAIN dent
  /\ op = "none" => it = null
  /\ op # "close" => unhash = <<>>
  /\ op = "open" => caller \in Proc /\ get_next_fd(fds[caller]) <= MaxFd

\* The deleted dentries that are still in the cache are those close() goes on with.
UnhashOk ==
  /\ unhash \in Seq([key : (Dentry \cup {null}) \X Name, dentry : Dentry])
  /\ \A i \in DOMAIN unhash : /\ unhash[i].key \in DOMAIN dcache
                              /\ dcache[unhash[i].key] = unhash[i].dentry
                              /\ unhash[i].dentry \notin DOMAIN dent
  /\ \A i, j \in DOMAIN unhash : i # j => unhash[i].key # unhash[j].key

\* A component leads from d to x through the dentries e and the cache h, or to nothing.
Goes(e, h, d, name, x) ==
  \/ Stays(name) /\ x = d
  \/ Rises(name) /\ x = (IF e[d].parent = null THEN d ELSE e[d].parent)
  \/ IsName(name) /\ <<d, name>> \in DOMAIN h /\ h[<<d, name>>] = x
Lacks(e, h, d, name) ==
  /\ IsName(name) /\ <<d, name>> \notin DOMAIN h
  /\ IsDir(e[d].inode) /\ lookup(e[d].inode, name) = null

\* What the first lookup of a call has passed is cached, so that the second finds the
\* same as far as the first came, and nothing behind.
Trail ==
  /\ trail \in Seq(DOMAIN dent) /\ Len(trail) > 0 /\ Len(trail) <= Len(path) + 1
  /\ trail[1] = root
  /\ \A k \in 1..(Len(trail) - 1) : Goes(dent, dcache, trail[k], path[k], trail[k + 1])
  /\ op # "parent" /\ it # null => at = Len(trail) - 1 /\ it = trail[Len(trail)]
  /\ op = "parent" \/ it = null =>
       Len(trail) <= Len(path) /\ Lacks(dent, dcache, trail[Len(trail)], path[Len(trail)])
  /\ op = "parent" /\ it # null => at < Len(trail) /\ it = trail[at + 1]

Stopped == panic # "none" => panic = "is_directory" /\ Looking /\ it # null /\ ~IsDir(dent[it].inode)

FilesInv ==
  /\ DentTypes /\ FdTypes /\ MapTypes /\ CallTypes /\ UnhashOk
  /\ CountsExact /\ CacheExact /\ (Looking => Trail) /\ Stopped

-----------------------------------------------------------------------------
(* sets that differ by an element *)

LEMMA OneMore ==
  ASSUME NEW S, NEW T, NEW x, IsFiniteSet(S), x \notin S, x \in T, \A y : y # x => (y \in T <=> y \in S)
  PROVE  IsFiniteSet(T) /\ Cardinality(T) = Cardinality(S) + 1
<1>1. T = S \cup {x}
  BY Zenon
<1>. QED
  BY <1>1, FS_AddElement, Zenon

LEMMA Numbers ==
  ASSUME NEW S, IsFiniteSet(S)
  PROVE  Cardinality(S) \in Nat /\ (Cardinality(S) = 0 <=> S = {})
BY FS_CardinalityType, FS_EmptySet, Zenon

LEMMA PutIs ==
  ASSUME NEW f, NEW k, NEW v
  PROVE  /\ DOMAIN Put(f, k, v) = DOMAIN f \cup {k} /\ Put(f, k, v)[k] = v
         /\ \A x \in DOMAIN f : x # k => Put(f, k, v)[x] = f[x]
BY Zenon DEF Put

LEMMA DropIs ==
  ASSUME NEW f, NEW k
  PROVE  /\ DOMAIN Drop(f, k) = DOMAIN f \ {k} /\ \A x \in DOMAIN f \ {k} : Drop(f, k)[x] = f[x]
BY Zenon DEF Drop

-----------------------------------------------------------------------------
(* who holds a dentry *)

\* Two sets of dentries that differ in counts only.
SameTree(e, f) ==
  /\ DOMAIN f = DOMAIN e
  /\ \A d \in DOMAIN e : f[d].parent = e[d].parent /\ f[d].inode = e[d].inode /\ f[d].name = e[d].name

LEMMA IncRcIs ==
  ASSUME NEW e, NEW d \in DOMAIN e, \A x \in DOMAIN e : e[x] \in DentryRecord
  PROVE  /\ SameTree(e, inc_rc(e, d)) /\ \A x \in DOMAIN e : inc_rc(e, d)[x] \in DentryRecord
         /\ inc_rc(e, d)[d].rc = e[d].rc + 1
         /\ \A x \in DOMAIN e : x # d => inc_rc(e, d)[x] = e[x]
BY DEF inc_rc, SameTree, DentryRecord

LEMMA SameChildren ==
  ASSUME SameTree(dent, dent')
  PROVE  /\ \A d : ChildrenOf(d)' = ChildrenOf(d) /\ DentriesOf(d)' = DentriesOf(d)
         /\ \A d \in DOMAIN dent : KeyOf(d)' = KeyOf(d)
BY Zenon DEF SameTree, ChildrenOf, DentriesOf, KeyOf

LEMMA FileIs ==
  ASSUME FdTypes
  PROVE  /\ \A d : d # null =>
              \A o : o \in FilesOf(d) <=> /\ o \in Proc \X (1..MaxFd) /\ o[2] \in DOMAIN fds[o[1]]
                                          /\ fds[o[1]][o[2]].dentry = d
         /\ \A p \in Proc : \A k \in DOMAIN fds[p] : k \in 1..MaxFd
         /\ \A o : o \in OpenFiles <=> /\ o \in Proc \X (1..MaxFd) /\ o[2] \in DOMAIN fds[o[1]]
                                       /\ fds[o[1]][o[2]].dentry # null
<1>1. \A o : o \in OpenFiles <=> o \in Proc \X (1..MaxFd) /\ o[2] \in DOMAIN fds[o[1]]
                                   /\ fds[o[1]][o[2]].dentry # null
  BY DEF OpenFiles, BadFD
<1>2. \A p \in Proc : \A k \in DOMAIN fds[p] : k \in 1..MaxFd
  BY FilesAssumption DEF FdTypes
<1>. QED
  BY <1>1, <1>2, Zenon DEF FilesOf

\* The users of a dentry are finitely many.
LEMMA FewUsers ==
  ASSUME DentTypes
  PROVE  \A d : /\ IsFiniteSet(ChildrenOf(d)) /\ IsFiniteSet(FilesOf(d)) /\ IsFiniteSet(MapsOf(d))
                /\ IsFiniteSet(DentriesOf(d))
<1>1. IsFiniteSet(Proc \X (1..MaxFd)) /\ IsFiniteSet(Proc \X Slot)
  <2>1. IsFiniteSet(1..MaxFd)
    <3>1. MaxFd \in Int /\ 1 \in Int
      BY FilesAssumption
    <3>. QED
      BY <3>1, FS_Interval, Zenon
  <2>. QED
    BY <2>1, FilesAssumption, FS_Product, Zenon
<1>2. \A d : FilesOf(d) \in SUBSET (Proc \X (1..MaxFd)) /\ MapsOf(d) \in SUBSET (Proc \X Slot)
  BY Zenon DEF FilesOf, MapsOf, OpenFiles
<1>3. \A d : ChildrenOf(d) \in SUBSET DOMAIN dent /\ DentriesOf(d) \in SUBSET DOMAIN dent
  BY Zenon DEF ChildrenOf, DentriesOf
<1>4. IsFiniteSet(DOMAIN dent)
  BY Zenon DEF DentTypes
<1>. QED
  BY <1>1, <1>2, <1>3, <1>4, FS_Subset, Zenon

-----------------------------------------------------------------------------
(* what a step leaves as it is *)

Exact == DentTypes /\ FdTypes /\ MapTypes /\ UnhashOk /\ CountsExact /\ CacheExact

LEMMA InvParts == FilesInv <=> Exact /\ CallTypes /\ (Looking => Trail) /\ Stopped
BY Zenon DEF FilesInv, Exact

\* A step that only goes on with its lookup.
LEMMA Quiet ==
  ASSUME Exact, UNCHANGED <<dent, inode, dcache, fds, mapped, unhash>>, Pending' = Pending
  PROVE  Exact'
<1>1. dent' = dent /\ inode' = inode /\ dcache' = dcache /\ fds' = fds /\ mapped' = mapped /\ unhash' = unhash
  BY Zenon
<1>2. DentTypes' /\ FdTypes' /\ MapTypes'
  BY <1>1, Zenon DEF Exact, DentTypes, FdTypes, MapTypes
<1>3. UnhashOk'
  BY <1>1, Zenon DEF Exact, UnhashOk
<1>4. OpenFiles' = OpenFiles
  BY <1>1, Zenon DEF OpenFiles, BadFD
<1>5. \A d : /\ ChildrenOf(d)' = ChildrenOf(d) /\ FilesOf(d)' = FilesOf(d) /\ MapsOf(d)' = MapsOf(d)
             /\ DentriesOf(d)' = DentriesOf(d) /\ KeyOf(d)' = KeyOf(d)
  BY <1>1, <1>4, Zenon DEF ChildrenOf, FilesOf, MapsOf, DentriesOf, KeyOf
<1>6. CountsExact'
  BY <1>1, <1>4, <1>5, Zenon DEF Exact, CountsExact
<1>7. \A d : (InCache(d)' <=> InCache(d)) /\ (OnDisk(d)' <=> OnDisk(d)) /\ (Leaving(d)' <=> Leaving(d)) /\ (Living(d)' <=> Living(d))
  BY <1>1, <1>5, Zenon DEF InCache, OnDisk, Leaving, Living, KeyOf
<1>8. CacheExact'
  BY <1>1, <1>5, <1>7, Zenon DEF Exact, CacheExact
<1>. QED
  BY <1>2, <1>3, <1>6, <1>8, Zenon DEF Exact

\* A step that changes counts keeps the caches.
LEMMA CachesKept ==
  ASSUME DentTypes, CacheExact, UnhashOk, SameTree(dent, dent'), UNCHANGED <<inode, dcache, unhash>>
  PROVE  CacheExact' /\ UnhashOk'
<1>1. inode' = inode /\ dcache' = dcache /\ unhash' = unhash
  BY Zenon
<1>2. DOMAIN dent' = DOMAIN dent
  BY Zenon DEF SameTree
<1>3. /\ \A d : DentriesOf(d)' = DentriesOf(d)
      /\ \A d \in DOMAIN dent : KeyOf(d)' = KeyOf(d)
  BY SameChildren, Zenon
<1>4. \A d \in DOMAIN dent : dent'[d].parent = dent[d].parent /\ dent'[d].inode = dent[d].inode
                               /\ dent'[d].name = dent[d].name
  BY Zenon DEF SameTree
<1>5. UnhashOk'
  BY <1>1, <1>2, Zenon DEF UnhashOk
<1>6. CacheExact'
  <2>1. \A d \in DOMAIN dent \ {root} : InCache(d)'
    BY <1>1, <1>3, Zenon DEF CacheExact, InCache
  <2>2. \A d \in DOMAIN dent \ {root} : OnDisk(d)'
    BY <1>2, <1>4, Zenon DEF CacheExact, OnDisk
  <2>3. \A k \in DOMAIN dcache : Living(k)' \/ Leaving(k)'
    <3>1. \A k : Leaving(k)' <=> Leaving(k)
      BY <1>1, Zenon DEF Leaving
    <3>2. \A k : Living(k) => Living(k)'
      BY <1>1, <1>2, <1>4, Zenon DEF Living, KeyOf
    <3>. QED
      BY <3>1, <3>2, Zenon DEF CacheExact
  <2>4. \A d \in DOMAIN dent' : dent'[d].inode \in DOMAIN inode'
    BY <1>1, <1>2, <1>4, Zenon DEF CacheExact
  <2>5. \A c \in DOMAIN inode' : DentriesOf(c)' # {} /\ inode'[c] = Cardinality(DentriesOf(c)')
    BY <1>1, <1>3, Zenon DEF CacheExact
  <2>. QED
    BY <1>1, <1>2, <2>1, <2>2, <2>3, <2>4, <2>5, Zenon DEF CacheExact
<1>. QED
  BY <1>5, <1>6

\* A reference more, and who holds it: the count of d grows with one of its users.
LEMMA Counted ==
  ASSUME NEW d \in DOMAIN dent, DentTypes, CountsExact, MapTypes, FdTypes,
         dent' = inc_rc(dent, d), Pending' = null, Pending = null
  PROVE  /\ DentTypes' /\ SameTree(dent, dent')
         /\ \A x : ChildrenOf(x)' = ChildrenOf(x)
         /\ \A x \in DOMAIN dent : x # d => dent'[x].rc = dent[x].rc
         /\ dent'[d].rc = dent[d].rc + 1
         /\ d # null
<1>1. \A x \in DOMAIN dent : dent[x] \in DentryRecord
  BY Zenon DEF DentTypes
<1>2. /\ SameTree(dent, dent') /\ \A x \in DOMAIN dent : dent'[x] \in DentryRecord
      /\ dent'[d].rc = dent[d].rc + 1 /\ \A x \in DOMAIN dent : x # d => dent'[x] = dent[x]
  BY <1>1, IncRcIs, Zenon
<1>3. \A x : ChildrenOf(x)' = ChildrenOf(x)
  BY <1>2, SameChildren, Zenon
<1>4. DentTypes'
  BY <1>2, Zenon DEF DentTypes, SameTree
<1>5. d # null
  BY FilesAssumption, Zenon DEF DentTypes
<1>. QED
  BY <1>2, <1>3, <1>4, <1>5, Zenon

\* A step that changes nothing, or fails an assertion where it may.
LEMMA Still ==
  ASSUME FilesInv, UNCHANGED <<dent, inode, dcache, fds, mapped, op, caller, path, at, it, trail, unhash>>, Stopped'
  PROVE  FilesInv'
<1>1. /\ dent' = dent /\ inode' = inode /\ dcache' = dcache /\ fds' = fds /\ mapped' = mapped /\ op' = op
      /\ caller' = caller /\ path' = path /\ at' = at /\ it' = it /\ trail' = trail /\ unhash' = unhash
  BY Zenon
<1>2. Exact'
  <2>1. Pending' = Pending
    BY <1>1, Zenon DEF Pending
  <2>. QED
    BY <1>1, <2>1, Quiet, InvParts, Zenon
<1>3. CallTypes'
  BY <1>1, InvParts, Zenon DEF CallTypes
<1>4. (Looking' <=> Looking) /\ (Looking => Trail')
  <2>1. Looking' <=> Looking
    BY <1>1, Zenon DEF Looking
  <2>. QED
    BY <1>1, <2>1, InvParts, Zenon DEF Trail
<1>. QED
  BY <1>2, <1>3, <1>4, Zenon DEF FilesInv, Exact

\* A call returns.
LEMMA FinishKeeps ==
  ASSUME FilesInv, panic = "none", Finish, Pending = null, unhash = <<>>, UNCHANGED <<dent, inode, dcache, fds>>
  PROVE  FilesInv'
<1>1. /\ op' = "none" /\ path' = <<>> /\ at' = 0 /\ it' = null /\ mapped' = mapped /\ panic' = panic /\ unhash' = unhash
  BY Zenon DEF Finish
<1>2. Exact'
  <2>1. Pending' = Pending
    BY <1>1, Zenon DEF Pending
  <2>. QED
    BY <1>1, <2>1, Quiet, InvParts, Zenon
<1>3. CallTypes'
  <2>1. 0 \in Nat /\ <<>> \in Seq(STRING)
    OBVIOUS
  <2>. QED
    BY <1>1, <2>1 DEF CallTypes
<1>4. ~Looking' /\ Stopped'
  BY <1>1 DEF Looking, Stopped
<1>. QED
  BY <1>2, <1>3, <1>4, Zenon DEF FilesInv, Exact

-----------------------------------------------------------------------------
(* lookups *)

LEMMA LookingIs ==
  ASSUME CallTypes, Looking
  PROVE  op # "close" /\ op # "none" /\ Pending = null /\ unhash = <<>>
BY DEF CallTypes, Looking, Pending

\* A component leads to one dentry at most, and not where it leads to none.
LEMMA GoesOnce ==
  ASSUME NEW e, NEW h, NEW d, NEW n, NEW x, Goes(e, h, d, n, x)
  PROVE  ~Lacks(e, h, d, n) /\ \A y : Goes(e, h, d, n, y) => y = x
<1>1. ~(Stays(n) /\ Rises(n))
  BY Zenon DEF Stays, Rises
<1>2. ~Lacks(e, h, d, n)
  BY Zenon DEF Goes, Lacks, IsName
<1>3. ASSUME NEW y, Goes(e, h, d, n, y) PROVE y = x
  BY <1>1, <1>3 DEF Goes, IsName
<1>. QED
  BY <1>2, <1>3

\* The first lookup of a call goes on.
LEMMA TrailGrows ==
  ASSUME CallTypes, Trail, Looking, op # "parent", it # null, at < Len(path), NEW x,
         op' = op, path' = path, at' = at + 1, it' = x, trail' = Append(trail, x),
         x \in DOMAIN dent', x # null, DOMAIN dent \subseteq DOMAIN dent',
         \A d \in DOMAIN dent : \A n, y : Goes(dent, dcache, d, n, y) => Goes(dent', dcache', d, n, y),
         Goes(dent', dcache', it, path[at + 1], x)
  PROVE  Trail'
<1>. DEFINE m == Len(trail)
<1>1. /\ trail \in Seq(DOMAIN dent) /\ m \in Nat /\ m > 0 /\ at = m - 1 /\ it = trail[m] /\ m <= Len(path)
      /\ Len(path) \in Nat /\ trail[1] = root
  BY DEF Trail, CallTypes
<1>2. /\ trail' \in Seq(DOMAIN dent') /\ Len(trail') = m + 1 /\ trail'[m + 1] = x
      /\ \A k \in 1..m : trail'[k] = trail[k]
  BY <1>1
<1>3. \A k \in 1..m : Goes(dent', dcache', trail'[k], path[k], trail'[k + 1])
  <2>1. ASSUME NEW k \in 1..(m - 1) PROVE Goes(dent', dcache', trail[k], path[k], trail[k + 1])
    <3>1. Goes(dent, dcache, trail[k], path[k], trail[k + 1])
      BY <1>1, <2>1, Zenon DEF Trail
    <3>2. trail[k] \in DOMAIN dent
      BY <1>1
    <3>. QED
      BY <3>1, <3>2, Zenon
  <2>2. ASSUME NEW k \in 1..(m - 1) PROVE Goes(dent', dcache', trail'[k], path[k], trail'[k + 1])
    <3>1. trail'[k] = trail[k] /\ trail'[k + 1] = trail[k + 1]
      BY <1>1, <1>2
    <3>. QED
      BY <2>1, <3>1, Zenon
  <2>3. Goes(dent', dcache', trail'[m], path[m], trail'[m + 1])
    <3>1. trail'[m] = it /\ at + 1 = m
      BY <1>1, <1>2
    <3>. QED
      BY <1>2, <3>1, Zenon
  <2>4. \A k \in 1..m : k \in 1..(m - 1) \/ k = m
    BY <1>1
  <2>. QED
    BY <2>2, <2>3, <2>4, Zenon
<1>4. Len(trail') > 0 /\ Len(trail') <= Len(path') + 1 /\ Len(trail') - 1 = m /\ at' = m /\ trail'[1] = root
  BY <1>1, <1>2
<1>. QED
  BY <1>2, <1>3, <1>4, Zenon DEF Trail

\* A component that is cached, and one that leads nowhere, in either lookup.
LEMMA TrailFollows ==
  ASSUME CallTypes, Trail, Looking, ~LookupDone, NEW x, GoTo(x), UNCHANGED <<dent, dcache>>,
         x \in DOMAIN dent, x # null, Goes(dent, dcache, it, path[at + 1], x)
  PROVE  Trail'
<1>0. /\ dent' = dent /\ dcache' = dcache /\ op' = op /\ path' = path /\ at' = at + 1 /\ it' = x
      /\ trail' = IF op = "parent" \/ x = null THEN trail ELSE Append(trail, x)
  BY Zenon DEF GoTo
<1>00. it # null /\ at < PathLen
  BY SMT DEF LookupDone, PathLen, CallTypes
<1>1. CASE op # "parent"
  <2>1. at < Len(path)
    BY <1>00, <1>1, Zenon DEF PathLen
  <2>2. trail' = Append(trail, x)
    BY <1>0, <1>1, Zenon
  <2>. QED
    BY <1>0, <1>00, <1>1, <2>1, <2>2, TrailGrows, Zenon
<1>2. CASE op = "parent"
  <2>1. trail' = trail
    BY <1>0, <1>2, Zenon
  <2>2. /\ Len(trail) \in Nat /\ at \in Nat /\ at < Len(trail) /\ it = trail[at + 1]
        /\ Lacks(dent, dcache, trail[Len(trail)], path[Len(trail)]) /\ Len(trail) > 0
    BY <1>00, <1>2 DEF Trail, CallTypes
  <2>3. ~Lacks(dent, dcache, it, path[at + 1]) /\ \A y : Goes(dent, dcache, it, path[at + 1], y) => y = x
    BY GoesOnce, Zenon
  <2>4. at + 1 # Len(trail)
    BY <2>2, <2>3, Zenon
  <2>5. at + 1 < Len(trail) /\ at + 1 \in 1..(Len(trail) - 1)
    BY <2>2, <2>4
  <2>6. Goes(dent, dcache, trail[at + 1], path[at + 1], trail[(at + 1) + 1])
    BY <2>5, Zenon DEF Trail
  <2>7. x = trail[(at + 1) + 1]
    BY <2>2, <2>3, <2>6, Zenon
  <2>. QED
    BY <1>0, <1>00, <1>2, <2>1, <2>5, <2>7, Zenon DEF Trail
<1>. QED
  BY <1>1, <1>2

LEMMA TrailEnds ==
  ASSUME CallTypes, Trail, Looking, ~LookupDone, GoTo(null), UNCHANGED <<dent, dcache>>,
         Lacks(dent, dcache, it, path[at + 1])
  PROVE  Trail'
<1>0. /\ dent' = dent /\ dcache' = dcache /\ op' = op /\ path' = path /\ at' = at + 1 /\ it' = null
      /\ trail' = trail
  BY Zenon DEF GoTo
<1>00. it # null /\ at < PathLen
  BY SMT DEF LookupDone, PathLen, CallTypes
<1>1. CASE op # "parent"
  <2>1. at = Len(trail) - 1 /\ it = trail[Len(trail)] /\ Len(trail) \in Nat /\ Len(path) \in Nat
    BY <1>00, <1>1 DEF Trail, CallTypes
  <2>2. at + 1 = Len(trail) /\ Len(trail) <= Len(path)
    BY <1>00, <1>1, <2>1 DEF PathLen
  <2>3. Lacks(dent, dcache, trail[Len(trail)], path[Len(trail)])
    BY <2>1, <2>2, Zenon
  <2>. QED
    BY <1>0, <1>1, <2>2, <2>3, Zenon DEF Trail
<1>2. CASE op = "parent"
  BY <1>0, <1>2, Zenon DEF Trail
<1>. QED
  BY <1>1, <1>2

\* The call is the same one after a component.
LEMMA GoToCall ==
  ASSUME FilesInv, panic = "none", Looking, NEW x, GoTo(x), x # null => x \in DOMAIN dent'
  PROVE  CallTypes' /\ Looking' /\ Stopped' /\ Pending' = Pending
<1>0. /\ op' = op /\ caller' = caller /\ path' = path /\ at' = at + 1 /\ it' = x /\ panic' = panic
      /\ fds' = fds /\ unhash' = unhash
  BY Zenon DEF GoTo
<1>1. CallTypes
  BY Zenon DEF FilesInv
<1>2. op # "close" /\ op # "none"
  BY <1>1, LookingIs, Zenon
<1>3. CallTypes'
  <2>1. at' \in Nat
    BY <1>0, <1>1 DEF CallTypes
  <2>. QED
    BY <1>0, <1>1, <1>2, <2>1, Zenon DEF CallTypes
<1>4. Looking' /\ Pending' = Pending
  BY <1>0, <1>2, Zenon DEF Looking, Pending
<1>5. Stopped'
  BY <1>0, Zenon DEF Stopped
<1>. QED
  BY <1>3, <1>4, <1>5

\* A dentry for a child that was not cached: Dentry::Dentry().
LEMMA NewDentryKeeps ==
  ASSUME FilesInv, panic = "none", Looking, ~LookupDone, op # "parent", NEW q, q = it, NEW name, name = path[at + 1],
         IsName(name), <<it, name>> \notin DOMAIN dcache, IsDir(dent[it].inode),
         NEW c, c = lookup(dent[it].inode, name), c # null, NEW d \in Dentry, d \notin DOMAIN dent,
         dent' = Put(inc_rc(dent, it), d, [parent |-> it, inode |-> c, name |-> name, rc |-> 0]),
         dcache' = Put(dcache, <<it, name>>, d),
         inode' = Put(inode, c, IF c \in DOMAIN inode THEN inode[c] + 1 ELSE 1), GoTo(d)
  PROVE  FilesInv'
<1>0. /\ DentTypes /\ FdTypes /\ MapTypes /\ CallTypes /\ UnhashOk /\ CountsExact /\ CacheExact /\ Trail
  BY Zenon DEF FilesInv
<1>1. /\ it # null /\ it \in DOMAIN dent /\ at < Len(path) /\ at \in Nat /\ path \in Seq(STRING)
      /\ name \in Name /\ Len(path) \in Nat
  <2>1. /\ it # null /\ at \in Nat /\ path \in Seq(STRING) /\ Len(path) \in Nat
    BY <1>0 DEF LookupDone, CallTypes
  <2>2. at < Len(path)
    BY <2>1 DEF LookupDone, PathLen
  <2>3. at + 1 \in DOMAIN path
    BY <2>1, <2>2
  <2>4. name \in Name
    <3>1. name \in STRING
      BY <2>1, <2>3
    <3>. QED
      BY <3>1, Zenon DEF Name
  <2>. QED
    BY <1>0, <2>1, <2>2, <2>4, Zenon DEF CallTypes
<1>2. d # it /\ d # root /\ d # null /\ Pending = null /\ unhash = <<>>
  BY <1>0, <1>1, FilesAssumption, LookingIs, Zenon DEF DentTypes
<1>3. c \in Clusters
  BY FilesAssumption, Zenon DEF lookup, IsDir
<1>. DEFINE e == inc_rc(dent, it)
<1>4. /\ SameTree(dent, e) /\ e[it].rc = dent[it].rc + 1 /\ DOMAIN e = DOMAIN dent
      /\ \A x \in DOMAIN dent : e[x] \in DentryRecord /\ (x # it => e[x] = dent[x])
  BY <1>0, <1>1, IncRcIs, Zenon DEF DentTypes, SameTree
<1>5. /\ DOMAIN dent' = DOMAIN dent \cup {d}
      /\ dent'[d] = [parent |-> it, inode |-> c, name |-> name, rc |-> 0]
      /\ \A x \in DOMAIN dent : dent'[x] = e[x]
  <2>. DEFINE new == [parent |-> it, inode |-> c, name |-> name, rc |-> 0]
  <2>1. dent' = Put(e, d, new)
    OBVIOUS
  <2>. HIDE DEF e, new
  <2>2. /\ DOMAIN Put(e, d, new) = DOMAIN e \cup {d} /\ Put(e, d, new)[d] = new
        /\ \A x \in DOMAIN e : x # d => Put(e, d, new)[x] = e[x]
    BY DEF Put
  <2>3. dent'[d] = new /\ DOMAIN dent' = DOMAIN dent \cup {d} /\ \A x \in DOMAIN dent : dent'[x] = e[x]
    BY <1>4, <2>1, <2>2, Zenon
  <2>. QED
    BY <2>3, Zenon DEF new
<1>. HIDE DEF e
<1>6. /\ dent'[d].parent = it /\ dent'[d].inode = c /\ dent'[d].name = name /\ dent'[d].rc = 0
      /\ dent'[d] \in DentryRecord
  BY <1>0, <1>1, <1>3, <1>5 DEF DentryRecord, DentTypes
<1>7. \A x \in DOMAIN dent : /\ dent'[x].parent = dent[x].parent /\ dent'[x].inode = dent[x].inode
                             /\ dent'[x].name = dent[x].name /\ dent'[x] \in DentryRecord
                             /\ (x # it => dent'[x].rc = dent[x].rc)
  BY <1>4, <1>5, ZenonT(30) DEF SameTree
<1>8. dent'[it].rc = dent[it].rc + 1
  BY <1>1, <1>4, <1>5, Zenon
<1>9. DentTypes'
  <2>1. IsFiniteSet(DOMAIN dent')
    BY <1>0, <1>5, FS_AddElement, ZenonT(30) DEF DentTypes
  <2>. QED
    BY <1>0, <1>5, <1>6, <1>7, <2>1, Zenon DEF DentTypes
<1>10. /\ fds' = fds /\ mapped' = mapped /\ unhash' = unhash /\ op' = op /\ path' = path /\ at' = at + 1
       /\ it' = d /\ trail' = Append(trail, d)
  BY <1>2, Zenon DEF GoTo
<1>11. FdTypes' /\ MapTypes'
  BY <1>0, <1>10, Zenon DEF FdTypes, MapTypes
<1>12. UnhashOk'
  BY <1>0, <1>2, <1>10 DEF UnhashOk
<1>13. CallTypes' /\ Looking' /\ Stopped' /\ Pending' = null
  BY <1>2, <1>5, GoToCall, Zenon
<1>14. /\ DOMAIN dcache' = DOMAIN dcache \cup {<<it, name>>} /\ dcache'[<<it, name>>] = d
       /\ \A k \in DOMAIN dcache : dcache'[k] = dcache[k]
  <2>. DEFINE key == <<it, name>>
  <2>1. dcache' = Put(dcache, key, d) /\ key \notin DOMAIN dcache
    OBVIOUS
  <2>. HIDE DEF key
  <2>2. /\ DOMAIN Put(dcache, key, d) = DOMAIN dcache \cup {key} /\ Put(dcache, key, d)[key] = d
        /\ \A k \in DOMAIN dcache : k # key => Put(dcache, key, d)[k] = dcache[k]
    BY DEF Put
  <2>3. /\ DOMAIN dcache' = DOMAIN dcache \cup {key} /\ dcache'[key] = d
        /\ \A k \in DOMAIN dcache : dcache'[k] = dcache[k]
    BY <2>1, <2>2, Zenon
  <2>. QED
    BY <2>3 DEF key
<1>17. Trail'
  <2>2. ASSUME NEW x \in DOMAIN dent, NEW n, NEW y, Goes(dent, dcache, x, n, y)
        PROVE  Goes(dent', dcache', x, n, y)
    BY <1>7, <1>14, <2>2, Zenon DEF Goes
  <2>3. Goes(dent', dcache', it, path[at + 1], d)
    BY <1>14, Zenon DEF Goes
  <2>4. DOMAIN dent \subseteq DOMAIN dent' /\ d \in DOMAIN dent'
    BY <1>5, Zenon
  <2>. QED
    BY <1>0, <1>1, <1>2, <1>10, <2>2, <2>3, <2>4, TrailGrows, Zenon
<1>15. CountsExact'
  <2>1. OpenFiles' = OpenFiles /\ \A x : FilesOf(x)' = FilesOf(x) /\ MapsOf(x)' = MapsOf(x)
    <3>1. OpenFiles' = OpenFiles
      BY <1>10, Zenon DEF OpenFiles, BadFD
    <3>. QED
      BY <1>10, <3>1, Zenon DEF FilesOf, MapsOf
  <2>2. FilesOf(d) = {} /\ MapsOf(d) = {}
    <3>1. \A o \in OpenFiles : fds[o[1]][o[2]].dentry # d
      BY <1>0, Zenon DEF CountsExact
    <3>2. \A p \in Proc : \A v \in DOMAIN mapped[p] : mapped[p][v] # d
      BY <1>0, <1>2, Zenon DEF CountsExact
    <3>3. \A o \in Proc \X Slot : o[1] \in Proc
      OBVIOUS
    <3>. QED
      BY <3>1, <3>2, <3>3, Zenon DEF FilesOf, MapsOf
  <2>3. \A x \in DOMAIN dent : dent[x].parent # d
    <3>1. \A x \in DOMAIN dent \ {root} : dent[x].parent \in DOMAIN dent
      BY <1>0, Zenon DEF CacheExact, OnDisk
    <3>. QED
      BY <1>0, <1>2, <3>1, Zenon DEF DentTypes
  <2>4. ChildrenOf(d)' = {}
    <3>1. \A x \in DOMAIN dent' : dent'[x].parent # d
      BY <1>2, <1>5, <1>6, <1>7, <2>3
    <3>. QED
      BY <3>1, Zenon DEF ChildrenOf
  <2>5. \A x : x # it => ChildrenOf(x)' = ChildrenOf(x)
    BY <1>5, <1>6, <1>7, Zenon DEF ChildrenOf
  <2>6. Cardinality(ChildrenOf(q)') = Cardinality(ChildrenOf(q)) + 1
    <3>1. d \notin ChildrenOf(q) /\ d \in ChildrenOf(q)'
      BY <1>5, <1>6, Zenon DEF ChildrenOf
    <3>2. \A y : y # d => (y \in ChildrenOf(q)' <=> y \in ChildrenOf(q))
      BY <1>5, <1>7, Zenon DEF ChildrenOf
    <3>3. IsFiniteSet(ChildrenOf(q))
      BY <1>0, FewUsers, Zenon
    <3>. QED
      BY <3>1, <3>2, <3>3, OneMore, Zenon
  <2>7. ASSUME NEW x \in DOMAIN dent'
        PROVE  dent'[x].rc = Cardinality(ChildrenOf(x)') + Cardinality(FilesOf(x)') + Cardinality(MapsOf(x)')
                    + (IF x = root THEN 1 ELSE 0) + (IF x = Pending' THEN 1 ELSE 0)
    <3>1. CASE x = d
      <4>1. Cardinality({}) = 0 /\ x # Pending' /\ x # root
        BY <1>2, <1>13, <3>1, FS_EmptySet, Zenon
      <4>2. Cardinality(ChildrenOf(x)') = 0 /\ Cardinality(FilesOf(x)') = 0 /\ Cardinality(MapsOf(x)') = 0
        BY <2>1, <2>2, <2>4, <3>1, <4>1, Zenon
      <4>. QED
        BY <1>6, <3>1, <4>1, <4>2
    <3>2. CASE x # d
      <4>1. x \in DOMAIN dent /\ x # Pending /\ x # Pending'
        BY <1>0, <1>2, <1>5, <1>13, <3>2, FilesAssumption, Zenon DEF DentTypes
      <4>2. dent[x].rc = Cardinality(ChildrenOf(x)) + Cardinality(FilesOf(x)) + Cardinality(MapsOf(x))
                    + (IF x = root THEN 1 ELSE 0) + 0
        BY <1>0, <4>1, Zenon DEF CountsExact
      <4>3. Cardinality(ChildrenOf(x)) \in Nat /\ Cardinality(FilesOf(x)) \in Nat /\ Cardinality(MapsOf(x)) \in Nat
        BY <1>0, FewUsers, Numbers, Zenon
      <4>4. Cardinality(FilesOf(x)') = Cardinality(FilesOf(x)) /\ Cardinality(MapsOf(x)') = Cardinality(MapsOf(x))
        BY <2>1, Zenon
      <4>5. CASE x = it
        BY <1>8, <2>6, <4>1, <4>2, <4>3, <4>4, <4>5, SMTT(30)
      <4>6. CASE x # it
        <5>1. Cardinality(ChildrenOf(x)') = Cardinality(ChildrenOf(x)) /\ dent'[x].rc = dent[x].rc
          BY <1>7, <2>5, <4>1, <4>6, Zenon
        <5>. QED
          BY <4>1, <4>2, <4>3, <4>4, <5>1
      <4>. QED
        BY <4>5, <4>6
    <3>. QED
      BY <3>1, <3>2
  <2>8. \A o \in OpenFiles' : fds'[o[1]][o[2]].dentry \in DOMAIN dent'
    BY <1>0, <1>5, <1>10, <2>1, Zenon DEF CountsExact
  <2>9. \A p \in Proc : \A v \in DOMAIN mapped'[p] : mapped'[p][v] # null => mapped'[p][v] \in DOMAIN dent'
    BY <1>0, <1>5, <1>10, Zenon DEF CountsExact
  <2>. QED
    BY <2>7, <2>8, <2>9, Zenon DEF CountsExact
<1>16. CacheExact'
  <2>2. \A x \in DOMAIN dent : KeyOf(x)' = KeyOf(x)
    BY <1>7, Zenon DEF KeyOf
  <2>3. KeyOf(d)' = <<it, name>>
    BY <1>6, Zenon DEF KeyOf
  <2>4. \A x \in DOMAIN dent' \ {root} : InCache(x)'
    <3>1. InCache(d)'
      BY <1>14, <2>3, Zenon DEF InCache
    <3>2. \A x \in DOMAIN dent \ {root} : InCache(x)'
      BY <1>0, <1>14, <2>2, Zenon DEF CacheExact, InCache
    <3>. QED
      BY <1>5, <3>1, <3>2, Zenon
  <2>5. \A x \in DOMAIN dent' \ {root} : OnDisk(x)'
    <3>1. OnDisk(d)'
      BY <1>1, <1>5, <1>6, <1>7, ZenonT(30) DEF OnDisk
    <3>2. ASSUME NEW x \in DOMAIN dent \ {root} PROVE OnDisk(x)'
      <4>1. /\ dent[x].parent \in DOMAIN dent /\ IsDir(dent[dent[x].parent].inode)
            /\ dent[x].inode = lookup(dent[dent[x].parent].inode, dent[x].name)
        BY <1>0, Zenon DEF CacheExact, OnDisk
      <4>2. /\ dent'[x].parent = dent[x].parent /\ dent'[x].inode = dent[x].inode /\ dent'[x].name = dent[x].name
            /\ dent'[dent[x].parent].inode = dent[dent[x].parent].inode /\ dent[x].parent \in DOMAIN dent'
        BY <1>5, <1>7, <4>1, Zenon
      <4>. QED
        BY <4>1, <4>2, Zenon DEF OnDisk
    <3>. QED
      BY <1>5, <3>1, <3>2, Zenon
  <2>6. \A k \in DOMAIN dcache' : Living(k)'
    <3>1. \A k \in DOMAIN dcache : Living(k)
      <4>1. DOMAIN unhash = {}
        BY <1>2
      <4>. QED
        BY <1>0, <4>1, Zenon DEF CacheExact, Leaving
    <3>2. ASSUME NEW k \in DOMAIN dcache PROVE Living(k)'
      <4>1. dcache[k] \in DOMAIN dent \ {root} /\ KeyOf(dcache[k]) = k
        BY <3>1, Zenon DEF Living
      <4>2. dcache'[k] = dcache[k] /\ dcache'[k] \in DOMAIN dent' \ {root}
        BY <1>5, <1>14, <4>1, Zenon
      <4>3. <<dent'[dcache[k]].parent, dent'[dcache[k]].name>> = k
        BY <1>7, <4>1, Zenon DEF KeyOf
      <4>. QED
        BY <4>2, <4>3, Zenon DEF Living, KeyOf
    <3>3. Living(<<q, name>>)'
      BY <1>2, <1>5, <1>6, <1>14, Zenon DEF Living, KeyOf
    <3>. QED
      BY <1>14, <3>2, <3>3, Zenon
  <2>7. /\ DOMAIN inode' = DOMAIN inode \cup {c} /\ inode'[c] = (IF c \in DOMAIN inode THEN inode[c] + 1 ELSE 1)
        /\ \A b \in DOMAIN inode : b # c => inode'[b] = inode[b]
    <3>. DEFINE n == IF c \in DOMAIN inode THEN inode[c] + 1 ELSE 1
    <3>1. inode' = Put(inode, c, n)
      OBVIOUS
    <3>. HIDE DEF n
    <3>2. /\ DOMAIN Put(inode, c, n) = DOMAIN inode \cup {c} /\ Put(inode, c, n)[c] = n
          /\ \A b \in DOMAIN inode : b # c => Put(inode, c, n)[b] = inode[b]
      BY DEF Put
    <3>3. /\ DOMAIN inode' = DOMAIN inode \cup {c} /\ inode'[c] = n
          /\ \A b \in DOMAIN inode : b # c => inode'[b] = inode[b]
      BY <3>1, <3>2, Zenon
    <3>. QED
      BY <3>3, Zenon DEF n
  <2>8. \A x \in DOMAIN dent' : dent'[x].inode \in DOMAIN inode'
    BY <1>0, <1>5, <1>6, <1>7, <2>7, Zenon DEF CacheExact
  <2>9. \A b : b # c => DentriesOf(b)' = DentriesOf(b)
    BY <1>5, <1>6, <1>7, Zenon DEF DentriesOf
  <2>10. Cardinality(DentriesOf(c)') = Cardinality(DentriesOf(c)) + 1
    <3>1. d \notin DentriesOf(c) /\ d \in DentriesOf(c)'
      BY <1>5, <1>6, Zenon DEF DentriesOf
    <3>2. \A y : y # d => (y \in DentriesOf(c)' <=> y \in DentriesOf(c))
      BY <1>5, <1>7, Zenon DEF DentriesOf
    <3>3. IsFiniteSet(DentriesOf(c))
      BY <1>0, FewUsers, Zenon
    <3>. QED
      BY <3>1, <3>2, <3>3, OneMore, Zenon
  <2>11. inode'[c] = Cardinality(DentriesOf(c)')
    <3>1. CASE c \in DOMAIN inode
      BY <1>0, <2>7, <2>10, <3>1, Zenon DEF CacheExact
    <3>2. CASE c \notin DOMAIN inode
      <4>1. DentriesOf(c) = {}
        BY <1>0, <3>2, Zenon DEF CacheExact, DentriesOf
      <4>2. Cardinality(DentriesOf(c)) = 0
        BY <4>1, FS_EmptySet, Zenon
      <4>. QED
        BY <2>7, <2>10, <3>2, <4>2
    <3>. QED
      BY <3>1, <3>2
  <2>12. \A b \in DOMAIN inode' : DentriesOf(b)' # {} /\ inode'[b] = Cardinality(DentriesOf(b)')
    <3>0. DentriesOf(c)' # {}
      BY <1>5, <1>6, Zenon DEF DentriesOf
    <3>1. ASSUME NEW b \in DOMAIN inode, b # c
          PROVE  DentriesOf(b)' # {} /\ inode'[b] = Cardinality(DentriesOf(b)')
      <4>1. DentriesOf(b) # {} /\ inode[b] = Cardinality(DentriesOf(b)) /\ inode'[b] = inode[b] /\ DentriesOf(b)' = DentriesOf(b)
        BY <1>0, <2>7, <2>9, <3>1, Zenon DEF CacheExact
      <4>. QED
        BY <4>1, Zenon
    <3>. QED
      BY <2>7, <2>11, <3>0, <3>1, Zenon
  <2>. QED
    BY <2>4, <2>5, <2>6, <2>8, <2>12, Zenon DEF CacheExact
<1>. QED
  BY <1>9, <1>11, <1>12, <1>13, <1>15, <1>16, <1>17, Zenon DEF FilesInv

\* A component that leads to a dentry there is.
LEMMA FollowKeeps ==
  ASSUME FilesInv, panic = "none", Looking, ~LookupDone, NEW x \in DOMAIN dent, GoTo(x),
         UNCHANGED <<dent, inode, dcache>>, Goes(dent, dcache, it, path[at + 1], x)
  PROVE  FilesInv'
<1>0. Exact /\ DentTypes /\ CallTypes /\ Trail
  BY Zenon DEF FilesInv, Exact
<1>1. dent' = dent /\ inode' = inode /\ dcache' = dcache /\ x # null /\ x \in DOMAIN dent'
  BY <1>0, FilesAssumption, Zenon DEF DentTypes
<1>2. CallTypes' /\ Looking' /\ Stopped' /\ Pending' = Pending
  BY <1>1, GoToCall, Zenon
<1>3. fds' = fds /\ mapped' = mapped /\ unhash' = unhash
  BY Zenon DEF GoTo
<1>4. Exact'
  BY <1>0, <1>1, <1>2, <1>3, Quiet, Zenon
<1>5. Trail'
  BY <1>0, <1>1, TrailFollows, Zenon
<1>. QED
  BY <1>2, <1>4, <1>5, Zenon DEF FilesInv, Exact

LEMMA NowhereKeeps ==
  ASSUME FilesInv, panic = "none", Looking, ~LookupDone, GoTo(null),
         UNCHANGED <<dent, inode, dcache>>, Lacks(dent, dcache, it, path[at + 1])
  PROVE  FilesInv'
<1>0. Exact /\ DentTypes /\ CallTypes /\ Trail
  BY Zenon DEF FilesInv, Exact
<1>2. CallTypes' /\ Looking' /\ Stopped' /\ Pending' = Pending
  BY GoToCall, Zenon
<1>3. fds' = fds /\ mapped' = mapped /\ unhash' = unhash /\ dent' = dent /\ inode' = inode /\ dcache' = dcache
  BY Zenon DEF GoTo
<1>4. Exact'
  BY <1>0, <1>2, <1>3, Quiet, Zenon
<1>5. Trail'
  BY <1>0, <1>3, TrailEnds, Zenon
<1>. QED
  BY <1>2, <1>4, <1>5, Zenon DEF FilesInv, Exact

\* What is not in the cache is not on the disk either, in the second lookup.
LEMMA SecondLookup ==
  ASSUME CallTypes, Trail, op = "parent", ~LookupDone, IsName(path[at + 1]),
         <<it, path[at + 1]>> \notin DOMAIN dcache
  PROVE  lookup(dent[it].inode, path[at + 1]) = null
<1>1. /\ it # null /\ Len(trail) \in Nat /\ at \in Nat /\ at < Len(trail) /\ it = trail[at + 1] /\ Len(trail) > 0
      /\ Lacks(dent, dcache, trail[Len(trail)], path[Len(trail)])
  BY DEF Trail, CallTypes, LookupDone
<1>2. CASE at + 1 = Len(trail)
  BY <1>1, <1>2, Zenon DEF Lacks
<1>3. CASE at + 1 # Len(trail)
  <2>1. at + 1 \in 1..(Len(trail) - 1)
    BY <1>1, <1>3
  <2>2. Goes(dent, dcache, it, path[at + 1], trail[(at + 1) + 1])
    BY <1>1, <2>1, Zenon DEF Trail
  <2>. QED
    BY <2>2, Zenon DEF Goes, IsName
<1>. QED
  BY <1>2, <1>3

LEMMA LookupKeeps ==
  ASSUME FilesInv, panic = "none", pathname_lookup
  PROVE  FilesInv'
<1>. DEFINE name == path[at + 1]
<1>0. /\ Looking /\ ~LookupDone
      /\ \/ Stays(name) /\ GoTo(it) /\ UNCHANGED dentryVars
         \/ /\ Rises(name) /\ GoTo(IF dent[it].parent = null THEN it ELSE dent[it].parent)
            /\ UNCHANGED dentryVars
         \/ IsName(name) /\ Cached(name) /\ GoTo(dcache[<<it, name>>]) /\ UNCHANGED dentryVars
         \/ IsName(name) /\ ~Cached(name) /\ Ask(name)
  BY Zenon DEF pathname_lookup
<1>1. DentTypes /\ CallTypes /\ Trail /\ CacheExact
  BY <1>0, Zenon DEF FilesInv
<1>2. it # null /\ it \in DOMAIN dent /\ unhash = <<>>
  BY <1>0, <1>1, LookingIs, Zenon DEF LookupDone, CallTypes
<1>3. UNCHANGED dentryVars => UNCHANGED <<dent, inode, dcache>>
  BY Zenon DEF dentryVars
<1>. HIDE DEF name
<1>4. CASE Stays(name) /\ GoTo(it) /\ UNCHANGED dentryVars
  <2>1. PICK x : x = it
    BY Zenon
  <2>2. GoTo(x) /\ Goes(dent, dcache, it, path[at + 1], x)
    BY <1>4, <2>1, Zenon DEF GoTo, Goes, name
  <2>. QED
    BY <1>0, <1>2, <1>3, <1>4, <2>1, <2>2, FollowKeeps, Zenon
<1>5. CASE Rises(name) /\ GoTo(IF dent[it].parent = null THEN it ELSE dent[it].parent) /\ UNCHANGED dentryVars
  <2>1. PICK x : x = IF dent[it].parent = null THEN it ELSE dent[it].parent
    BY Zenon
  <2>2. GoTo(x) /\ Goes(dent, dcache, it, path[at + 1], x)
    BY <1>5, <2>1, Zenon DEF GoTo, Goes, name
  <2>3. x \in DOMAIN dent
    <3>1. CASE it = root
      BY <1>1, <1>2, <2>1, <3>1, Zenon DEF DentTypes
    <3>2. CASE it # root
      <4>1. dent[it].parent \in DOMAIN dent
        BY <1>1, <1>2, <3>2, Zenon DEF CacheExact, OnDisk
      <4>. QED
        BY <1>2, <2>1, <4>1, Zenon
    <3>. QED
      BY <3>1, <3>2, Zenon
  <2>. QED
    BY <1>0, <1>3, <1>5, <2>2, <2>3, FollowKeeps, Zenon
<1>6. CASE IsName(name) /\ Cached(name) /\ GoTo(dcache[<<it, name>>]) /\ UNCHANGED dentryVars
  <2>1. PICK x : x = dcache[<<it, name>>]
    BY Zenon
  <2>2. GoTo(x) /\ Goes(dent, dcache, it, path[at + 1], x) /\ <<it, name>> \in DOMAIN dcache
    BY <1>6, <2>1, Zenon DEF GoTo, Goes, Cached, name
  <2>3. x \in DOMAIN dent
    <3>1. DOMAIN unhash = {}
      BY <1>2
    <3>2. Living(<<it, name>>)
      BY <1>1, <2>2, <3>1, Zenon DEF CacheExact, Leaving
    <3>. QED
      BY <2>1, <3>2, Zenon DEF Living
  <2>. QED
    BY <1>0, <1>3, <1>6, <2>2, <2>3, FollowKeeps, Zenon
<1>7. CASE IsName(name) /\ ~Cached(name) /\ Ask(name)
  <2>0. <<it, name>> \notin DOMAIN dcache
    BY <1>7, Zenon DEF Cached
  <2>1. CASE ~IsDir(dent[it].inode)
    <3>1. Panic("is_directory")
      BY <1>7, <2>1, Zenon DEF Ask
    <3>2. /\ panic' = "is_directory"
          /\ UNCHANGED <<dent, inode, dcache, fds, mapped, op, caller, path, at, it, trail, unhash>>
      BY <3>1, Zenon DEF Panic, dentryVars, lookupVars
    <3>3. Stopped'
      BY <1>0, <1>2, <2>1, <3>2, Zenon DEF Stopped, Looking
    <3>. QED
      BY <3>2, <3>3, Still, Zenon
  <2>2. CASE IsDir(dent[it].inode) /\ lookup(dent[it].inode, name) = null
    <3>1. GoTo(null) /\ UNCHANGED dentryVars
      BY <1>7, <2>2, Zenon DEF Ask
    <3>2. Lacks(dent, dcache, it, path[at + 1])
      BY <1>7, <2>0, <2>2, Zenon DEF Lacks, name
    <3>. QED
      BY <1>0, <1>3, <3>1, <3>2, NowhereKeeps, Zenon
  <2>3. CASE IsDir(dent[it].inode) /\ lookup(dent[it].inode, name) # null
    <3>1. op # "parent"
      BY <1>0, <1>1, <1>7, <2>0, <2>3, SecondLookup, Zenon DEF name
    <3>2. NewDentry(lookup(dent[it].inode, name), name)
      BY <1>7, <2>3, <3>1, Zenon DEF Ask
    <3>3. PICK c, n, q : c = lookup(dent[it].inode, name) /\ n = name /\ q = it
      BY Zenon
    <3>4. PICK d \in (Address(it, name) \cap Dentry) \ DOMAIN dent :
            /\ dent' = Put(inc_rc(dent, it), d, [parent |-> it, inode |-> c, name |-> n, rc |-> 0])
            /\ dcache' = Put(dcache, <<it, n>>, d)
            /\ inode' = Put(inode, c, IF c \in DOMAIN inode THEN inode[c] + 1 ELSE 1)
            /\ GoTo(d)
      BY <2>0, <3>2, <3>3, Zenon DEF NewDentry
    <3>5. /\ d \in Dentry /\ d \notin DOMAIN dent /\ n = path[at + 1] /\ IsName(n) /\ <<it, n>> \notin DOMAIN dcache
          /\ IsDir(dent[it].inode) /\ c = lookup(dent[it].inode, n) /\ c # null
      BY <1>7, <2>0, <2>3, <3>3, <3>4, Zenon DEF name
    <3>. QED
      BY <1>0, <3>1, <3>3, <3>4, <3>5, NewDentryKeeps, Zenon
  <2>. QED
    BY <2>1, <2>2, <2>3, Zenon
<1>. QED
  BY <1>0, <1>4, <1>5, <1>6, <1>7, Zenon

-----------------------------------------------------------------------------
(* giving references back *)

\* The dentry that close() has yet to release is counted.
LEMMA PendingCounted ==
  ASSUME FilesInv, op = "close", it # null
  PROVE  /\ it \in DOMAIN dent /\ dent[it].rc \in Nat \ {0}
         /\ dent[it].rc = 1 => /\ ChildrenOf(it) = {} /\ FilesOf(it) = {} /\ MapsOf(it) = {}
                               /\ it # root
<1>1. it \in DOMAIN dent /\ it = Pending /\ DentTypes /\ CountsExact
  BY Zenon DEF FilesInv, CallTypes, Pending
<1>2. dent[it].rc = Cardinality(ChildrenOf(it)) + Cardinality(FilesOf(it)) + Cardinality(MapsOf(it))
                    + (IF it = root THEN 1 ELSE 0) + (IF it = Pending THEN 1 ELSE 0)
  BY <1>1, Zenon DEF CountsExact
<1>. DEFINE a == Cardinality(ChildrenOf(it))
            b == Cardinality(FilesOf(it))
            c == Cardinality(MapsOf(it))
<1>3. /\ a \in Nat /\ (a = 0 <=> ChildrenOf(it) = {}) /\ b \in Nat /\ (b = 0 <=> FilesOf(it) = {})
      /\ c \in Nat /\ (c = 0 <=> MapsOf(it) = {})
  BY <1>1, FewUsers, Numbers, Zenon
<1>4. dent[it].rc = a + b + c + (IF it = root THEN 1 ELSE 0) + 1
  BY <1>1, <1>2
<1>. HIDE DEF a, b, c
<1>5. dent[it].rc \in Nat \ {0} /\ (dent[it].rc = 1 => a = 0 /\ b = 0 /\ c = 0 /\ it # root)
  BY <1>3, <1>4
<1>. QED
  BY <1>1, <1>3, <1>5, Zenon

\* dec_rc() of a dentry that has other users.
LEMMA ReleaseKeeps ==
  ASSUME FilesInv, panic = "none", op = "close", it # null, dent[it].rc # 1,
         dent' = [dent EXCEPT ![it].rc = @ - 1], it' = null,
         UNCHANGED <<inode, dcache, fds, mapped, panic, op, caller, path, at, trail, unhash>>
  PROVE  FilesInv'
<1>1. PICK q : q = it
  BY Zenon
<1>2. q \in DOMAIN dent /\ dent[q].rc \in Nat \ {0} /\ dent' = [dent EXCEPT ![q].rc = @ - 1] /\ q = Pending
  BY <1>1, PendingCounted, Zenon DEF Pending
<1>3. /\ inode' = inode /\ dcache' = dcache /\ fds' = fds /\ mapped' = mapped /\ panic' = panic /\ op' = op
      /\ path' = path /\ at' = at /\ unhash' = unhash
  BY Zenon
<1>4. DentTypes /\ FdTypes /\ MapTypes /\ CallTypes /\ UnhashOk /\ CountsExact /\ CacheExact
  BY Zenon DEF FilesInv
<1>5. /\ SameTree(dent, dent') /\ \A x \in DOMAIN dent : dent'[x] \in DentryRecord
      /\ dent'[q].rc = dent[q].rc - 1 /\ \A x \in DOMAIN dent : x # q => dent'[x].rc = dent[x].rc
  <2>1. \A x \in DOMAIN dent : dent[x] \in DentryRecord
    BY <1>4, Zenon DEF DentTypes
  <2>. QED
    BY <1>2, <2>1 DEF SameTree, DentryRecord
<1>6. DentTypes'
  BY <1>4, <1>5, Zenon DEF DentTypes, SameTree
<1>7. CacheExact' /\ UnhashOk'
  BY <1>3, <1>4, <1>5, CachesKept, Zenon
<1>8. CallTypes' /\ FdTypes' /\ MapTypes' /\ ~Looking' /\ Stopped' /\ Pending' = null
  BY <1>3, <1>4 DEF CallTypes, FdTypes, MapTypes, Looking, Stopped, Pending
<1>9. CountsExact'
  <2>1. OpenFiles' = OpenFiles
    BY <1>3, Zenon DEF OpenFiles, BadFD
  <2>2. \A d : ChildrenOf(d)' = ChildrenOf(d) /\ FilesOf(d)' = FilesOf(d) /\ MapsOf(d)' = MapsOf(d)
    BY <1>3, <1>5, <2>1, SameChildren, Zenon DEF FilesOf, MapsOf
  <2>3. ASSUME NEW d \in DOMAIN dent
        PROVE  dent'[d].rc = Cardinality(ChildrenOf(d)) + Cardinality(FilesOf(d)) + Cardinality(MapsOf(d))
                             + (IF d = root THEN 1 ELSE 0) + (IF d = null THEN 1 ELSE 0)
    <3>1. dent[d].rc = Cardinality(ChildrenOf(d)) + Cardinality(FilesOf(d)) + Cardinality(MapsOf(d))
                       + (IF d = root THEN 1 ELSE 0) + (IF d = Pending THEN 1 ELSE 0)
      BY <1>4, Zenon DEF CountsExact
    <3>2. /\ Cardinality(ChildrenOf(d)) \in Nat /\ Cardinality(FilesOf(d)) \in Nat
          /\ Cardinality(MapsOf(d)) \in Nat
      BY <1>4, FewUsers, Numbers, Zenon
    <3>3. d # null
      BY <1>4, FilesAssumption, Zenon DEF DentTypes
    <3>. QED
      BY <1>2, <1>5, <3>1, <3>2, <3>3
  <2>4. DOMAIN dent' = DOMAIN dent
    BY <1>5, Zenon DEF SameTree
  <2>. QED
    BY <1>3, <1>4, <1>8, <2>1, <2>2, <2>3, <2>4, Zenon DEF CountsExact
<1>. QED
  BY <1>6, <1>7, <1>8, <1>9, Zenon DEF FilesInv

\* ~Dentry(): what is deleted is in no set any more.
LEMMA WithoutDentry ==
  ASSUME DentTypes, NEW q \in DOMAIN dent, dent' = Drop(dent, q)
  PROVE  /\ DOMAIN dent' = DOMAIN dent \ {q} /\ \A d \in DOMAIN dent' : dent'[d] = dent[d]
         /\ \A d : \A x : x \in ChildrenOf(d)' <=> x \in ChildrenOf(d) /\ x # q
         /\ \A d : \A x : x \in DentriesOf(d)' <=> x \in DentriesOf(d) /\ x # q
         /\ \A d \in DOMAIN dent' : KeyOf(d)' = KeyOf(d)
<1>1. DOMAIN dent' = DOMAIN dent \ {q} /\ \A d \in DOMAIN dent' : dent'[d] = dent[d]
  BY DropIs, Zenon
<1>. QED
  BY <1>1, Zenon DEF ChildrenOf, DentriesOf, KeyOf

\* The sets of users that lose the deleted dentry are smaller by one.
LEMMA OneLess ==
  ASSUME NEW S, NEW T, NEW x, IsFiniteSet(S), x \in S, \A y : y \in T <=> y \in S /\ y # x
  PROVE  IsFiniteSet(T) /\ Cardinality(T) = Cardinality(S) - 1 /\ Cardinality(S) \in Nat \ {0}
<1>1. T = S \ {x}
  BY Zenon
<1>2. IsFiniteSet(T) /\ Cardinality(S \ {x}) = IF x \in S THEN Cardinality(S) - 1 ELSE Cardinality(S)
  BY <1>1, FS_RemoveElement, Zenon
<1>3. Cardinality(S) \in Nat /\ Cardinality(S) # 0
  BY Numbers, Zenon
<1>. QED
  BY <1>1, <1>2, <1>3

\* Deleting q, which nobody uses, moves the pending reference to its parent r.
LEMMA DeleteCounts ==
  ASSUME DentTypes, FdTypes, MapTypes, CountsExact, NEW q \in DOMAIN dent, NEW r \in DOMAIN dent, r # q,
         dent[q].parent = r, ChildrenOf(q) = {}, FilesOf(q) = {}, MapsOf(q) = {}, Pending = q, Pending' = r,
         dent' = Drop(dent, q), fds' = fds, mapped' = mapped
  PROVE  CountsExact'
<1>1. /\ DOMAIN dent' = DOMAIN dent \ {q} /\ \A d \in DOMAIN dent' : dent'[d] = dent[d]
      /\ \A d : \A x : x \in ChildrenOf(d)' <=> x \in ChildrenOf(d) /\ x # q
  BY WithoutDentry, Zenon
<1>2. OpenFiles' = OpenFiles
  BY Zenon DEF OpenFiles, BadFD
<1>3. \A d : FilesOf(d)' = FilesOf(d) /\ MapsOf(d)' = MapsOf(d)
  BY <1>2, Zenon DEF FilesOf, MapsOf
<1>4. ASSUME NEW d \in DOMAIN dent'
      PROVE  dent'[d].rc = Cardinality(ChildrenOf(d)') + Cardinality(FilesOf(d)) + Cardinality(MapsOf(d))
                           + (IF d = root THEN 1 ELSE 0) + (IF d = r THEN 1 ELSE 0)
  <2>1. dent'[d].rc = Cardinality(ChildrenOf(d)) + Cardinality(FilesOf(d)) + Cardinality(MapsOf(d))
                      + (IF d = root THEN 1 ELSE 0) + (IF d = q THEN 1 ELSE 0)
    BY <1>1, Zenon DEF CountsExact
  <2>2. /\ Cardinality(ChildrenOf(d)) \in Nat /\ Cardinality(FilesOf(d)) \in Nat
        /\ Cardinality(MapsOf(d)) \in Nat /\ IsFiniteSet(ChildrenOf(d))
    BY FewUsers, Numbers, Zenon
  <2>3. d # q
    BY <1>1, Zenon
  <2>4. CASE d = r
    <3>1. q \in ChildrenOf(d)
      BY <2>4, Zenon DEF ChildrenOf
    <3>2. Cardinality(ChildrenOf(d)') = Cardinality(ChildrenOf(d)) - 1
      BY <1>1, <2>2, <3>1, OneLess, Zenon
    <3>. QED
      BY <2>1, <2>2, <2>3, <2>4, <3>2
  <2>5. CASE d # r
    <3>1. q \notin ChildrenOf(d)
      BY <2>5, Zenon DEF ChildrenOf
    <3>2. ChildrenOf(d)' = ChildrenOf(d)
      <4>1. \A x : x \in ChildrenOf(d)' <=> x \in ChildrenOf(d)
        BY <1>1, <3>1, Zenon
      <4>. QED
        BY <4>1
    <3>. QED
      BY <2>1, <2>2, <2>3, <2>5, <3>2
  <2>. QED
    BY <2>4, <2>5, Zenon
<1>5. \A o \in OpenFiles' : fds'[o[1]][o[2]].dentry \in DOMAIN dent'
  BY <1>1, <1>2, Zenon DEF CountsExact, FilesOf
<1>6. ASSUME NEW p \in Proc, NEW v \in DOMAIN mapped[p], mapped[p][v] # null
      PROVE  mapped[p][v] \in DOMAIN dent'
  <2>1. mapped[p][v] \in DOMAIN dent /\ v \in Slot
    BY <1>6, Zenon DEF CountsExact, MapTypes
  <2>2. mapped[p][v] = q => <<p, v>> \in MapsOf(q)
    BY <2>1 DEF MapsOf
  <2>. QED
    BY <1>1, <2>1, <2>2, Zenon
<1>. QED
  BY <1>3, <1>4, <1>5, <1>6, Zenon DEF CountsExact

\* The inode of q loses a dentry, and goes with its last.
LEMMA DeleteInode ==
  ASSUME DentTypes, CacheExact, NEW q \in DOMAIN dent, dent' = Drop(dent, q), inode' = inode_dec_rc(dent[q].inode)
  PROVE  /\ \A d \in DOMAIN dent' : dent'[d].inode \in DOMAIN inode'
         /\ \A c \in DOMAIN inode' : DentriesOf(c)' # {} /\ inode'[c] = Cardinality(DentriesOf(c)')
<1>0. PICK i : i = dent[q].inode
  BY Zenon
<1>1. /\ DOMAIN dent' = DOMAIN dent \ {q} /\ \A d \in DOMAIN dent' : dent'[d] = dent[d]
      /\ \A d : \A x : x \in DentriesOf(d)' <=> x \in DentriesOf(d) /\ x # q
  BY WithoutDentry, Zenon
<1>2. i \in DOMAIN inode /\ inode[i] = Cardinality(DentriesOf(i)) /\ q \in DentriesOf(i)
      /\ IsFiniteSet(DentriesOf(i))
  BY <1>0, FewUsers, Zenon DEF CacheExact, DentriesOf
<1>3. /\ IsFiniteSet(DentriesOf(i)') /\ Cardinality(DentriesOf(i)') = Cardinality(DentriesOf(i)) - 1
      /\ Cardinality(DentriesOf(i)) \in Nat \ {0}
  BY <1>1, <1>2, OneLess, ZenonT(30)
<1>4. Cardinality(DentriesOf(i)') = inode[i] - 1 /\ inode[i] \in Nat \ {0}
  BY <1>2, <1>3, Zenon
<1>5. (inode[i] - 1 = 0) <=> DentriesOf(i)' = {}
  BY <1>3, <1>4, Numbers, Zenon
<1>6. ASSUME NEW c, c # i PROVE DentriesOf(c)' = DentriesOf(c)
  <2>1. q \notin DentriesOf(c)
    BY <1>0, <1>6, Zenon DEF DentriesOf
  <2>. QED
    BY <1>1, <2>1, Zenon
<1>7. CASE inode[i] = 1
  <2>1. DOMAIN inode' = DOMAIN inode \ {i} /\ \A c \in DOMAIN inode \ {i} : inode'[c] = inode[c]
    <3>1. inode' = Drop(inode, i)
      BY <1>0, <1>7, Zenon DEF inode_dec_rc
    <3>. QED
      BY <3>1, Zenon DEF Drop
  <2>2. DentriesOf(i)' = {}
    BY <1>4, <1>5, <1>7
  <2>3. \A d \in DOMAIN dent' : dent'[d].inode # i
    BY <2>2, Zenon DEF DentriesOf
  <2>4. \A d \in DOMAIN dent' : dent'[d].inode \in DOMAIN inode'
    BY <1>1, <2>1, <2>3, Zenon DEF CacheExact
  <2>5. \A c \in DOMAIN inode' : DentriesOf(c)' # {} /\ inode'[c] = Cardinality(DentriesOf(c)')
    BY <1>6, <2>1, Zenon DEF CacheExact
  <2>. QED
    BY <2>4, <2>5, Zenon
<1>8. CASE inode[i] # 1
  <2>1. DOMAIN inode' = DOMAIN inode /\ inode'[i] = inode[i] - 1
        /\ \A c \in DOMAIN inode \ {i} : inode'[c] = inode[c]
    <3>1. inode' = [inode EXCEPT ![i] = @ - 1]
      BY <1>0, <1>8, Zenon DEF inode_dec_rc
    <3>. QED
      BY <1>2, <3>1, Zenon
  <2>2. DentriesOf(i)' # {} /\ inode'[i] = Cardinality(DentriesOf(i)')
    BY <1>4, <1>5, <1>8, <2>1
  <2>4. \A d \in DOMAIN dent' : dent'[d].inode \in DOMAIN inode'
    BY <1>1, <2>1, Zenon DEF CacheExact
  <2>5. \A c \in DOMAIN inode' : DentriesOf(c)' # {} /\ inode'[c] = Cardinality(DentriesOf(c)')
    BY <1>6, <2>1, <2>2, Zenon DEF CacheExact
  <2>. QED
    BY <2>4, <2>5, Zenon
<1>. QED
  BY <1>7, <1>8, Zenon

\* The deleted dentry waits to be taken out of the cache.
LEMMA DeleteUnhash ==
  ASSUME DentTypes, UnhashOk, NEW q \in DOMAIN dent, NEW k, k = KeyOf(q), InCache(q), dent' = Drop(dent, q),
         dcache' = dcache, unhash' = Append(unhash, [key |-> k, dentry |-> q])
  PROVE  /\ UnhashOk'
         /\ DOMAIN unhash' = 1..(Len(unhash) + 1) /\ Len(unhash) \in Nat /\ DOMAIN unhash = 1..Len(unhash)
         /\ unhash'[Len(unhash) + 1] = [key |-> k, dentry |-> q]
         /\ \A i \in 1..Len(unhash) : unhash'[i] = unhash[i]
<1>. DEFINE n == Len(unhash)
            K == [key : (Dentry \cup {null}) \X Name, dentry : Dentry]
            u == [key |-> k, dentry |-> q]
<1>1. unhash \in Seq(K) /\ n \in Nat /\ DOMAIN unhash = 1..n
  BY DEF UnhashOk
<1>2. k \in (Dentry \cup {null}) \X Name /\ q \in Dentry
  BY DEF DentTypes, DentryRecord, KeyOf
<1>3. u \in K
  BY <1>2, Zenon
<1>4. u.key = k /\ u.dentry = q /\ k \in DOMAIN dcache /\ dcache[k] = q /\ q \notin DOMAIN dent'
      /\ DOMAIN dent' \subseteq DOMAIN dent
  <2>1. k \in DOMAIN dcache /\ dcache[k] = q
    BY Zenon DEF InCache
  <2>2. DOMAIN dent' = DOMAIN dent \ {q}
    BY DropIs, Zenon
  <2>. QED
    BY <2>1, <2>2, Zenon
<1>. HIDE DEF u, K
<1>5. /\ unhash' \in Seq(K) /\ DOMAIN unhash' = 1..(n + 1) /\ unhash'[n + 1] = u
      /\ \A i \in 1..n : unhash'[i] = unhash[i]
  BY <1>1, <1>3 DEF u
<1>6. \A i \in 1..n : /\ unhash[i].key \in DOMAIN dcache /\ dcache[unhash[i].key] = unhash[i].dentry
                      /\ unhash[i].dentry \notin DOMAIN dent
  BY <1>1, Zenon DEF UnhashOk
<1>7. \A i \in 1..n : unhash[i].key # k
  BY <1>4, <1>6, Zenon
<1>8. \A i \in 1..(n + 1) : i = n + 1 \/ i \in 1..n
  BY <1>1
<1>9. \A i \in DOMAIN unhash' : /\ unhash'[i].key \in DOMAIN dcache
                                /\ dcache[unhash'[i].key] = unhash'[i].dentry
                                /\ unhash'[i].dentry \notin DOMAIN dent'
  BY <1>4, <1>5, <1>6, <1>8, ZenonT(30)
<1>10. \A i, j \in DOMAIN unhash' : i # j => unhash'[i].key # unhash'[j].key
  <2>1. \A i, j \in 1..n : i # j => unhash[i].key # unhash[j].key
    BY <1>1, Zenon DEF UnhashOk
  <2>2. \A i \in 1..n : unhash'[i].key = unhash[i].key /\ unhash'[i].key # k
    BY <1>5, <1>7, Zenon
  <2>3. unhash'[n + 1].key = k
    BY <1>4, <1>5, Zenon
  <2>4. ASSUME NEW i \in 1..(n + 1), NEW j \in 1..(n + 1), i # j PROVE unhash'[i].key # unhash'[j].key
    <3>1. CASE i \in 1..n /\ j \in 1..n
      BY <2>1, <2>2, <2>4, <3>1, Zenon
    <3>2. CASE i = n + 1 \/ j = n + 1
      BY <1>8, <2>2, <2>3, <2>4, <3>2, Zenon
    <3>. QED
      BY <1>8, <3>1, <3>2, Zenon
  <2>5. DOMAIN unhash' = 1..(n + 1)
    BY <1>5, Zenon
  <2>. QED
    BY <2>4, <2>5
<1>. QED
  BY <1>1, <1>5, <1>9, <1>10, Zenon DEF UnhashOk, u, K

\* DeleteDentry keeps the caches.
LEMMA DeleteCaches ==
  ASSUME DentTypes, UnhashOk, CacheExact, NEW q \in DOMAIN dent, q # root, ChildrenOf(q) = {}, NEW k,
         k = KeyOf(q), dent' = Drop(dent, q), inode' = inode_dec_rc(dent[q].inode), dcache' = dcache,
         unhash' = Append(unhash, [key |-> k, dentry |-> q])
  PROVE  CacheExact' /\ UnhashOk'
<1>1. InCache(q)
  BY Zenon DEF CacheExact
<1>. DEFINE n == Len(unhash)
<1>2. /\ UnhashOk' /\ DOMAIN unhash' = 1..(n + 1) /\ n \in Nat /\ DOMAIN unhash = 1..n
      /\ unhash'[n + 1] = [key |-> k, dentry |-> q] /\ \A i \in 1..n : unhash'[i] = unhash[i]
  BY <1>1, DeleteUnhash, Zenon
<1>3. /\ DOMAIN dent' = DOMAIN dent \ {q} /\ \A d \in DOMAIN dent' : dent'[d] = dent[d]
      /\ \A d \in DOMAIN dent' : KeyOf(d)' = KeyOf(d)
  BY WithoutDentry, Zenon
<1>4. \A d \in DOMAIN dent' \ {root} : InCache(d)'
  BY <1>3, Zenon DEF CacheExact, InCache
<1>5. ASSUME NEW d \in DOMAIN dent' \ {root} PROVE OnDisk(d)'
  <2>1. OnDisk(d) /\ d \in DOMAIN dent /\ dent'[d] = dent[d]
    BY <1>3, Zenon DEF CacheExact
  <2>2. dent[d].parent # q
    BY <2>1, Zenon DEF ChildrenOf
  <2>3. dent[d].parent \in DOMAIN dent' /\ dent'[dent[d].parent] = dent[dent[d].parent]
    BY <1>3, <2>1, <2>2, Zenon DEF OnDisk
  <2>. QED
    BY <2>1, <2>3, Zenon DEF OnDisk
<1>6. ASSUME NEW h \in DOMAIN dcache PROVE Living(h)' \/ Leaving(h)'
  <2>1. CASE Living(h) /\ dcache[h] = q
    <3>1. h = k /\ n + 1 \in DOMAIN unhash' /\ unhash'[n + 1].key = k /\ unhash'[n + 1].dentry = q
      BY <1>2, <2>1 DEF Living
    <3>. QED
      BY <2>1, <3>1, Zenon DEF Leaving
  <2>2. CASE Living(h) /\ dcache[h] # q
    BY <1>3, <2>2, Zenon DEF Living
  <2>3. CASE Leaving(h)
    <3>1. PICK i \in 1..n : unhash[i].key = h /\ unhash[i].dentry = dcache[h]
      BY <1>2, <2>3, Zenon DEF Leaving
    <3>2. i \in DOMAIN unhash' /\ unhash'[i] = unhash[i]
      BY <1>2
    <3>. QED
      BY <3>1, <3>2, Zenon DEF Leaving
  <2>. QED
    BY <2>1, <2>2, <2>3, Zenon DEF CacheExact
<1>7. /\ \A d \in DOMAIN dent' : dent'[d].inode \in DOMAIN inode'
      /\ \A c \in DOMAIN inode' : DentriesOf(c)' # {} /\ inode'[c] = Cardinality(DentriesOf(c)')
  BY DeleteInode, Zenon
<1>. QED
  BY <1>2, <1>4, <1>5, <1>6, <1>7, Zenon DEF CacheExact

LEMMA DecRcKeeps ==
  ASSUME FilesInv, panic = "none", dec_rc
  PROVE  FilesInv'
<1>1. PICK q : q = it
  BY Zenon
<1>2. /\ op = "close" /\ q # null /\ q \in DOMAIN dent /\ dent[q].rc \in Nat \ {0}
      /\ dent[q].rc = 1 => ChildrenOf(q) = {} /\ FilesOf(q) = {} /\ MapsOf(q) = {} /\ q # root
  BY <1>1, PendingCounted, Zenon DEF dec_rc
<1>3. CASE dent[q].rc # 1
  <2>1. /\ dent' = [dent EXCEPT ![it].rc = @ - 1] /\ it' = null
        /\ UNCHANGED <<inode, dcache, fds, mapped, panic, op, caller, path, at, trail, unhash>>
    BY <1>1, <1>2, <1>3 DEF dec_rc
  <2>. QED
    BY <1>1, <1>2, <1>3, <2>1, ReleaseKeeps, Zenon
<1>4. CASE dent[q].rc = 1
  <2>1. DeleteDentry
    BY <1>1, <1>2, <1>4 DEF dec_rc
  <2>2. DentTypes /\ FdTypes /\ MapTypes /\ CallTypes /\ UnhashOk /\ CountsExact /\ CacheExact
    BY Zenon DEF FilesInv
  <2>3. PICK r : r = dent[q].parent
    BY Zenon
  <2>4. r \in DOMAIN dent /\ r # null /\ r # q
    <3>1. OnDisk(q)
      BY <1>2, <1>4, <2>2, Zenon DEF CacheExact
    <3>2. q \notin ChildrenOf(q)
      BY <1>2, <1>4, Zenon
    <3>. QED
      BY <1>2, <2>2, <2>3, <3>1, <3>2, FilesAssumption, Zenon DEF OnDisk, ChildrenOf, DentTypes
  <2>5. PICK k : k = KeyOf(q)
    BY Zenon
  <2>6. /\ inode' = inode_dec_rc(dent[q].inode) /\ dent' = Drop(dent, q) /\ it' = r
        /\ unhash' = Append(unhash, [key |-> k, dentry |-> q])
        /\ dcache' = dcache /\ fds' = fds /\ mapped' = mapped /\ panic' = panic /\ op' = op
        /\ caller' = caller /\ path' = path /\ at' = at
    <3>1. ~\E x \in DOMAIN dent : dent[x].parent = q
      BY <1>2, <1>4, Zenon DEF ChildrenOf
    <3>. QED
      BY <1>1, <2>1, <2>3, <2>4, <2>5, <3>1, Zenon DEF DeleteDentry, KeyOf
  <2>7. DOMAIN dent' = DOMAIN dent \ {q} /\ \A d \in DOMAIN dent' : dent'[d] = dent[d]
    BY <1>2, <2>2, <2>6, WithoutDentry, Zenon
  <2>8. DentTypes'
    <3>1. IsFiniteSet(DOMAIN dent')
      <4>1. IsFiniteSet(DOMAIN dent)
        BY <2>2, Zenon DEF DentTypes
      <4>. QED
        BY <2>7, <4>1, FS_RemoveElement, Zenon
    <3>. QED
      BY <1>2, <1>4, <2>2, <2>7, <3>1, Zenon DEF DentTypes
  <2>9. FdTypes' /\ MapTypes' /\ CallTypes' /\ ~Looking' /\ Stopped' /\ Pending = q /\ Pending' = r
    <3>1. FdTypes' /\ MapTypes'
      BY <2>2, <2>6, Zenon DEF FdTypes, MapTypes
    <3>2. op' = "close" /\ ~Looking' /\ Stopped' /\ Pending = q /\ Pending' = r
      BY <1>1, <1>2, <2>6 DEF Looking, Stopped, Pending
    <3>3. r \in DOMAIN dent'
      BY <2>4, <2>7, Zenon
    <3>4. CallTypes'
      BY <2>2, <2>6, <3>2, <3>3 DEF CallTypes
    <3>. QED
      BY <3>1, <3>2, <3>4, Zenon
  <2>10. CountsExact'
    BY <1>2, <1>4, <2>2, <2>3, <2>4, <2>6, <2>9, DeleteCounts, Zenon
  <2>11. CacheExact' /\ UnhashOk'
    BY <1>2, <1>4, <2>2, <2>5, <2>6, DeleteCaches, Zenon
  <2>. QED
    BY <2>8, <2>9, <2>10, <2>11, Zenon DEF FilesInv
<1>. QED
  BY <1>3, <1>4, Zenon

\* The rest of ~Dentry(): the entry that goes is that of the deleted dentry.
LEMMA UnhashKeeps ==
  ASSUME FilesInv, panic = "none", Unhash
  PROVE  FilesInv'
<1>. DEFINE n == Len(unhash)
            K == [key : (Dentry \cup {null}) \X Name, dentry : Dentry]
<1>0. DentTypes /\ FdTypes /\ MapTypes /\ CallTypes /\ UnhashOk /\ CountsExact /\ CacheExact
  BY Zenon DEF FilesInv
<1>1. /\ op = "close" /\ it = null /\ n \in Nat \ {0} /\ unhash \in Seq(K)
      /\ DOMAIN unhash = 1..n /\ n \in DOMAIN unhash
  <2>1. unhash \in Seq(K) /\ unhash # <<>> /\ op = "close" /\ it = null
    BY <1>0, Zenon DEF Unhash, UnhashOk
  <2>. QED
    BY <2>1
<1>2. PICK k, q : k = unhash[n].key /\ q = unhash[n].dentry
  BY Zenon
<1>3. k \in DOMAIN dcache /\ dcache[k] = q /\ q \notin DOMAIN dent
  BY <1>0, <1>1, <1>2, Zenon DEF UnhashOk
<1>4. /\ dcache' = Drop(dcache, k) /\ unhash' = SubSeq(unhash, 1, n - 1)
      /\ dent' = dent /\ inode' = inode /\ fds' = fds /\ mapped' = mapped /\ panic' = panic /\ op' = op
      /\ caller' = caller /\ path' = path /\ at' = at /\ it' = it
  BY <1>2, <1>3, Zenon DEF Unhash, lookupVars
<1>5. DOMAIN dcache' = DOMAIN dcache \ {k} /\ \A h \in DOMAIN dcache' : dcache'[h] = dcache[h]
  BY <1>4, Zenon DEF Drop
<1>. HIDE DEF K
<1>6. /\ unhash' \in Seq(K) /\ DOMAIN unhash' = 1..(n - 1) /\ \A i \in 1..(n - 1) : unhash'[i] = unhash[i]
      /\ \A i \in 1..(n - 1) : i \in DOMAIN unhash /\ i # n
      /\ \A i \in 1..n : i = n \/ i \in 1..(n - 1)
  <2>1. Len(unhash) \in Nat \ {0} /\ unhash \in Seq(K) /\ DOMAIN unhash = 1..Len(unhash)
    BY <1>1
  <2>2. n \in Nat \ {0} /\ DOMAIN unhash = 1..n
    BY <2>1
  <2>3. /\ \A i \in 1..(n - 1) : i \in DOMAIN unhash /\ i # n
        /\ \A i \in 1..n : i = n \/ i \in 1..(n - 1)
    <3>. HIDE DEF n
    <3>. QED
      BY <2>2
  <2>4. unhash' = SubSeq(unhash, 1, Len(unhash) - 1)
    BY <1>4
  <2>5. /\ unhash' \in Seq(K) /\ DOMAIN unhash' = 1..(Len(unhash) - 1)
        /\ \A i \in 1..(Len(unhash) - 1) : unhash'[i] = unhash[i]
    BY <2>1, <2>4
  <2>. QED
    BY <2>3, <2>5
<1>7. UnhashOk'
  <2>1. \A i \in 1..(n - 1) : unhash[i].key # k
    BY <1>0, <1>1, <1>2, <1>6, Zenon DEF UnhashOk
  <2>2. \A i \in 1..(n - 1) : /\ unhash[i].key \in DOMAIN dcache /\ dcache[unhash[i].key] = unhash[i].dentry
                              /\ unhash[i].dentry \notin DOMAIN dent
    BY <1>0, <1>6, Zenon DEF UnhashOk
  <2>3. \A i, j \in 1..(n - 1) : i # j => unhash[i].key # unhash[j].key
    BY <1>0, <1>6, Zenon DEF UnhashOk
  <2>4. \A i \in 1..(n - 1) : /\ unhash'[i].key \in DOMAIN dcache'
                              /\ dcache'[unhash'[i].key] = unhash'[i].dentry
                              /\ unhash'[i].dentry \notin DOMAIN dent'
    BY <1>4, <1>5, <1>6, <2>1, <2>2, ZenonT(30)
  <2>5. \A i, j \in 1..(n - 1) : i # j => unhash'[i].key # unhash'[j].key
    <3>1. \A i \in 1..(n - 1) : unhash'[i] = unhash[i]
      BY <1>6, Zenon
    <3>. QED
      BY <2>3, <3>1
  <2>6. DOMAIN unhash' = 1..(n - 1) /\ unhash' \in Seq(K)
    BY <1>6, Zenon
  <2>. QED
    BY <2>4, <2>5, <2>6 DEF UnhashOk, K
<1>8. DentTypes' /\ FdTypes' /\ MapTypes' /\ CallTypes' /\ ~Looking' /\ Stopped' /\ Pending' = Pending
  <2>1. DentTypes' /\ FdTypes' /\ MapTypes' /\ CallTypes' /\ Pending' = Pending
    BY <1>0, <1>1, <1>4, Zenon DEF DentTypes, FdTypes, MapTypes, CallTypes, Pending
  <2>. QED
    BY <1>1, <1>4, <2>1 DEF Looking, Stopped
<1>9. CountsExact'
  <2>1. OpenFiles' = OpenFiles
    BY <1>4, Zenon DEF OpenFiles, BadFD
  <2>2. \A d : ChildrenOf(d)' = ChildrenOf(d) /\ FilesOf(d)' = FilesOf(d) /\ MapsOf(d)' = MapsOf(d)
    BY <1>4, <2>1, Zenon DEF ChildrenOf, FilesOf, MapsOf
  <2>. QED
    BY <1>0, <1>4, <1>8, <2>1, <2>2, Zenon DEF CountsExact
<1>10. CacheExact'
  <2>1. \A d : KeyOf(d)' = KeyOf(d) /\ DentriesOf(d)' = DentriesOf(d) /\ (OnDisk(d)' <=> OnDisk(d))
    BY <1>4, Zenon DEF KeyOf, DentriesOf, OnDisk
  <2>2. \A d \in DOMAIN dent \ {root} : InCache(d)'
    BY <1>0, <1>3, <1>5, <2>1, Zenon DEF CacheExact, InCache
  <2>3. ASSUME NEW h \in DOMAIN dcache' PROVE Living(h)' \/ Leaving(h)'
    <3>1. h \in DOMAIN dcache /\ h # k /\ dcache'[h] = dcache[h]
      BY <1>5, Zenon
    <3>2. Living(h) => Living(h)'
      BY <1>4, <2>1, <3>1, Zenon DEF Living, KeyOf
    <3>3. ASSUME Leaving(h) PROVE Leaving(h)'
      <4>1. PICK i \in 1..n : unhash[i].key = h /\ unhash[i].dentry = dcache[h]
        BY <1>1, <3>3, Zenon DEF Leaving
      <4>2. i # n
        BY <1>2, <3>1, <4>1, Zenon
      <4>3. i \in 1..(n - 1)
        BY <1>6, <4>2, Zenon
      <4>. QED
        BY <1>6, <3>1, <4>1, <4>3, Zenon DEF Leaving
    <3>. QED
      BY <1>0, <3>1, <3>2, <3>3, Zenon DEF CacheExact
  <2>. QED
    BY <1>0, <1>4, <2>1, <2>2, <2>3, Zenon DEF CacheExact
<1>. QED
  BY <1>7, <1>8, <1>9, <1>10, Zenon DEF FilesInv

LEMMA ClosedKeeps ==
  ASSUME FilesInv, panic = "none", Closed
  PROVE  FilesInv'
<1>1. Finish /\ Pending = null /\ unhash = <<>> /\ UNCHANGED <<dent, inode, dcache, fds>>
  BY Zenon DEF Closed, Pending, dentryVars
<1>. QED
  BY <1>1, FinishKeeps, Zenon

-----------------------------------------------------------------------------
(* descriptors *)

LEMMA SeqIs ==
  ASSUME NEW S, NEW q, q \in Seq(S)
  PROVE  Len(q) \in Nat /\ DOMAIN q = 1..Len(q) /\ \A k \in DOMAIN q : q[k] \in S
OBVIOUS

\* A set of numbers that is not empty has a least one.
LEMMA FirstOf ==
  ASSUME NEW S, S \subseteq Nat, S # {}
  PROVE  Min(S) \in S /\ \A j \in S : Min(S) <= j
<1>1. IsWellFoundedOn(OpToRel(<, Nat), Nat)
  BY NatLessThanWellFounded
<1>2. PICK x \in S : \A y \in S : ~(<<y, x>> \in OpToRel(<, Nat))
  BY <1>1, WFMin, Zenon
<1>3. \A y \in S : x <= y
  <2>1. ASSUME NEW y \in S PROVE ~(y < x)
    BY <1>2, Zenon DEF OpToRel
  <2>. QED
    BY <2>1
<1>. QED
  BY <1>3, Zenon DEF Min

\* get_next_fd() is the first descriptor that is not in use.
LEMMA NextFd ==
  ASSUME NEW f, f \in Seq(Descriptor)
  PROVE  /\ get_next_fd(f) \in 1..(Len(f) + 1)
         /\ get_next_fd(f) \in DOMAIN f => f[get_next_fd(f)].dentry = null
         /\ \A k \in DOMAIN f : f[k].dentry = null => get_next_fd(f) <= k
<1>. DEFINE S == {k \in DOMAIN f : f[k].dentry = null} \cup {Len(f) + 1}
<1>1. Len(f) \in Nat /\ DOMAIN f = 1..Len(f)
  BY SeqIs, Zenon
<1>2. S \subseteq Nat /\ S # {} /\ S \subseteq 1..(Len(f) + 1) /\ Len(f) + 1 \notin DOMAIN f
  BY <1>1
<1>3. Min(S) \in S /\ \A j \in S : Min(S) <= j
  <2>. HIDE DEF S
  <2>. QED
    BY <1>2, FirstOf, Zenon
<1>4. get_next_fd(f) = Min(S)
  BY Zenon DEF get_next_fd
<1>. QED
  BY <1>2, <1>3, <1>4, Zenon

\* A file is put into a descriptor of the table, or behind its end.
LEMMA PutFd ==
  ASSUME NEW f, f \in Seq(Descriptor), NEW k \in 1..(Len(f) + 1), NEW v \in Descriptor
  PROVE  /\ Put(f, k, v) \in Seq(Descriptor) /\ DOMAIN Put(f, k, v) = DOMAIN f \cup {k}
         /\ Put(f, k, v)[k] = v /\ \A j \in DOMAIN f : j # k => Put(f, k, v)[j] = f[j]
         /\ Len(Put(f, k, v)) = (IF k = Len(f) + 1 THEN Len(f) + 1 ELSE Len(f))
<1>1. Len(f) \in Nat /\ DOMAIN f = 1..Len(f) /\ \A j \in DOMAIN f : f[j] \in Descriptor
  BY SeqIs, Zenon
<1>. DEFINE m == IF k = Len(f) + 1 THEN Len(f) + 1 ELSE Len(f)
<1>2. m \in Nat /\ DOMAIN f \cup {k} = 1..m
  BY <1>1
<1>3. Put(f, k, v) = [x \in 1..m |-> IF x = k THEN v ELSE f[x]]
  BY <1>2, Zenon DEF Put
<1>4. \A x \in 1..m : (IF x = k THEN v ELSE f[x]) \in Descriptor
  BY <1>1, <1>2, Zenon
<1>. HIDE DEF m
<1>5. Put(f, k, v) \in Seq(Descriptor) /\ Len(Put(f, k, v)) = m
  BY <1>2, <1>3, <1>4
<1>. QED
  BY <1>1, <1>2, <1>3, <1>5 DEF m

\* One descriptor of p gets the dentry d instead of c; the others keep theirs.
Moves(p, k, c, d) ==
  /\ p \in Proc /\ k \in 1..MaxFd
  /\ \A o : o # <<p, k>> =>
       /\ (o \in OpenFiles' <=> o \in OpenFiles)
       /\ o \in OpenFiles => fds'[o[1]][o[2]].dentry = fds[o[1]][o[2]].dentry
  /\ IF c = null THEN <<p, k>> \notin OpenFiles ELSE <<p, k>> \in OpenFiles /\ fds[p][k].dentry = c
  /\ IF d = null THEN <<p, k>> \notin OpenFiles' ELSE <<p, k>> \in OpenFiles' /\ fds'[p][k].dentry = d

LEMMA MovesUsers ==
  ASSUME NEW p, NEW k, NEW c, NEW d, Moves(p, k, c, d)
  PROVE  \A x : x # null =>
           \A o : o \in FilesOf(x)' <=> IF o = <<p, k>> THEN x = d ELSE o \in FilesOf(x)
<1>1. SUFFICES ASSUME NEW x, x # null, NEW o
               PROVE  o \in FilesOf(x)' <=> IF o = <<p, k>> THEN x = d ELSE o \in FilesOf(x)
  BY Zenon
<1>2. CASE o = <<p, k>>
  <2>1. o[1] = p /\ o[2] = k
    BY <1>2
  <2>. QED
    BY <1>1, <1>2, <2>1, Zenon DEF Moves, FilesOf
<1>3. CASE o # <<p, k>>
  BY <1>3, Zenon DEF Moves, FilesOf
<1>. QED
  BY <1>2, <1>3, Zenon

\* One entry of the table of p changes.
LEMMA FdMoves ==
  ASSUME FdTypes, NEW p \in Proc, NEW k \in 1..(Len(fds[p]) + 1), k <= MaxFd, NEW v \in Descriptor,
         fds' = [fds EXCEPT ![p] = Put(fds[p], k, v)]
  PROVE  /\ FdTypes' /\ Moves(p, k, IF k \in DOMAIN fds[p] THEN fds[p][k].dentry ELSE null, v.dentry)
<1>0. PICK f, g : f = fds[p] /\ g = Put(f, k, v)
  BY Zenon
<1>1. f \in Seq(Descriptor) /\ Len(f) <= MaxFd /\ Len(f) \in Nat /\ fds \in [Proc -> Seq(Descriptor)]
  BY <1>0 DEF FdTypes
<1>2. /\ g \in Seq(Descriptor) /\ DOMAIN g = DOMAIN f \cup {k} /\ g[k] = v
      /\ \A j \in DOMAIN f : j # k => g[j] = f[j]
      /\ Len(g) = (IF k = Len(f) + 1 THEN Len(f) + 1 ELSE Len(f))
  <2>1. k \in 1..(Len(f) + 1) /\ v \in Descriptor /\ f \in Seq(Descriptor)
    BY <1>0, <1>1, Zenon
  <2>2. /\ Put(f, k, v) \in Seq(Descriptor) /\ DOMAIN Put(f, k, v) = DOMAIN f \cup {k}
        /\ Put(f, k, v)[k] = v /\ \A j \in DOMAIN f : j # k => Put(f, k, v)[j] = f[j]
        /\ Len(Put(f, k, v)) = (IF k = Len(f) + 1 THEN Len(f) + 1 ELSE Len(f))
    BY <2>1, PutFd, ZenonT(30)
  <2>. QED
    BY <1>0, <2>2, Zenon
<1>3. Len(g) <= MaxFd
  BY <1>1, <1>2
<1>4. fds' = [fds EXCEPT ![p] = g]
  BY <1>0, Zenon
<1>5. DOMAIN fds' = Proc /\ fds'[p] = g /\ \A r \in Proc : r # p => fds'[r] = fds[r]
  BY <1>1, <1>4
<1>6. FdTypes'
  BY <1>2, <1>3, <1>4, <1>5, ZenonT(30) DEF FdTypes
<1>7. k \in 1..MaxFd
  BY <1>0, <1>1, FilesAssumption
<1>8. \A o : o \in OpenFiles <=> /\ o \in Proc \X (1..MaxFd) /\ o[2] \in DOMAIN fds[o[1]]
                                 /\ fds[o[1]][o[2]].dentry # null
  BY FileIs, Zenon
<1>9. \A o : o \in OpenFiles' <=> /\ o \in Proc \X (1..MaxFd) /\ o[2] \in DOMAIN fds'[o[1]]
                                  /\ fds'[o[1]][o[2]].dentry # null
  BY <1>6 DEF OpenFiles, BadFD
<1>10. ASSUME NEW o, o # <<p, k>>
       PROVE  /\ (o \in OpenFiles' <=> o \in OpenFiles)
              /\ o \in OpenFiles => fds'[o[1]][o[2]].dentry = fds[o[1]][o[2]].dentry
  <2>1. CASE o \notin Proc \X (1..MaxFd)
    BY <1>8, <1>9, <2>1, Zenon
  <2>2. CASE o \in Proc \X (1..MaxFd)
    <3>1. o[1] \in Proc /\ o = <<o[1], o[2]>>
      BY <2>2
    <3>2. CASE o[1] # p
      BY <1>5, <1>8, <1>9, <2>2, <3>1, <3>2, Zenon
    <3>3. CASE o[1] = p
      <4>1. o[2] # k
        BY <1>10, <3>1, <3>3, Zenon
      <4>2. (o[2] \in DOMAIN fds'[o[1]] <=> o[2] \in DOMAIN fds[o[1]])
            /\ (o[2] \in DOMAIN fds[o[1]] => fds'[o[1]][o[2]] = fds[o[1]][o[2]])
        <5>1. fds'[o[1]] = g /\ fds[o[1]] = f
          BY <1>0, <1>5, <3>3, Zenon
        <5>. QED
          BY <1>2, <4>1, <5>1, Zenon
      <4>. QED
        BY <1>8, <1>9, <2>2, <4>2, Zenon
    <3>. QED
      BY <3>2, <3>3, Zenon
  <2>. QED
    BY <2>1, <2>2, Zenon
<1>11. <<p, k>> \in OpenFiles <=> k \in DOMAIN f /\ f[k].dentry # null
  <2>1. <<p, k>> \in Proc \X (1..MaxFd) /\ <<p, k>>[1] = p /\ <<p, k>>[2] = k
    BY <1>7
  <2>. QED
    BY <1>0, <1>8, <2>1, Zenon
<1>12. (<<p, k>> \in OpenFiles' <=> v.dentry # null) /\ fds'[p][k].dentry = v.dentry
  <2>1. <<p, k>> \in Proc \X (1..MaxFd) /\ <<p, k>>[1] = p /\ <<p, k>>[2] = k
    BY <1>7
  <2>2. k \in DOMAIN fds'[p] /\ fds'[p][k] = v
    BY <1>2, <1>5, Zenon
  <2>. QED
    BY <1>9, <2>1, <2>2, Zenon
<1>. QED
  BY <1>0, <1>6, <1>7, <1>10, <1>11, <1>12, Zenon DEF Moves

\* A descriptor more, a descriptor less, and one that stays with its file.
LEMMA FileOpens ==
  ASSUME DentTypes, NEW p, NEW k, NEW d, d # null, Moves(p, k, null, d)
  PROVE  /\ \A x : x # null /\ x # d => FilesOf(x)' = FilesOf(x)
         /\ Cardinality(FilesOf(d)') = Cardinality(FilesOf(d)) + 1
<1>1. \A x : x # null => \A o : o \in FilesOf(x)' <=> IF o = <<p, k>> THEN x = d ELSE o \in FilesOf(x)
  BY MovesUsers, Zenon
<1>2. \A x : <<p, k>> \notin FilesOf(x)
  BY Zenon DEF Moves, FilesOf
<1>3. ASSUME NEW x, x # null, x # d PROVE FilesOf(x)' = FilesOf(x)
  <2>1. \A o : o \in FilesOf(x)' <=> o \in FilesOf(x)
    BY <1>1, <1>2, <1>3, Zenon
  <2>. QED
    BY <2>1
<1>4. /\ IsFiniteSet(FilesOf(d)) /\ <<p, k>> \in FilesOf(d)'
      /\ \A o : o # <<p, k>> => (o \in FilesOf(d)' <=> o \in FilesOf(d))
  BY <1>1, FewUsers, Zenon
<1>. QED
  BY <1>2, <1>3, <1>4, OneMore, Zenon

LEMMA FileCloses ==
  ASSUME DentTypes, NEW p, NEW k, NEW c, c # null, Moves(p, k, c, null)
  PROVE  /\ \A x : x # null /\ x # c => FilesOf(x)' = FilesOf(x)
         /\ Cardinality(FilesOf(c)') = Cardinality(FilesOf(c)) - 1
<1>1. \A x : x # null => \A o : o \in FilesOf(x)' <=> IF o = <<p, k>> THEN x = null ELSE o \in FilesOf(x)
  BY MovesUsers, Zenon
<1>2. \A x : <<p, k>> \in FilesOf(x) <=> x = c
  <2>1. <<p, k>>[1] = p /\ <<p, k>>[2] = k
    OBVIOUS
  <2>. QED
    BY <2>1, Zenon DEF Moves, FilesOf
<1>3. ASSUME NEW x, x # null, x # c PROVE FilesOf(x)' = FilesOf(x)
  <2>1. \A o : o \in FilesOf(x)' <=> o \in FilesOf(x)
    BY <1>1, <1>2, <1>3, Zenon
  <2>. QED
    BY <2>1
<1>4. /\ IsFiniteSet(FilesOf(c)) /\ <<p, k>> \in FilesOf(c)
      /\ \A o : o \in FilesOf(c)' <=> o \in FilesOf(c) /\ o # <<p, k>>
  BY <1>1, <1>2, FewUsers, Zenon
<1>. QED
  BY <1>3, <1>4, OneLess, Zenon

\* The dentries of the open files exist.
LEMMA FilesExist ==
  ASSUME CountsExact, NEW p, NEW k, NEW c, NEW d, Moves(p, k, c, d), d # null => d \in DOMAIN dent,
         DOMAIN dent' = DOMAIN dent
  PROVE  \A o \in OpenFiles' : fds'[o[1]][o[2]].dentry \in DOMAIN dent'
<1>1. SUFFICES ASSUME NEW o \in OpenFiles' PROVE fds'[o[1]][o[2]].dentry \in DOMAIN dent
  BY Zenon
<1>2. CASE o = <<p, k>>
  <2>1. o[1] = p /\ o[2] = k
    BY <1>2
  <2>. QED
    BY <1>2, <2>1, Zenon DEF Moves
<1>3. CASE o # <<p, k>>
  BY <1>3, Zenon DEF Moves, CountsExact
<1>. QED
  BY <1>2, <1>3, Zenon

LEMMA OpenedKeeps ==
  ASSUME FilesInv, panic = "none", Opened
  PROVE  FilesInv'
<1>0. DentTypes /\ FdTypes /\ MapTypes /\ CallTypes /\ UnhashOk /\ CountsExact /\ CacheExact
  BY Zenon DEF FilesInv
<1>1. op = "open" /\ Finish /\ Looking
  BY DEF Opened, Looking
<1>2. Pending = null /\ unhash = <<>>
  BY <1>0, <1>1, LookingIs, Zenon
<1>3. CASE it = null
  <2>1. UNCHANGED <<dent, inode, dcache, fds>>
    BY <1>3, Zenon DEF Opened, dentryVars
  <2>. QED
    BY <1>1, <1>2, <2>1, FinishKeeps, Zenon
<1>4. CASE it # null
  <2>1. PICK q, p, k : q = it /\ p = caller /\ k = get_next_fd(fds[p])
    BY Zenon
  <2>2. PICK v : v = [dentry |-> q, offset |-> 0]
    BY Zenon
  <2>3. q \in DOMAIN dent /\ q # null /\ p \in Proc /\ k <= MaxFd
    BY <1>0, <1>1, <1>4, <2>1, Zenon DEF CallTypes
  <2>4. /\ dent' = inc_rc(dent, q) /\ fds' = [fds EXCEPT ![p] = Put(fds[p], k, v)]
        /\ inode' = inode /\ dcache' = dcache
    BY <1>4, <2>1, <2>2, Zenon DEF Opened
  <2>5. /\ op' = "none" /\ path' = <<>> /\ at' = 0 /\ it' = null /\ mapped' = mapped /\ panic' = panic
        /\ unhash' = unhash
    BY <1>1, Zenon DEF Finish
  <2>6. v \in Descriptor /\ v.dentry = q
    BY <1>0, <2>2, <2>3 DEF DentTypes, Descriptor
  <2>7. fds[p] \in Seq(Descriptor)
    BY <1>0, <2>3, Zenon DEF FdTypes
  <2>8. k \in 1..(Len(fds[p]) + 1) /\ (IF k \in DOMAIN fds[p] THEN fds[p][k].dentry ELSE null) = null
    BY <2>1, <2>7, NextFd, Zenon
  <2>9. FdTypes' /\ Moves(p, k, null, q)
    BY <1>0, <2>3, <2>4, <2>6, <2>8, FdMoves, Zenon
  <2>10. Pending' = null /\ ~Looking' /\ Stopped' /\ CallTypes'
    <3>1. Pending' = null /\ ~Looking' /\ Stopped'
      BY <2>5 DEF Pending, Looking, Stopped
    <3>2. 0 \in Nat /\ <<>> \in Seq(STRING)
      OBVIOUS
    <3>. QED
      BY <1>2, <2>5, <3>1, <3>2 DEF CallTypes
  <2>11. /\ DentTypes' /\ SameTree(dent, dent') /\ \A x : ChildrenOf(x)' = ChildrenOf(x)
         /\ \A x \in DOMAIN dent : x # q => dent'[x].rc = dent[x].rc
         /\ dent'[q].rc = dent[q].rc + 1
    BY <1>0, <1>2, <2>3, <2>4, <2>10, Counted, Zenon
  <2>12. CacheExact' /\ UnhashOk' /\ MapTypes'
    BY <1>0, <2>4, <2>5, <2>11, CachesKept, Zenon DEF MapTypes
  <2>13. CountsExact'
    <3>1. DOMAIN dent' = DOMAIN dent
      BY <2>11, Zenon DEF SameTree
    <3>2. \A o \in OpenFiles' : fds'[o[1]][o[2]].dentry \in DOMAIN dent'
      BY <1>0, <2>3, <2>9, <3>1, FilesExist, Zenon
    <3>3. \A d : MapsOf(d)' = MapsOf(d)
      BY <2>5, Zenon DEF MapsOf
    <3>4. /\ \A x : x # null /\ x # q => FilesOf(x)' = FilesOf(x)
          /\ Cardinality(FilesOf(q)') = Cardinality(FilesOf(q)) + 1
      BY <1>0, <2>3, <2>9, FileOpens, Zenon
    <3>5. ASSUME NEW d \in DOMAIN dent
          PROVE  dent'[d].rc = Cardinality(ChildrenOf(d)) + Cardinality(FilesOf(d)') + Cardinality(MapsOf(d))
                               + (IF d = root THEN 1 ELSE 0) + (IF d = null THEN 1 ELSE 0)
      <4>1. dent[d].rc = Cardinality(ChildrenOf(d)) + Cardinality(FilesOf(d)) + Cardinality(MapsOf(d))
                         + (IF d = root THEN 1 ELSE 0) + (IF d = null THEN 1 ELSE 0)
        BY <1>0, <1>2, Zenon DEF CountsExact
      <4>2. /\ Cardinality(ChildrenOf(d)) \in Nat /\ Cardinality(FilesOf(d)) \in Nat
            /\ Cardinality(MapsOf(d)) \in Nat
        BY <1>0, FewUsers, Numbers, Zenon
      <4>3. d # null
        BY <1>0, FilesAssumption, Zenon DEF DentTypes
      <4>. QED
        BY <2>11, <3>4, <4>1, <4>2, <4>3, SMTT(30)
    <3>. QED
      BY <1>0, <2>5, <2>10, <2>11, <3>1, <3>2, <3>3, <3>5, Zenon DEF CountsExact
  <2>. QED
    BY <2>9, <2>10, <2>11, <2>12, <2>13, Zenon DEF FilesInv
<1>. QED
  BY <1>3, <1>4, Zenon

-----------------------------------------------------------------------------
(* calls begin and go on *)

\* open() and creat() begin at the root.
LEMMA BeginKeeps ==
  ASSUME FilesInv, panic = "none", NEW what \in {"open", "creat"}, NEW p, NEW q \in Path, Begin(what, p, q, root),
         what = "open" => p \in Proc /\ get_next_fd(fds[p]) <= MaxFd,
         UNCHANGED <<dent, inode, dcache, fds, mapped, panic, unhash>>
  PROVE  FilesInv'
<1>0. DentTypes /\ CallTypes /\ Exact
  BY InvParts, Zenon DEF Exact
<1>1. /\ op = "none" /\ op' = what /\ caller' = p /\ path' = q /\ at' = 0 /\ it' = root /\ trail' = <<root>>
  BY DEF Begin
<1>2. dent' = dent /\ dcache' = dcache /\ fds' = fds /\ panic' = panic /\ unhash' = unhash
  BY Zenon
<1>3. root \in DOMAIN dent /\ root # null /\ q \in Seq(STRING) /\ unhash = <<>>
  BY <1>0, <1>1, FilesAssumption DEF DentTypes, CallTypes
<1>4. Exact'
  <2>1. Pending = null /\ Pending' = null
    BY <1>1 DEF Pending
  <2>. QED
    BY <1>0, <2>1, Quiet, Zenon
<1>5. CallTypes'
  BY <1>1, <1>2, <1>3, SMTT(30) DEF CallTypes
<1>6. Trail'
  <2>1. /\ trail' \in Seq(DOMAIN dent') /\ Len(trail') = 1 /\ trail'[1] = root /\ Len(path') \in Nat
    BY <1>1, <1>2, <1>3, SMTT(30)
  <2>2. op' # "parent" /\ it' # null
    BY <1>1, <1>3
  <2>3. \A k \in 1..(Len(trail') - 1) : FALSE
    BY <2>1
  <2>. QED
    BY <1>1, <2>1, <2>2, <2>3, SMTT(30) DEF Trail
<1>7. Stopped'
  BY <1>2, Zenon DEF Stopped
<1>. QED
  BY <1>4, <1>5, <1>6, <1>7, Zenon DEF FilesInv, Exact

LEMMA CreatedKeeps ==
  ASSUME FilesInv, panic = "none", Created
  PROVE  FilesInv'
<1>0. DentTypes /\ CallTypes /\ Exact /\ (Looking => Trail)
  BY InvParts, Zenon DEF Exact
<1>1. op = "creat" /\ Looking /\ UNCHANGED <<dent, inode, dcache, fds>>
  BY DEF Created, Looking, dentryVars
<1>2. Pending = null /\ unhash = <<>>
  BY <1>0, <1>1, LookingIs, Zenon
<1>3. CASE it # null /\ Finish
  BY <1>1, <1>2, <1>3, FinishKeeps, Zenon
<1>4. CASE /\ it = null /\ op' = "parent" /\ at' = 0 /\ it' = root
           /\ UNCHANGED <<mapped, panic, caller, path, trail, unhash>>
  <2>1. /\ dent' = dent /\ inode' = inode /\ dcache' = dcache /\ fds' = fds /\ mapped' = mapped
        /\ unhash' = unhash /\ panic' = panic /\ path' = path /\ trail' = trail
    BY <1>1, <1>4, Zenon
  <2>2. root \in DOMAIN dent /\ root # null
    BY <1>0, FilesAssumption, Zenon DEF DentTypes
  <2>3. Exact'
    <3>1. Pending' = null
      BY <1>4 DEF Pending
    <3>. QED
      BY <1>0, <1>2, <2>1, <3>1, Quiet, Zenon
  <2>4. CallTypes'
    BY <1>0, <1>2, <1>4, <2>1, <2>2 DEF CallTypes
  <2>5. Trail'
    <3>1. Trail /\ Len(trail) > 0 /\ trail[1] = root
      BY <1>0, <1>1, Zenon DEF Trail
    <3>2. at' + 1 = 1 /\ at' < Len(trail')
      BY <1>4, <2>1, <3>1
    <3>3. op' = "parent" /\ it = null /\ it' = trail'[at' + 1]
      BY <1>4, <2>1, <3>1, <3>2, Zenon
    <3>. QED
      BY <2>1, <3>1, <3>2, <3>3, Zenon DEF Trail
  <2>6. Stopped'
    BY <2>1, Zenon DEF Stopped
  <2>. QED
    BY <2>3, <2>4, <2>5, <2>6, Zenon DEF FilesInv, Exact
<1>. QED
  BY <1>3, <1>4, Zenon DEF Created

LEMMA ParentKeeps ==
  ASSUME FilesInv, panic = "none", ParentFound
  PROVE  FilesInv'
<1>0. CallTypes
  BY Zenon DEF FilesInv
<1>1. Looking /\ Finish /\ UNCHANGED <<dent, inode, dcache, fds>>
  BY DEF ParentFound, Looking, dentryVars
<1>2. Pending = null /\ unhash = <<>>
  BY <1>0, <1>1, LookingIs, Zenon
<1>. QED
  BY <1>1, <1>2, FinishKeeps, Zenon

-----------------------------------------------------------------------------
(* calls on descriptors *)

LEMMA FailsKeeps ==
  ASSUME FilesInv, UNCHANGED fileVars
  PROVE  FilesInv'
<1>1. /\ UNCHANGED <<dent, inode, dcache, fds, mapped, op, caller, path, at, it, trail, unhash>>
      /\ panic' = panic /\ op' = op /\ it' = it /\ dent' = dent
  BY Zenon DEF fileVars
<1>2. Stopped'
  BY <1>1, Zenon DEF FilesInv, Stopped, Looking
<1>. QED
  BY <1>1, <1>2, Still, Zenon

LEMMA GoodFd ==
  ASSUME FdTypes, NEW p \in Proc, NEW k \in 1..MaxFd, ~BadFD(p, k)
  PROVE  /\ k \in DOMAIN fds[p] /\ fds[p][k].dentry # null /\ fds[p] \in Seq(Descriptor)
         /\ k \in 1..(Len(fds[p]) + 1) /\ k <= MaxFd /\ fds[p][k] \in Descriptor
         /\ <<p, k>> \in OpenFiles
<1>1. k \in DOMAIN fds[p] /\ fds[p][k].dentry # null /\ fds[p] \in Seq(Descriptor)
  BY Zenon DEF BadFD, FdTypes
<1>2. k \in 1..(Len(fds[p]) + 1) /\ fds[p][k] \in Descriptor
  BY <1>1
<1>3. k <= MaxFd
  BY FilesAssumption
<1>4. <<p, k>> \in OpenFiles
  BY DEF OpenFiles
<1>. QED
  BY <1>1, <1>2, <1>3, <1>4, Zenon

\* A change of one entry is one of Put().
Entry(f, k, v) == [f EXCEPT ![k] = v]

LEMMA EntryIs ==
  ASSUME NEW f, f \in Seq(Descriptor), NEW k \in DOMAIN f, NEW v
  PROVE  Entry(f, k, v) = Put(f, k, v)
<1>1. DOMAIN f \cup {k} = DOMAIN f
  BY Zenon
<1>2. Put(f, k, v) = [x \in DOMAIN f |-> IF x = k THEN v ELSE f[x]]
  BY <1>1, Zenon DEF Put
<1>. QED
  BY <1>2 DEF Entry

\* close() takes the file out of its descriptor, and has its reference to give back.
LEMMA CloseKeeps ==
  ASSUME FilesInv, panic = "none", NEW p \in Proc, NEW k \in 1..MaxFd, close(p, k)
  PROVE  FilesInv'
<1>0. DentTypes /\ FdTypes /\ MapTypes /\ CallTypes /\ UnhashOk /\ CountsExact /\ CacheExact
  BY Zenon DEF FilesInv
<1>1. CASE BadFD(p, k)
  BY <1>1, FailsKeeps, Zenon DEF close, Fails
<1>2. CASE ~BadFD(p, k)
  <2>1. PICK c, v : c = fds[p][k].dentry /\ v = Unused
    BY Zenon
  <2>2. /\ k \in DOMAIN fds[p] /\ c # null /\ k \in 1..(Len(fds[p]) + 1) /\ k <= MaxFd /\ <<p, k>> \in OpenFiles
    BY <1>0, <1>2, <2>1, GoodFd, Zenon
  <2>3. <<p, k>>[1] = p /\ <<p, k>>[2] = k
    OBVIOUS
  <2>4. c \in DOMAIN dent
    BY <1>0, <2>1, <2>2, <2>3, Zenon DEF CountsExact
  <2>5. /\ op = "none" /\ op' = "close" /\ path' = <<>> /\ at' = 0 /\ it' = c
        /\ fds' = [fds EXCEPT ![p][k] = v]
        /\ dent' = dent /\ inode' = inode /\ dcache' = dcache /\ mapped' = mapped /\ panic' = panic
        /\ unhash' = unhash
    BY <1>2, <2>1, Zenon DEF close, Begin, dentryVars
  <2>6. v \in Descriptor /\ v.dentry = null
    BY <2>1 DEF Unused, Descriptor
  <2>7. fds' = [fds EXCEPT ![p] = Put(fds[p], k, v)]
    <3>1. fds[p] \in Seq(Descriptor) /\ k \in DOMAIN fds[p]
      BY <1>0, <2>2, Zenon DEF FdTypes
    <3>2. fds' = [fds EXCEPT ![p] = Entry(fds[p], k, v)]
      BY <2>5, Zenon DEF Entry
    <3>. QED
      BY <3>1, <3>2, EntryIs, Zenon
  <2>8. (IF k \in DOMAIN fds[p] THEN fds[p][k].dentry ELSE null) = c
    BY <2>1, <2>2, Zenon
  <2>9. FdTypes' /\ Moves(p, k, c, null)
    BY <1>0, <2>2, <2>6, <2>7, <2>8, FdMoves, Zenon
  <2>10. Pending = null /\ Pending' = c /\ ~Looking' /\ Stopped' /\ CallTypes'
    <3>1. Pending = null /\ Pending' = c /\ ~Looking' /\ Stopped'
      BY <2>5 DEF Pending, Looking, Stopped
    <3>2. 0 \in Nat /\ <<>> \in Seq(STRING) /\ unhash = <<>>
      BY <1>0, <2>5 DEF CallTypes
    <3>. QED
      BY <2>4, <2>5, <3>1, <3>2 DEF CallTypes
  <2>11. SameTree(dent, dent') /\ DentTypes' /\ MapTypes'
    BY <1>0, <2>5, Zenon DEF SameTree, DentTypes, MapTypes
  <2>12. CacheExact' /\ UnhashOk'
    BY <1>0, <2>5, <2>11, CachesKept, Zenon
  <2>13. CountsExact'
    <3>1. DOMAIN dent' = DOMAIN dent
      BY <2>5, Zenon
    <3>2. \A o \in OpenFiles' : fds'[o[1]][o[2]].dentry \in DOMAIN dent'
      <4>1. null # null => null \in DOMAIN dent
        BY Zenon
      <4>. QED
        BY <1>0, <2>9, <3>1, <4>1, FilesExist, Zenon
    <3>3. \A d : MapsOf(d)' = MapsOf(d) /\ ChildrenOf(d)' = ChildrenOf(d)
      BY <2>5, Zenon DEF MapsOf, ChildrenOf
    <3>4. /\ \A x : x # null /\ x # c => FilesOf(x)' = FilesOf(x)
          /\ Cardinality(FilesOf(c)') = Cardinality(FilesOf(c)) - 1
      BY <1>0, <2>2, <2>9, FileCloses, Zenon
    <3>5. ASSUME NEW d \in DOMAIN dent
          PROVE  dent[d].rc = Cardinality(ChildrenOf(d)) + Cardinality(FilesOf(d)') + Cardinality(MapsOf(d))
                              + (IF d = root THEN 1 ELSE 0) + (IF d = c THEN 1 ELSE 0)
      <4>1. dent[d].rc = Cardinality(ChildrenOf(d)) + Cardinality(FilesOf(d)) + Cardinality(MapsOf(d))
                         + (IF d = root THEN 1 ELSE 0) + (IF d = null THEN 1 ELSE 0)
        BY <1>0, <2>10, Zenon DEF CountsExact
      <4>2. /\ Cardinality(ChildrenOf(d)) \in Nat /\ Cardinality(FilesOf(d)) \in Nat
            /\ Cardinality(MapsOf(d)) \in Nat
        BY <1>0, FewUsers, Numbers, Zenon
      <4>3. d # null
        BY <1>0, FilesAssumption, Zenon DEF DentTypes
      <4>. QED
        BY <3>4, <4>1, <4>2, <4>3
    <3>. QED
      BY <1>0, <2>5, <2>10, <3>1, <3>2, <3>3, <3>5, Zenon DEF CountsExact
  <2>. QED
    BY <2>9, <2>10, <2>11, <2>12, <2>13, Zenon DEF FilesInv
<1>. QED
  BY <1>1, <1>2, Zenon

\* A new offset leaves the file of a descriptor as it is.
LEMMA OffsetKeeps ==
  ASSUME FilesInv, panic = "none", op = "none", NEW p \in Proc, NEW k \in 1..MaxFd, ~BadFD(p, k),
         NEW new \in Nat, SetOffset(p, k, new)
  PROVE  FilesInv'
<1>0. DentTypes /\ FdTypes /\ MapTypes /\ CallTypes /\ UnhashOk /\ CountsExact /\ CacheExact
  BY Zenon DEF FilesInv
<1>1. PICK c, v : c = fds[p][k].dentry /\ v = [fds[p][k] EXCEPT !.offset = new]
  BY Zenon
<1>2. /\ k \in DOMAIN fds[p] /\ c # null /\ k \in 1..(Len(fds[p]) + 1) /\ k <= MaxFd
      /\ <<p, k>> \in OpenFiles /\ fds[p][k] \in Descriptor
  BY <1>0, <1>1, GoodFd, Zenon
<1>3. v \in Descriptor /\ v.dentry = c
  BY <1>1, <1>2 DEF Descriptor
<1>4. <<p, k>>[1] = p /\ <<p, k>>[2] = k
  OBVIOUS
<1>5. c \in DOMAIN dent
  BY <1>0, <1>1, <1>2, <1>4, Zenon DEF CountsExact
<1>6. /\ fds' = [fds EXCEPT ![p][k] = v]
      /\ dent' = dent /\ inode' = inode /\ dcache' = dcache /\ mapped' = mapped /\ panic' = panic
      /\ unhash' = unhash /\ op' = op /\ path' = path /\ at' = at /\ it' = it /\ caller' = caller
  BY <1>1, Zenon DEF SetOffset, dentryVars, lookupVars
<1>7. fds' = [fds EXCEPT ![p] = Put(fds[p], k, v)]
  <2>1. fds[p] \in Seq(Descriptor) /\ k \in DOMAIN fds[p]
    BY <1>0, <1>2, Zenon DEF FdTypes
  <2>2. fds' = [fds EXCEPT ![p] = Entry(fds[p], k, v)]
    BY <1>6, Zenon DEF Entry
  <2>. QED
    BY <2>1, <2>2, EntryIs, Zenon
<1>8. (IF k \in DOMAIN fds[p] THEN fds[p][k].dentry ELSE null) = c
  BY <1>1, <1>2, Zenon
<1>9. FdTypes' /\ Moves(p, k, c, c)
  BY <1>0, <1>2, <1>3, <1>7, <1>8, FdMoves, Zenon
<1>10. Pending' = Pending /\ ~Looking' /\ Stopped' /\ CallTypes'
  BY <1>0, <1>6 DEF Pending, Looking, Stopped, CallTypes
<1>11. SameTree(dent, dent') /\ DentTypes' /\ MapTypes'
  BY <1>0, <1>6, Zenon DEF SameTree, DentTypes, MapTypes
<1>12. CacheExact' /\ UnhashOk'
  BY <1>0, <1>6, <1>11, CachesKept, Zenon
<1>13. CountsExact'
  <2>1. DOMAIN dent' = DOMAIN dent
    BY <1>6, Zenon
  <2>2. \A o \in OpenFiles' : fds'[o[1]][o[2]].dentry \in DOMAIN dent'
    BY <1>0, <1>5, <1>9, <2>1, FilesExist, Zenon
  <2>3. \A d : MapsOf(d)' = MapsOf(d) /\ ChildrenOf(d)' = ChildrenOf(d)
    BY <1>6, Zenon DEF MapsOf, ChildrenOf
  <2>4. ASSUME NEW x, x # null PROVE FilesOf(x)' = FilesOf(x)
    <3>1. \A o : o \in FilesOf(x)' <=> IF o = <<p, k>> THEN x = c ELSE o \in FilesOf(x)
      BY <1>9, <2>4, MovesUsers, Zenon
    <3>2. <<p, k>> \in FilesOf(x) <=> x = c
      BY <1>1, <1>2, <1>4, Zenon DEF FilesOf
    <3>3. \A o : o \in FilesOf(x)' <=> o \in FilesOf(x)
      BY <3>1, <3>2, Zenon
    <3>. QED
      BY <3>3
  <2>5. \A d \in DOMAIN dent : d # null
    BY <1>0, FilesAssumption, Zenon DEF DentTypes
  <2>. QED
    BY <1>0, <1>6, <1>10, <2>1, <2>2, <2>3, <2>4, <2>5, Zenon DEF CountsExact
<1>. QED
  BY <1>9, <1>10, <1>11, <1>12, <1>13, Zenon DEF FilesInv

\* lseek() and read() set an offset that is not negative, or fail.
LEMMA LseekIs ==
  ASSUME FilesInv, NEW p \in Proc, NEW k \in 1..MaxFd, NEW s \in Seek, lseek(p, k, s[1], s[2])
  PROVE  UNCHANGED fileVars \/ \E n \in Nat : ~BadFD(p, k) /\ SetOffset(p, k, n)
<1>. DEFINE new == IF s[2] = "Set" THEN s[1] ELSE fds[p][k].offset + s[1]
<1>2. CASE ~BadFD(p, k) /\ ~(new < 0) /\ SetOffset(p, k, new)
  <2>1. FdTypes
    BY Zenon DEF FilesInv
  <2>2. fds[p][k] \in Descriptor
    BY <1>2, <2>1, GoodFd, Zenon
  <2>3. fds[p][k].offset \in Nat /\ s[1] \in Int
    BY <2>2, FilesAssumption, SMTT(30) DEF Descriptor
  <2>4. new \in Nat
    BY <1>2, <2>3
  <2>5. PICK n : n = new
    BY Zenon
  <2>6. n \in Nat /\ SetOffset(p, k, n)
    BY <1>2, <2>4, <2>5, Zenon
  <2>. QED
    BY <1>2, <2>6, Zenon
<1>. QED
  BY <1>2, Zenon DEF lseek, Fails

-----------------------------------------------------------------------------
(* reading *)

LEMMA MinTwo ==
  ASSUME NEW a \in Nat, NEW b \in Nat
  PROVE  Min({a, b}) = IF a <= b THEN a ELSE b
<1>1. Min({a, b}) \in {a, b} /\ \A j \in {a, b} : Min({a, b}) <= j
  <2>1. {a, b} \subseteq Nat /\ {a, b} # {}
    BY Zenon
  <2>. QED
    BY <2>1, FirstOf, Zenon
<1>. QED
  BY <1>1

\* The page of an offset and the place in it.
LEMMA Place ==
  ASSUME NEW n \in Nat
  PROVE  n % PG_SZ \in Nat /\ n % PG_SZ < PG_SZ /\ n % PG_SZ <= n /\ floor_pg(n) = n - (n % PG_SZ)
<1>1. PG_SZ \in Nat /\ PG_SZ > 0
  BY PageAssumption
<1>2. n \div PG_SZ \in Nat /\ n % PG_SZ \in Nat /\ n % PG_SZ < PG_SZ
      /\ n = (n \div PG_SZ) * PG_SZ + (n % PG_SZ)
  BY <1>1, SMT
<1>3. (n \div PG_SZ) * PG_SZ \in Nat
  BY <1>1, <1>2
<1>4. floor_pg(n) = n - (n % PG_SZ)
  BY Zenon DEF floor_pg
<1>. QED
  BY <1>2, <1>3, <1>4

LEMMA PageByte ==
  ASSUME NEW c, NEW q \in Nat, NEW j \in Nat, j >= 1, j <= PG_SZ, q + j \in DOMAIN Content[c]
  PROVE  PageOf(c, q)[j] = Content[c][q + j]
<1>1. j \in 1..(2 * PG_SZ)
  BY PageAssumption
<1>. QED
  BY <1>1 DEF PageOf

\* The byte that Inode::read() copies to place k: n1 bytes are from the page pg, the
\* others from the pages from start on.
Later(c, n1, start, k) == PageOf(c, start + floor_pg(k - n1 - 1))[((k - n1 - 1) % PG_SZ) + 1]
Copied(c, off, pg, n1, start, k) ==
  IF k <= n1 THEN PageOf(c, pg)[(off % PG_SZ) + k] ELSE Later(c, n1, start, k)
Parts(off, left, pg, n1, start) ==
  \/ pg = off /\ n1 = 0 /\ start = pg
  \/ pg # off /\ n1 = First(off, left) /\ start = pg + PG_SZ

LEMMA LaterByte ==
  ASSUME NEW c, NEW off \in Nat, NEW k \in Nat, NEW n1 \in Nat, NEW start \in Nat, start - n1 = off, n1 < k,
         off + k \in DOMAIN Content[c]
  PROVE  Later(c, n1, start, k) = Content[c][off + k]
<1>1. PICK i \in Nat : i = k - n1 - 1
  <2>1. k - n1 - 1 \in Nat
    OBVIOUS
  <2>. QED
    BY <2>1, Zenon
<1>2. i % PG_SZ \in Nat /\ i % PG_SZ < PG_SZ /\ i % PG_SZ <= i /\ floor_pg(i) = i - (i % PG_SZ)
  BY Place, Zenon
<1>3. PICK j \in Nat : j = i % PG_SZ
  BY <1>2, Zenon
<1>4. PICK q, b : q = start + floor_pg(i) /\ b = j + 1
  BY Zenon
<1>5. j < PG_SZ /\ j <= i /\ q = start + (i - j)
  BY <1>2, <1>3, <1>4, Zenon
<1>6. q \in Nat /\ b \in Nat /\ b >= 1 /\ b <= PG_SZ /\ q + b = off + k
  BY <1>1, <1>4, <1>5, PageAssumption
<1>7. PageOf(c, q)[b] = Content[c][off + k]
  <2>1. q + b \in DOMAIN Content[c]
    BY <1>6, Zenon
  <2>2. PageOf(c, q)[b] = Content[c][q + b]
    BY <1>6, <2>1, PageByte, Zenon
  <2>. QED
    BY <1>6, <2>2, Zenon
<1>. QED
  BY <1>1, <1>3, <1>4, <1>7, Zenon DEF Later

LEMMA ByteRead ==
  ASSUME NEW c \in DOMAIN Content, NEW off \in Nat, NEW left \in Nat, off + left <= Len(Content[c]),
         NEW k \in 1..left, NEW pg, pg = floor_pg(off), NEW n1, NEW start, Parts(off, left, pg, n1, start)
  PROVE  Copied(c, off, pg, n1, start, k) = Content[c][off + k]
<1>0. PG_SZ \in Nat /\ PG_SZ > 0 /\ k \in Nat /\ k >= 1 /\ k <= left
  BY PageAssumption
<1>1. PICK m : m = off % PG_SZ
  BY Zenon
<1>2. m \in Nat /\ m < PG_SZ /\ m <= off /\ pg = off - m
  BY <1>1, Place, Zenon
<1>3. off + k \in DOMAIN Content[c]
  <2>1. Content[c] \in Seq(STRING)
    BY FilesAssumption, Zenon
  <2>. QED
    BY <1>0, <2>1
<1>4. First(off, left) = IF PG_SZ - m <= left THEN PG_SZ - m ELSE left
  <2>1. PG_SZ - m \in Nat
    BY <1>0, <1>2
  <2>. QED
    BY <1>1, <2>1, MinTwo, Zenon DEF First
<1>5. n1 \in Nat
  BY <1>0, <1>2, <1>4 DEF Parts
<1>6. CASE k <= n1
  <2>1. m + k \in Nat /\ m + k >= 1 /\ m + k <= PG_SZ /\ pg + (m + k) = off + k /\ pg \in Nat
    BY <1>0, <1>2, <1>4, <1>6 DEF Parts
  <2>2. PageOf(c, pg)[m + k] = Content[c][off + k]
    <3>1. pg + (m + k) \in DOMAIN Content[c]
      BY <1>3, <2>1, Zenon
    <3>2. PageOf(c, pg)[m + k] = Content[c][pg + (m + k)]
      BY <2>1, <3>1, PageByte, Zenon
    <3>. QED
      BY <2>1, <3>2, Zenon
  <2>. QED
    BY <1>1, <1>6, <2>2, Zenon DEF Copied
<1>7. CASE ~(k <= n1)
  <2>1. start \in Nat /\ start - n1 = off /\ n1 < k
    BY <1>0, <1>2, <1>4, <1>5, <1>7, SMTT(30) DEF Parts
  <2>2. Later(c, n1, start, k) = Content[c][off + k]
    BY <1>0, <1>3, <1>5, <2>1, LaterByte
  <2>. QED
    BY <1>7, <2>2, Zenon DEF Copied
<1>. QED
  BY <1>6, <1>7, Zenon

\* Inode::read() gives the bytes of the file from the offset on.
LEMMA ReadFileIs ==
  ASSUME NEW c \in DOMAIN Content, NEW off \in Nat, NEW n \in Nat
  PROVE  read_file(c, off, n) =
           (IF off >= Len(Content[c]) THEN <<>>
            ELSE SubSeq(Content[c], off + 1, Min({Len(Content[c]), off + n})))
<1>1. PICK here : here = Content[c]
  BY Zenon
<1>2. here \in Seq(STRING) /\ Len(here) \in Nat
  BY <1>1, FilesAssumption
<1>3. CASE off >= Len(here)
  BY <1>1, <1>3, Zenon DEF read_file
<1>4. CASE off < Len(here)
  <2>1. Len(here) - off \in Nat /\ off + n \in Nat /\ Len(here) - off > 0
    BY <1>2, <1>4
  <2>2. PICK left : left = Min({n, Len(here) - off})
    BY Zenon
  <2>3. left = (IF n <= Len(here) - off THEN n ELSE Len(here) - off)
    BY <2>1, <2>2, MinTwo, Zenon
  <2>4. left \in Nat /\ left <= Len(here) - off /\ left <= n /\ off + left <= Len(here)
    BY <1>2, <1>4, <2>1, <2>3
  <2>5. Min({Len(here), off + n}) = off + left
    <3>1. Min({Len(here), off + n}) = (IF Len(here) <= off + n THEN Len(here) ELSE off + n)
      BY <1>2, <2>1, MinTwo, Zenon
    <3>. QED
      BY <1>2, <1>4, <2>3, <3>1
  <2>6. SubSeq(here, off + 1, off + left) = [k \in 1..left |-> here[off + k]]
    BY <1>2, <2>4
  <2>7. read_file(c, off, n) = [k \in 1..left |-> here[off + k]]
    <3>1. CASE n = 0
      <4>1. read_file(c, off, n) = <<>> /\ left = 0
        BY <1>1, <2>3, <2>1, <3>1 DEF read_file
      <4>. QED
        BY <4>1
    <3>2. CASE n # 0
      <4>1. PICK pg : pg = floor_pg(off)
        BY Zenon
      <4>2. PICK n1, start : /\ n1 = (IF pg = off THEN 0 ELSE First(off, left))
                             /\ start = (IF pg = off THEN pg ELSE pg + PG_SZ)
        BY Zenon
      <4>3. ~(off >= Len(here))
        BY <1>2, <1>4
      <4>4. read_file(c, off, n) = [k \in 1..left |-> Copied(c, off, pg, n1, start, k)]
        BY <1>1, <2>2, <3>2, <4>1, <4>2, <4>3, ZenonT(30) DEF read_file, Copied, Later
      <4>5. \A k \in 1..left : Copied(c, off, pg, n1, start, k) = here[off + k]
        <5>1. off + left <= Len(Content[c]) /\ Parts(off, left, pg, n1, start)
          BY <1>1, <2>4, <4>2, Zenon DEF Parts
        <5>. QED
          BY <1>1, <2>4, <4>1, <5>1, ByteRead, SMTT(30)
      <4>. QED
        BY <4>4, <4>5, Zenon
    <3>. QED
      BY <3>1, <3>2, Zenon
  <2>. QED
    BY <1>1, <2>5, <2>6, <2>7, <1>2, <1>4, SMTT(30)
<1>5. off >= Len(here) \/ off < Len(here)
  BY <1>2
<1>. QED
  BY <1>3, <1>4, <1>5, Zenon

\* The file of a descriptor, and where it is.
LEMMA OpenInode ==
  ASSUME FilesInv, NEW p \in Proc, NEW k \in 1..MaxFd, ~BadFD(p, k)
  PROVE  /\ dent[fds[p][k].dentry].inode \in Clusters /\ fds[p][k].offset \in Nat
         /\ fds[p][k].offset % SizeMod \in Nat
         /\ ~IsDir(dent[fds[p][k].dentry].inode) => dent[fds[p][k].dentry].inode \in DOMAIN Content
<1>0. DentTypes /\ FdTypes /\ CountsExact
  BY Zenon DEF FilesInv
<1>1. fds[p][k] \in Descriptor /\ <<p, k>> \in OpenFiles
  BY <1>0, GoodFd, Zenon
<1>2. <<p, k>>[1] = p /\ <<p, k>>[2] = k
  OBVIOUS
<1>3. fds[p][k].dentry \in DOMAIN dent
  BY <1>0, <1>1, <1>2, Zenon DEF CountsExact
<1>4. dent[fds[p][k].dentry] \in DentryRecord
  BY <1>0, <1>3, Zenon DEF DentTypes
<1>5. dent[fds[p][k].dentry].inode \in Clusters /\ fds[p][k].offset \in Nat
  BY <1>1, <1>4 DEF DentryRecord, Descriptor
<1>6. \A n \in Nat : n % SizeMod \in Nat
  BY FilesAssumption
<1>. QED
  BY <1>5, <1>6, Zenon DEF Clusters, IsDir

LEMMA ReadIs ==
  ASSUME FilesInv, NEW p \in Proc, NEW k \in 1..MaxFd, NEW n \in Count, read(p, k, n)
  PROVE  UNCHANGED fileVars \/ \E v \in Nat : ~BadFD(p, k) /\ SetOffset(p, k, v)
<1>. DEFINE f == fds[p][k]
            c == dent[f.dentry].inode
            new == f.offset + Len(read_file(c, f.offset % SizeMod, n))
<1>2. CASE ~BadFD(p, k) /\ ~IsDir(c) /\ SetOffset(p, k, new)
  <2>1. c \in DOMAIN Content /\ f.offset \in Nat /\ f.offset % SizeMod \in Nat /\ n \in Nat
    BY <1>2, OpenInode, FilesAssumption, Zenon
  <2>2. PICK x, o : x = c /\ o = f.offset % SizeMod
    BY Zenon
  <2>3. x \in DOMAIN Content /\ o \in Nat
    BY <2>1, <2>2, Zenon
  <2>4. Len(read_file(x, o, n)) \in Nat
    <3>1. Content[x] \in Seq(STRING)
      BY <2>3, FilesAssumption, Zenon
    <3>2. PICK here : here = Content[x]
      BY Zenon
    <3>3. Len(here) \in Nat /\ o + n \in Nat
      BY <2>1, <2>3, <3>1, <3>2
    <3>4. PICK m : m = Min({Len(here), o + n})
      BY Zenon
    <3>5. m = IF Len(here) <= o + n THEN Len(here) ELSE o + n
      BY <3>3, <3>4, MinTwo, Zenon
    <3>6. read_file(x, o, n) = IF o >= Len(here) THEN <<>> ELSE SubSeq(here, o + 1, m)
      BY <2>1, <2>3, <3>2, <3>4, ReadFileIs, Zenon
    <3>7. m \in Nat /\ m <= Len(here) /\ (o < Len(here) => o <= m)
      BY <2>1, <2>3, <3>3, <3>5
    <3>8. CASE o >= Len(here)
      BY <3>6, <3>8
    <3>9. CASE o < Len(here)
      <4>1. read_file(x, o, n) = SubSeq(here, o + 1, m)
        <5>1. ~(o >= Len(here))
          BY <2>3, <3>3, <3>9
        <5>. QED
          BY <3>6, <5>1, Zenon
      <4>2. Len(SubSeq(here, o + 1, m)) \in Nat
        BY <2>3, <3>1, <3>2, <3>3, <3>7, <3>9, SMTT(30)
      <4>. QED
        BY <4>1, <4>2, Zenon
    <3>. QED
      BY <2>3, <3>3, <3>8, <3>9, SMTT(30)
  <2>5. f.offset + Len(read_file(x, o, n)) \in Nat
    BY <2>1, <2>4
  <2>6. PICK v \in Nat : v = f.offset + Len(read_file(x, o, n))
    BY <2>5, Zenon
  <2>7. SetOffset(p, k, v)
    BY <1>2, <2>2, <2>6, Zenon
  <2>. QED
    BY <1>2, <2>6, <2>7, Zenon
<1>. QED
  BY <1>2, Zenon DEF read, Fails

-----------------------------------------------------------------------------
(* mappings *)

\* The mappings after one more.
Remapped(p, v, d) == [mapped EXCEPT ![p] = Put(mapped[p], v, d)]

Gains(p, v, d) ==
  /\ \A x : <<p, v>> \notin MapsOf(x)
  /\ \A x, o : o \in MapsOf(x)' <=> IF o = <<p, v>> THEN x = d ELSE o \in MapsOf(x)
  /\ \A r \in Proc : \A s \in DOMAIN mapped'[r] :
       mapped'[r][s] = d \/ (s \in DOMAIN mapped[r] /\ mapped'[r][s] = mapped[r][s])

LEMMA MapMoves ==
  ASSUME MapTypes, NEW p \in Proc, NEW v \in Slot, v \notin DOMAIN mapped[p], NEW d,
         mapped' = Remapped(p, v, d)
  PROVE  MapTypes' /\ Gains(p, v, d)
<1>1. PICK g : g = Put(mapped[p], v, d)
  BY Zenon
<1>2. DOMAIN g = DOMAIN mapped[p] \cup {v} /\ g[v] = d /\ \A s \in DOMAIN mapped[p] : s # v => g[s] = mapped[p][s]
  BY <1>1, Zenon DEF Put
<1>3. DOMAIN mapped' = Proc /\ mapped'[p] = g /\ \A r \in Proc : r # p => mapped'[r] = mapped[r]
  <2>1. mapped' = [mapped EXCEPT ![p] = g]
    BY <1>1, Zenon DEF Remapped
  <2>. QED
    BY <2>1, Zenon DEF MapTypes
<1>4. MapTypes'
  BY <1>2, <1>3, Zenon DEF MapTypes
<1>5. <<p, v>>[1] = p /\ <<p, v>>[2] = v /\ <<p, v>> \in Proc \X Slot
  OBVIOUS
<1>6. \A x : <<p, v>> \notin MapsOf(x)
  BY <1>5, Zenon DEF MapsOf
<1>7. ASSUME NEW x, NEW o PROVE o \in MapsOf(x)' <=> IF o = <<p, v>> THEN x = d ELSE o \in MapsOf(x)
  <2>1. CASE o = <<p, v>>
    BY <1>2, <1>3, <1>5, <2>1, Zenon DEF MapsOf
  <2>2. CASE o # <<p, v>> /\ o \notin Proc \X Slot
    BY <2>2, Zenon DEF MapsOf
  <2>3. CASE o # <<p, v>> /\ o \in Proc \X Slot
    <3>1. o[1] \in Proc /\ o = <<o[1], o[2]>>
      BY <2>3
    <3>2. CASE o[1] # p
      BY <1>3, <2>3, <3>1, <3>2, Zenon DEF MapsOf
    <3>3. CASE o[1] = p
      <4>1. o[2] # v
        BY <2>3, <3>1, <3>3, Zenon
      <4>2. mapped'[o[1]] = g /\ mapped[o[1]] = mapped[p]
        BY <1>3, <3>3, Zenon
      <4>. QED
        BY <1>2, <2>3, <4>1, <4>2, Zenon DEF MapsOf
    <3>. QED
      BY <3>2, <3>3, Zenon
  <2>. QED
    BY <2>1, <2>2, <2>3, Zenon
<1>8. ASSUME NEW r \in Proc, NEW s \in DOMAIN mapped'[r]
      PROVE  mapped'[r][s] = d \/ (s \in DOMAIN mapped[r] /\ mapped'[r][s] = mapped[r][s])
  <2>1. CASE r = p
    BY <1>2, <1>3, <2>1, Zenon
  <2>2. CASE r # p
    BY <1>3, <2>2, Zenon
  <2>. QED
    BY <2>1, <2>2, Zenon
<1>. QED
  BY <1>4, <1>6, <1>7, <1>8, Zenon DEF Gains

\* mmap() takes a reference for a mapping of a file.
LEMMA MmapKeeps ==
  ASSUME FilesInv, panic = "none", op = "none", NEW p \in Proc, NEW v \in Slot, NEW k,
         k = null \/ k \in 1..MaxFd, mmap_file(p, v, k)
  PROVE  FilesInv'
<1>0. DentTypes /\ FdTypes /\ MapTypes /\ CallTypes /\ UnhashOk /\ CountsExact /\ CacheExact
  BY Zenon DEF FilesInv
<1>1. CASE UNCHANGED fileVars
  BY <1>1, FailsKeeps, Zenon
<1>2. CASE /\ ~(k # null /\ BadFD(p, k)) /\ v \notin DOMAIN mapped[p] /\ ~UNCHANGED fileVars
  <2>1. PICK d : d = IF k = null THEN null ELSE fds[p][k].dentry
    BY Zenon
  <2>2. /\ dent' = Referenced(d) /\ mapped' = [mapped EXCEPT ![p] = Put(mapped[p], v, d)]
        /\ inode' = inode /\ dcache' = dcache /\ fds' = fds /\ panic' = panic /\ op' = op
        /\ unhash' = unhash /\ path' = path /\ at' = at /\ it' = it /\ caller' = caller
    BY <1>2, <2>1, Zenon DEF mmap_file, Fails, lookupVars
  <2>3. d # null => d \in DOMAIN dent
    <3>1. ASSUME k # null PROVE d \in DOMAIN dent
      <4>1. k \in 1..MaxFd /\ ~BadFD(p, k)
        BY <1>2, <3>1, Zenon
      <4>2. <<p, k>> \in OpenFiles
        BY <1>0, <4>1, GoodFd, Zenon
      <4>3. <<p, k>>[1] = p /\ <<p, k>>[2] = k
        OBVIOUS
      <4>. QED
        BY <1>0, <2>1, <3>1, <4>2, <4>3, Zenon DEF CountsExact
    <3>. QED
      BY <2>1, <3>1, Zenon
  <2>4. /\ MapTypes' /\ \A x : <<p, v>> \notin MapsOf(x)
        /\ \A x, o : o \in MapsOf(x)' <=> IF o = <<p, v>> THEN x = d ELSE o \in MapsOf(x)
        /\ \A r \in Proc : \A s \in DOMAIN mapped'[r] :
             mapped'[r][s] = d \/ (s \in DOMAIN mapped[r] /\ mapped'[r][s] = mapped[r][s])
    <3>1. mapped' = Remapped(p, v, d) /\ v \notin DOMAIN mapped[p] /\ MapTypes
      BY <1>0, <1>2, <2>2, Zenon DEF Remapped
    <3>2. MapTypes' /\ Gains(p, v, d)
      BY <3>1, MapMoves, Zenon
    <3>. QED
      BY <3>2, Zenon DEF Gains
  <2>5. Pending = null /\ Pending' = null
    BY <2>2 DEF Pending
  <2>6. /\ DentTypes' /\ SameTree(dent, dent') /\ \A x : ChildrenOf(x)' = ChildrenOf(x)
        /\ \A x \in DOMAIN dent : x # d => dent'[x].rc = dent[x].rc
        /\ d # null => dent'[d].rc = dent[d].rc + 1
    <3>1. CASE d = null
      <4>1. dent' = dent
        BY <2>2, <3>1, Zenon DEF Referenced
      <4>. QED
        BY <1>0, <3>1, <4>1, Zenon DEF DentTypes, SameTree, ChildrenOf
    <3>2. CASE d # null
      <4>1. dent' = inc_rc(dent, d)
        BY <2>2, <3>2, Zenon DEF Referenced
      <4>. QED
        BY <1>0, <2>3, <2>5, <3>2, <4>1, Counted, Zenon
    <3>. QED
      BY <3>1, <3>2, Zenon
  <2>7. DOMAIN dent' = DOMAIN dent
    BY <2>6, Zenon DEF SameTree
  <2>8. CacheExact' /\ UnhashOk' /\ FdTypes'
    BY <1>0, <2>2, <2>6, CachesKept, Zenon DEF FdTypes
  <2>9. CallTypes' /\ ~Looking' /\ Stopped'
    BY <1>0, <2>2, <2>7 DEF CallTypes, Looking, Stopped
  <2>10. CountsExact'
    <3>1. OpenFiles' = OpenFiles
      BY <2>2, Zenon DEF OpenFiles, BadFD
    <3>2. \A x : FilesOf(x)' = FilesOf(x)
      BY <2>2, <3>1, Zenon DEF FilesOf
    <3>3. ASSUME NEW x \in DOMAIN dent
          PROVE  dent'[x].rc = Cardinality(ChildrenOf(x)) + Cardinality(FilesOf(x)) + Cardinality(MapsOf(x)')
                               + (IF x = root THEN 1 ELSE 0) + (IF x = null THEN 1 ELSE 0)
      <4>1. dent[x].rc = Cardinality(ChildrenOf(x)) + Cardinality(FilesOf(x)) + Cardinality(MapsOf(x))
                         + (IF x = root THEN 1 ELSE 0) + (IF x = null THEN 1 ELSE 0)
        BY <1>0, <2>5, Zenon DEF CountsExact
      <4>2. /\ Cardinality(ChildrenOf(x)) \in Nat /\ Cardinality(FilesOf(x)) \in Nat
            /\ Cardinality(MapsOf(x)) \in Nat /\ IsFiniteSet(MapsOf(x))
        BY <1>0, FewUsers, Numbers, Zenon
      <4>3. x # null
        BY <1>0, FilesAssumption, ZenonT(30) DEF DentTypes
      <4>4. CASE x = d
        <5>1. <<p, v>> \notin MapsOf(x) /\ <<p, v>> \in MapsOf(x)'
              /\ \A o : o # <<p, v>> => (o \in MapsOf(x)' <=> o \in MapsOf(x))
          BY <2>4, <4>4, Zenon
        <5>2. Cardinality(MapsOf(x)') = Cardinality(MapsOf(x)) + 1
          BY <4>2, <5>1, OneMore, ZenonT(30)
        <5>. QED
          BY <2>6, <4>1, <4>2, <4>3, <4>4, <5>2, SMTT(30)
      <4>5. CASE x # d
        <5>1. \A o : o \in MapsOf(x)' <=> o \in MapsOf(x)
          BY <2>4, <4>5, Zenon
        <5>2. MapsOf(x)' = MapsOf(x)
          BY <5>1, ZenonT(30)
        <5>. QED
          BY <2>6, <4>1, <4>5, <5>2, SMTT(30)
      <4>. QED
        BY <4>4, <4>5, Zenon
    <3>4. \A o \in OpenFiles' : fds'[o[1]][o[2]].dentry \in DOMAIN dent'
      BY <1>0, <2>2, <2>7, <3>1, Zenon DEF CountsExact
    <3>5. \A r \in Proc : \A s \in DOMAIN mapped'[r] : mapped'[r][s] # null => mapped'[r][s] \in DOMAIN dent'
      BY <1>0, <2>3, <2>4, <2>7, Zenon DEF CountsExact
    <3>. QED
      BY <2>5, <2>6, <2>7, <3>2, <3>3, <3>4, <3>5, Zenon DEF CountsExact
  <2>. QED
    BY <2>4, <2>6, <2>8, <2>9, <2>10, Zenon DEF FilesInv
<1>. QED
  BY <1>1, <1>2, Zenon DEF mmap_file, Fails

-----------------------------------------------------------------------------
(* the theorems *)

LEMMA InitialFiles == FilesInit => FilesInv
<1>. SUFFICES ASSUME FilesInit PROVE FilesInv
  OBVIOUS
<1>0. PICK n \in Name : n = "<root>"
  BY Zenon DEF Name
<1>. DEFINE e == [parent |-> null, inode |-> Root, name |-> n, rc |-> 1]
<1>1. /\ dent = [d \in {root} |-> e] /\ inode = [c \in {Root} |-> 1] /\ dcache = [k \in {} |-> null]
      /\ fds = [p \in Proc |-> <<>>] /\ mapped = [p \in Proc |-> [v \in {} |-> null]]
      /\ panic = "none" /\ op = "none" /\ path = <<>> /\ at = 0 /\ it = null /\ unhash = <<>>
  BY <1>0, Zenon DEF FilesInit
<1>2. DOMAIN dent = {root} /\ dent[root] = e /\ DOMAIN inode = {Root} /\ inode[Root] = 1 /\ DOMAIN dcache = {}
  BY <1>1, Zenon
<1>3. e.parent = null /\ e.inode = Root /\ e.rc = 1 /\ e \in DentryRecord
  <2>1. Root \in Clusters /\ 1 \in Nat
    BY FilesAssumption DEF Clusters
  <2>. QED
    BY <2>1, SMTT(30) DEF DentryRecord
<1>. HIDE DEF e
<1>4. DentTypes
  <2>1. IsFiniteSet({root}) /\ {root} \subseteq Dentry /\ root \in {root}
    BY FilesAssumption, FS_Singleton, Zenon
  <2>2. \A d \in {root} : dent[d] \in DentryRecord
    BY <1>2, <1>3, Zenon
  <2>. QED
    BY <1>2, <1>3, <2>1, <2>2, Zenon DEF DentTypes
<1>5. FdTypes
  BY <1>1, FilesAssumption DEF FdTypes
<1>6. MapTypes /\ \A p \in Proc : DOMAIN mapped[p] = {} /\ DOMAIN fds[p] = {}
  BY <1>1, SMTT(30) DEF MapTypes
<1>7. CallTypes /\ UnhashOk /\ ~Looking /\ Stopped /\ Pending = null
  BY <1>1 DEF CallTypes, UnhashOk, Looking, Stopped, Pending
<1>8. OpenFiles = {}
  <2>1. ASSUME NEW o \in OpenFiles PROVE FALSE
    <3>1. o \in Proc \X (1..MaxFd) /\ o[2] \in DOMAIN fds[o[1]]
      BY <1>5, FileIs, Zenon
    <3>2. o[1] \in Proc
      BY <3>1
    <3>. QED
      BY <1>6, <3>1, <3>2, Zenon
  <2>. QED
    BY <2>1, Zenon
<1>9. CountsExact
  <2>1. root # null
    BY FilesAssumption, Zenon
  <2>2. ChildrenOf(root) = {}
    BY <1>2, <1>3, <2>1, Zenon DEF ChildrenOf
  <2>3. FilesOf(root) = {}
    BY <1>8, Zenon DEF FilesOf
  <2>4. MapsOf(root) = {}
    <3>1. ASSUME NEW o \in MapsOf(root) PROVE FALSE
      <4>1. o \in Proc \X Slot /\ o[2] \in DOMAIN mapped[o[1]]
        BY Zenon DEF MapsOf
      <4>2. o[1] \in Proc
        BY <4>1
      <4>. QED
        BY <1>6, <4>1, <4>2, Zenon
    <3>. QED
      BY <3>1, Zenon
  <2>5. Cardinality({}) = 0
    BY FS_EmptySet, Zenon
  <2>6. dent[root].rc = Cardinality(ChildrenOf(root)) + Cardinality(FilesOf(root)) + Cardinality(MapsOf(root))
                        + (IF root = root THEN 1 ELSE 0) + (IF root = Pending THEN 1 ELSE 0)
    BY <1>2, <1>3, <1>7, <2>1, <2>2, <2>3, <2>4, <2>5, SMTT(30)
  <2>. QED
    BY <1>2, <1>6, <1>8, <2>6, Zenon DEF CountsExact
<1>10. CacheExact
  <2>1. DentriesOf(Root) = {root}
    BY <1>2, <1>3, Zenon DEF DentriesOf
  <2>2. Cardinality({root}) = 1
    BY FS_Singleton, Zenon
  <2>. QED
    BY <1>2, <1>3, <2>1, <2>2, Zenon DEF CacheExact
<1>. QED
  BY <1>4, <1>5, <1>6, <1>7, <1>9, <1>10, Zenon DEF FilesInv

LEMMA StepKeeps == FilesInv /\ [FilesNext]_fileVars => FilesInv'
<1>. SUFFICES ASSUME FilesInv, [FilesNext]_fileVars PROVE FilesInv'
  OBVIOUS
<1>1. CASE UNCHANGED fileVars
  BY <1>1, FailsKeeps, Zenon
<1>2. CASE FilesNext
  <2>0. panic = "none"
    BY <1>2, Zenon DEF FilesNext
  <2>1. CASE dec_rc
    BY <2>0, <2>1, DecRcKeeps, Zenon
  <2>2. CASE Unhash
    BY <2>0, <2>2, UnhashKeeps, ZenonT(30)
  <2>3. CASE Closed
    BY <2>0, <2>3, ClosedKeeps, Zenon
  <2>4. CASE pathname_lookup
    BY <2>0, <2>4, LookupKeeps, Zenon
  <2>5. CASE Opened
    BY <2>0, <2>5, OpenedKeeps, Zenon
  <2>6. CASE Created
    BY <2>0, <2>6, CreatedKeeps, Zenon
  <2>7. CASE ParentFound
    BY <2>0, <2>7, ParentKeeps, Zenon
  <2>8. ASSUME NEW q \in Path, creat(q) PROVE FilesInv'
    <3>1. Begin("creat", null, q, root) /\ UNCHANGED <<dent, inode, dcache, fds, mapped, panic, unhash>>
      BY <2>8, Zenon DEF creat, dentryVars
    <3>. QED
      BY <2>0, <3>1, BeginKeeps
  <2>9. ASSUME NEW q \in Path, NEW p \in Proc, open(p, q) PROVE FilesInv'
    <3>1. /\ Begin("open", p, q, root) /\ UNCHANGED <<dent, inode, dcache, fds, mapped, panic, unhash>>
          /\ get_next_fd(fds[p]) <= MaxFd
      BY <2>9, Zenon DEF open, dentryVars
    <3>. QED
      BY <2>0, <3>1, BeginKeeps
  <2>10. ASSUME NEW p \in Proc, NEW k \in 1..MaxFd, close(p, k) PROVE FilesInv'
    BY <2>0, <2>10, CloseKeeps, Zenon
  <2>11. ASSUME op = "none", NEW p \in Proc, NEW k \in 1..MaxFd, NEW s \in Seek, lseek(p, k, s[1], s[2])
         PROVE  FilesInv'
    BY <2>0, <2>11, LseekIs, OffsetKeeps, FailsKeeps, Zenon
  <2>12. ASSUME op = "none", NEW p \in Proc, NEW k \in 1..MaxFd, NEW n \in Count, read(p, k, n)
         PROVE  FilesInv'
    BY <2>0, <2>12, ReadIs, OffsetKeeps, FailsKeeps, Zenon
  <2>13. ASSUME op = "none", NEW p \in Proc, NEW v \in Slot, NEW k, k = null \/ k \in 1..MaxFd, mmap_file(p, v, k)
         PROVE  FilesInv'
    BY <2>0, <2>13, MmapKeeps, Zenon
  <2>14. ASSUME NEW p \in Proc, exit(p) PROVE FilesInv'
    BY <2>14, FailsKeeps, Zenon DEF exit
  <2>. QED
    BY <1>2, <2>1, <2>2, <2>3, <2>4, <2>5, <2>6, <2>7, <2>8, <2>9, <2>10, <2>11, <2>12, <2>13, <2>14, ZenonT(30)
       DEF FilesNext
<1>. QED
  BY <1>1, <1>2

\* The inductive invariant of the VFS and of the descriptors of processes.
THEOREM FilesInvariant == FilesSpec => []FilesInv
BY InitialFiles, StepKeeps, PTL DEF FilesSpec

\* dec_rc(), ~Dentry() and the dentry cache: whatever processes open, map and close, and
\* whatever tree is on the disk, the counts are the numbers of users, the caches are
\* exact, and no assertion fails but that of a lookup in a regular file.
THEOREM ReferencesExact == FilesSpec => []RefsExact
<1>1. FilesInv => RefsExact
  BY Zenon DEF FilesInv, RefsExact, CallTypes, Stopped
<1>. QED
  BY <1>1, FilesInvariant, PTL

-----------------------------------------------------------------------------
(* what descriptors show *)

LEMMA ReadsExact == FilesInv => ReadExact
<1>. SUFFICES ASSUME FilesInv, NEW o \in OpenFiles, NEW n \in 0..(MaxOffset + 1),
                     ~IsDir(dent[fds[o[1]][o[2]].dentry].inode)
              PROVE  LET c == dent[fds[o[1]][o[2]].dentry].inode
                         off == fds[o[1]][o[2]].offset % SizeMod
                         here == Content[c]
                     IN  read_file(c, off, n) =
                           (IF off >= Len(here) THEN <<>>
                            ELSE SubSeq(here, off + 1, Min({Len(here), off + n})))
  BY Zenon DEF ReadExact
<1>1. PICK p, k, c, off : /\ p = o[1] /\ k = o[2] /\ c = dent[fds[p][k].dentry].inode
                          /\ off = fds[p][k].offset % SizeMod
  BY Zenon
<1>2. p \in Proc /\ k \in 1..MaxFd /\ ~BadFD(p, k)
  BY <1>1 DEF OpenFiles
<1>3. c \in DOMAIN Content /\ off \in Nat
  BY <1>1, <1>2, OpenInode, Zenon
<1>4. n \in Nat
  BY FilesAssumption, SMTT(30)
<1>5. read_file(c, off, n) =
        (IF off >= Len(Content[c]) THEN <<>>
         ELSE SubSeq(Content[c], off + 1, Min({Len(Content[c]), off + n})))
  BY <1>3, <1>4, ReadFileIs, ZenonT(30)
<1>. QED
  BY <1>1, <1>5, Zenon

\* One entry of a table changes: a free one that is the first gets a file, or one that
\* is in use loses its own or keeps it.
LEMMA EntryStep ==
  ASSUME FdTypes, NEW p \in Proc, NEW k \in 1..(Len(fds[p]) + 1), NEW v \in Descriptor,
         fds' = [fds EXCEPT ![p] = Put(fds[p], k, v)],
         \/ k \in DOMAIN fds[p] /\ v.dentry \in {null, fds[p][k].dentry}
         \/ k = get_next_fd(fds[p])
  PROVE  FdStep
<1>0. PICK f, g : f = fds[p] /\ g = Put(f, k, v)
  BY Zenon
<1>1. k \in 1..(Len(f) + 1) /\ v \in Descriptor /\ f \in Seq(Descriptor)
  BY <1>0, Zenon DEF FdTypes
<1>2. /\ Put(f, k, v) \in Seq(Descriptor) /\ DOMAIN Put(f, k, v) = DOMAIN f \cup {k}
      /\ Put(f, k, v)[k] = v /\ \A j \in DOMAIN f : j # k => Put(f, k, v)[j] = f[j]
      /\ Len(Put(f, k, v)) = (IF k = Len(f) + 1 THEN Len(f) + 1 ELSE Len(f))
  BY <1>1, PutFd, ZenonT(30)
<1>3. /\ g[k] = v /\ \A j \in DOMAIN f : j # k => g[j] = f[j]
      /\ Len(g) = (IF k = Len(f) + 1 THEN Len(f) + 1 ELSE Len(f))
  BY <1>0, <1>2, Zenon
<1>4. fds'[p] = g /\ \A r \in Proc : r # p => fds'[r] = fds[r]
  <2>1. fds' = [fds EXCEPT ![p] = g] /\ DOMAIN fds = Proc
    BY <1>0, Zenon DEF FdTypes
  <2>. QED
    BY <2>1, Zenon
<1>5. Len(f) \in Nat /\ DOMAIN f = 1..Len(f) /\ Len(f) + 1 \notin DOMAIN f
  <2>1. Len(f) \in Nat /\ DOMAIN f = 1..Len(f)
    BY <1>1, SeqIs, Zenon
  <2>. QED
    BY <2>1
<1>6. /\ k = get_next_fd(f) => /\ k \in DOMAIN f => f[k].dentry = null
                               /\ \A j \in DOMAIN f : f[j].dentry = null => k <= j
  BY <1>1, NextFd, Zenon
<1>7. ASSUME NEW r \in Proc
      PROVE  Len(fds'[r]) > Len(fds[r]) => \A j \in DOMAIN fds[r] : ~BadFD(r, j)
  <2>1. CASE r # p
    <3>1. Len(fds'[r]) = Len(fds[r]) /\ Len(fds[r]) \in Nat
      BY <1>4, <2>1, SeqIs, Zenon DEF FdTypes
    <3>. QED
      BY <3>1
  <2>2. CASE r = p /\ k = Len(f) + 1
    <3>1. k = get_next_fd(f)
      BY <1>0, <1>5, <2>2, Zenon
    <3>2. \A j \in DOMAIN f : ~(k <= j)
      BY <1>5, <2>2, SMTT(30)
    <3>. QED
      BY <1>0, <1>6, <2>2, <3>1, <3>2, Zenon DEF BadFD
  <2>3. CASE r = p /\ k # Len(f) + 1
    <3>1. Len(fds'[r]) = Len(f) /\ Len(fds[r]) = Len(f)
      BY <1>0, <1>3, <1>4, <2>3, Zenon
    <3>. QED
      BY <1>5, <3>1
  <2>. QED
    BY <2>1, <2>2, <2>3, Zenon
<1>8. ASSUME NEW r \in Proc, NEW j \in DOMAIN fds[r], ~BadFD(r, j), fds'[r][j].dentry # null
      PROVE  fds'[r][j].dentry = fds[r][j].dentry
  <2>1. CASE r # p
    BY <1>4, <2>1, Zenon
  <2>2. CASE r = p /\ j # k
    BY <1>0, <1>3, <1>4, <1>8, <2>2, ZenonT(30)
  <2>3. CASE r = p /\ j = k
    <3>1. fds'[r][j] = v /\ fds[r] = f /\ f[k].dentry # null /\ k \in DOMAIN f
      BY <1>0, <1>3, <1>4, <1>8, <2>3, Zenon DEF BadFD
    <3>2. v.dentry \in {null, f[k].dentry}
      BY <1>0, <1>6, <3>1, Zenon
    <3>. QED
      BY <1>8, <2>3, <3>1, <3>2, Zenon
  <2>. QED
    BY <2>1, <2>2, <2>3, Zenon
<1>. QED
  BY <1>7, <1>8, Zenon DEF FdStep

LEMMA SameFds ==
  ASSUME FdTypes, fds' = fds
  PROVE  FdStep
<1>1. \A p \in Proc : Len(fds[p]) \in Nat
  BY SeqIs, Zenon DEF FdTypes
<1>2. \A p \in Proc : ~(Len(fds[p]) > Len(fds[p]))
  BY <1>1
<1>. QED
  BY <1>2, Zenon DEF FdStep

\* SetOffset and close() change one entry that is in use.
LEMMA UsedEntry ==
  ASSUME FdTypes, NEW p \in Proc, NEW k \in 1..MaxFd, ~BadFD(p, k), NEW v \in Descriptor,
         v.dentry \in {null, fds[p][k].dentry}, fds' = [fds EXCEPT ![p][k] = v]
  PROVE  FdStep
<1>1. fds[p] \in Seq(Descriptor) /\ k \in DOMAIN fds[p] /\ k \in 1..(Len(fds[p]) + 1)
  BY GoodFd, Zenon
<1>2. fds' = [fds EXCEPT ![p] = Entry(fds[p], k, v)]
  BY Zenon DEF Entry
<1>3. fds' = [fds EXCEPT ![p] = Put(fds[p], k, v)]
  BY <1>1, <1>2, EntryIs, Zenon
<1>. QED
  BY <1>1, <1>3, EntryStep, ZenonT(30)

LEMMA OffsetStep ==
  ASSUME FdTypes, NEW p \in Proc, NEW k \in 1..MaxFd, ~BadFD(p, k), NEW new \in Nat, SetOffset(p, k, new)
  PROVE  FdStep
<1>1. PICK v : v = [fds[p][k] EXCEPT !.offset = new]
  BY Zenon
<1>2. fds[p][k] \in Descriptor
  BY GoodFd, Zenon
<1>3. v \in Descriptor /\ v.dentry = fds[p][k].dentry
  BY <1>1, <1>2 DEF Descriptor
<1>4. fds' = [fds EXCEPT ![p][k] = v]
  BY <1>1, Zenon DEF SetOffset
<1>. QED
  BY <1>3, <1>4, UsedEntry, Zenon

LEMMA FdsStep == FilesInv /\ [FilesNext]_fileVars => FdStep
<1>. SUFFICES ASSUME FilesInv, [FilesNext]_fileVars PROVE FdStep
  OBVIOUS
<1>0. FdTypes /\ CallTypes
  BY Zenon DEF FilesInv
<1>1. ASSUME UNCHANGED fileVars PROVE FdStep
  BY <1>0, <1>1, SameFds, Zenon DEF fileVars
<1>2. CASE FilesNext
  <2>1. CASE dec_rc \/ Unhash
    <3>1. fds' = fds
      BY <2>1, Zenon DEF dec_rc, DeleteDentry, Unhash, Panic
    <3>. QED
      BY <1>0, <3>1, SameFds, Zenon
  <2>2. CASE Closed \/ Created \/ ParentFound
    <3>1. fds' = fds
      BY <2>2, Zenon DEF Closed, Created, ParentFound
    <3>. QED
      BY <1>0, <3>1, SameFds, Zenon
  <2>3. CASE pathname_lookup
    <3>1. fds' = fds
      BY <2>3, Zenon DEF pathname_lookup, GoTo, Ask, NewDentry, Panic
    <3>. QED
      BY <1>0, <3>1, SameFds, Zenon
  <2>4. CASE Opened
    <3>1. CASE it = null
      BY <1>0, <2>4, <3>1, SameFds, Zenon DEF Opened
    <3>2. CASE it # null
      <4>1. PICK q, p, k : q = it /\ p = caller /\ k = get_next_fd(fds[p])
        BY Zenon
      <4>2. PICK v : v = [dentry |-> q, offset |-> 0]
        BY Zenon
      <4>3. q \in DOMAIN dent /\ p \in Proc /\ fds[p] \in Seq(Descriptor)
        BY <1>0, <2>4, <3>2, <4>1, Zenon DEF CallTypes, Opened, FdTypes
      <4>4. fds' = [fds EXCEPT ![p] = Put(fds[p], k, v)]
        BY <2>4, <3>2, <4>1, <4>2, Zenon DEF Opened
      <4>5. v \in Descriptor
        <5>1. DOMAIN dent \subseteq Dentry
          BY Zenon DEF FilesInv, DentTypes
        <5>. QED
          BY <4>2, <4>3, <5>1 DEF Descriptor
      <4>6. k \in 1..(Len(fds[p]) + 1)
        BY <4>1, <4>3, NextFd, Zenon
      <4>. QED
        BY <1>0, <4>1, <4>3, <4>4, <4>5, <4>6, EntryStep, ZenonT(30)
    <3>. QED
      BY <3>1, <3>2, Zenon
  <2>5. ASSUME NEW q \in Path, creat(q) PROVE FdStep
    BY <1>0, <2>5, SameFds, Zenon DEF creat
  <2>6. ASSUME NEW q \in Path, NEW p \in Proc, open(p, q) PROVE FdStep
    BY <1>0, <2>6, SameFds, Zenon DEF open
  <2>7. ASSUME NEW p \in Proc, NEW k \in 1..MaxFd, close(p, k) PROVE FdStep
    <3>1. CASE BadFD(p, k)
      BY <1>1, <2>7, <3>1, Zenon DEF close, Fails
    <3>2. CASE ~BadFD(p, k)
      <4>1. PICK v : v = Unused
        BY Zenon
      <4>2. v \in Descriptor /\ v.dentry = null
        BY <4>1 DEF Unused, Descriptor
      <4>3. fds' = [fds EXCEPT ![p][k] = v]
        BY <2>7, <3>2, <4>1, Zenon DEF close
      <4>. QED
        BY <1>0, <3>2, <4>2, <4>3, UsedEntry, Zenon
    <3>. QED
      BY <3>1, <3>2, Zenon
  <2>8. ASSUME NEW p \in Proc, NEW k \in 1..MaxFd, NEW s \in Seek, lseek(p, k, s[1], s[2]) PROVE FdStep
    BY <1>0, <1>1, <2>8, LseekIs, OffsetStep, Zenon
  <2>9. ASSUME NEW p \in Proc, NEW k \in 1..MaxFd, NEW n \in Count, read(p, k, n) PROVE FdStep
    BY <1>0, <1>1, <2>9, ReadIs, OffsetStep, Zenon
  <2>10. ASSUME NEW p, NEW v, NEW k, mmap_file(p, v, k) PROVE FdStep
    <3>1. UNCHANGED fileVars \/ fds' = fds
      BY <2>10, Zenon DEF mmap_file, Fails
    <3>. QED
      BY <1>0, <1>1, <3>1, SameFds, Zenon
  <2>11. ASSUME NEW p, exit(p) PROVE FdStep
    BY <1>1, <2>11, Zenon DEF exit
  <2>. QED
    BY <1>2, <2>1, <2>2, <2>3, <2>4, <2>5, <2>6, <2>7, <2>8, <2>9, <2>10, <2>11, ZenonT(30) DEF FilesNext
<1>. QED
  BY <1>1, <1>2

\* get_next_fd() and Inode::read(): for any number of processes, any tree and any files, a
\* descriptor keeps its file until it is closed, the table grows only when it is full,
\* and a read gives the bytes of the file at the offset of the descriptor.
THEOREM DescriptorsSound == FilesSpec => DescriptorsExact
<1>1. FilesInv /\ [FilesNext]_fileVars => [FdStep]_fileVars
  BY FdsStep, Zenon
<1>2. FilesSpec => FdStable
  BY <1>1, FilesInvariant, PTL DEF FilesSpec, FdStable
<1>3. FilesSpec => []ReadExact
  BY ReadsExact, FilesInvariant, PTL
<1>. QED
  BY <1>2, <1>3, PTL DEF DescriptorsExact

=============================================================================
