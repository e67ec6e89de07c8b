-------------------------- MODULE PageTablesProofs --------------------------
(***************************************************************************)
(* Proofs about PageTables, for tables of any number of entries, any number *)
(* of directories and calls of any length.  The tables are exact because   *)
(* every table has one owner, an entry of one directory, and because the   *)
(* frames of processes are never tables.  A directory being cloned is one  *)
(* that already means to map the entries copied so far.                    *)
(***************************************************************************)
EXTENDS PageTables, TLAPS

HasTable(m, d, i) == m[d][i].p /\ ~m[d][i].ps

IsMem(m) == m = [f \in 1..HeapFrames |-> [i \in Index |-> m[f][i]]]

IsTable(T) == T = [i \in Index |-> T[i]]

IsView(W, D) == W = [d \in D |-> [v \in Page |-> W[d][v]]]

IsPte(x) == x = Absent \/ \E f \in Nat, u, w, c \in BOOLEAN : x = Pte(f, u, w, c)

\* The entries of the directories D, all frames below n being in use: a table is
\* in no directory's frame, and has one owner.
Shape(m, n, D) ==
  /\ D \subseteq 1..(n - 1)
  /\ \A d \in D, i \in Index :
       \/ m[d][i] = Absent
       \/ i \in Huge /\ m[d][i] = HugePde
       \/ i \notin Huge /\ \E t \in (1..(n - 1)) \ D : m[d][i] = Pde(t)
  /\ \A d, e \in D, i, j \in Index :
       HasTable(m, d, i) /\ HasTable(m, e, j) /\ m[d][i].addr = m[e][j].addr => d = e /\ i = j

\* An entry x written in the table of page v of directory c, or in its view; a new
\* table T in frame k for entry i of directory c.
EntryWritten(m, m2, c, v, x) == m2 = [m EXCEPT ![m[c][pd_idx(v)].addr] = [@ EXCEPT ![pt_idx(v)] = x]]
ViewWritten(W, W2, c, v, x) == W2 = [W EXCEPT ![c] = [@ EXCEPT ![v] = x]]
TableAdded(m, m2, c, i, k, T) == m2 = [m EXCEPT ![k] = T, ![c] = [@ EXCEPT ![i] = Pde(k)]]

\* The views differ at page v of directory c.
OnlyAt(D, W, W2, c, v, x) ==
  W2[c][v] = x /\ \A d \in D, w \in Page : ~(d = c /\ w = v) => W2[d][w] = W[d][w]

\* The tables of m2 are those of m and some in frames from n on.
TablesFrom(m, m2, n, D) ==
  \A d \in D, i \in Index : HasTable(m2, d, i) =>
    (HasTable(m, d, i) /\ m2[d][i].addr = m[d][i].addr) \/ m2[d][i].addr \notin 1..(n - 1)

WalkIs(m, D, W) == \A d \in D, v \in Page : Walk(m, d, v) = W[d][v]

IsUser(x) == x.p /\ x.u_s

\* The frames of processes.
Private(m, n, D, W) ==
  \A d \in D, v \in Page : IsUser(W[d][v]) =>
    /\ W[d][v].addr \in (1..(n - 1)) \ D /\ pd_idx(v) < Kernel
    /\ \A e \in D, i \in Index : HasTable(m, e, i) => m[e][i].addr # W[d][v].addr
    /\ \A e \in D, w \in Page :
         IsUser(W[e][w]) /\ W[e][w].addr = W[d][v].addr => d = e /\ v = w

Sound(m, n, D, W) ==
  /\ IsMem(m) /\ n \in Nat \ {0} /\ n <= HeapFrames + 1 /\ IsView(W, D)
  /\ \A d \in D, v \in Page : IsPte(W[d][v])
  /\ Shape(m, n, D) /\ WalkIs(m, D, W) /\ Private(m, n, D, W)

\* What map() may put in an entry of page v of directory c.
MayShow(m, n, D, W, c, v, x) ==
  /\ IsPte(x)
  /\ IsUser(x) => /\ pd_idx(v) < Kernel /\ x.addr \in (1..(n - 1)) \ D
                  /\ \A d \in D, i \in Index : HasTable(m, d, i) => m[d][i].addr # x.addr
                  /\ \A d \in D, w \in Page : ~(d = c /\ w = v) /\ IsUser(W[d][w]) => W[d][w].addr # x.addr

\* The directories, the one being cloned included, and what they are meant to map.
DirsOf(V, cl) == DOMAIN V \cup (IF cl.op = "clone" THEN {cl.pd} ELSE {})
MeantOf(V, cl, c) ==
  [d \in DirsOf(V, cl) |-> [v \in Page |->
     IF d \in DOMAIN V THEN V[d][v]
     ELSE IF Kernel <= pd_idx(v) /\ pd_idx(v) < cl.i THEN V[c][v] ELSE Absent]]

\* The entries still to be cloned.
Uncloned(m, cl) == \A j \in Index : cl.i <= j => m[cl.pd][j] = Absent

TlbShows(t, V) == t.pte.p => t.v \in Page /\ t.pte = V[t.v]

CallOK ==
  \/ call = Idle
  \/ /\ call \in [op : {"vmalloc"}, v : UserPage, i : Nat, pg : 1..MaxPages, w : BOOLEAN]
     /\ call.i < call.pg
  \/ /\ call \in [op : {"ioremap"}, v : Nat, i : Nat, pg : 1..MaxPages, phys : Nat]
     /\ call.i < call.pg /\ io_map_start <= call.v /\ call.v + call.pg <= io_map_start + io_map_sz
  \/ /\ call \in [op : {"clone"}, pd : 1..HeapFrames, i : Kernel..Entries]
     /\ call.pd \notin DOMAIN view

TablesInv ==
  /\ Sound(mem, next, DirsOf(view, call), MeantOf(view, call, cr3)) /\ CallOK
  /\ cr3 \in DOMAIN view /\ IsView(view, DOMAIN view) /\ io_region_offset \in 0..io_map_sz
  /\ TlbShows(tlb, view[cr3]) /\ (call.op = "clone" => Uncloned(mem, call))

-----------------------------------------------------------------------------
(* entries and indices *)

LEMMA Fields ==
  /\ Absent.p = FALSE /\ HugePde.p = TRUE /\ HugePde.ps = TRUE
  /\ \A t : Pde(t).p = TRUE /\ Pde(t).ps = FALSE /\ Pde(t).addr = t
  /\ \A f, u, w, c : /\ Pte(f, u, w, c).p = TRUE /\ Pte(f, u, w, c).u_s = u
                     /\ Pte(f, u, w, c).addr = f
BY DEF Absent, HugePde, Pde, Pte

\* The bits of an entry are bits, and a cleared one is absent.
LEMMA PteBits ==
  ASSUME NEW x, IsPte(x)
  PROVE  /\ x.p \in BOOLEAN /\ (~x.p => x = Absent)
         /\ x.p => IsPte(Uncached(x)) /\ (IsUser(Uncached(x)) <=> IsUser(x)) /\ Uncached(x).addr = x.addr
<1>1. CASE x = Absent
  BY <1>1 DEF Absent
<1>2. ASSUME NEW f \in Nat, NEW u \in BOOLEAN, NEW w \in BOOLEAN, NEW c \in BOOLEAN, x = Pte(f, u, w, c)
      PROVE  /\ x.p \in BOOLEAN /\ (~x.p => x = Absent)
             /\ x.p => IsPte(Uncached(x)) /\ (IsUser(Uncached(x)) <=> IsUser(x)) /\ Uncached(x).addr = x.addr
  <2>1. x.p = TRUE /\ x.u_s = u /\ x.addr = f /\ Uncached(x) = Pte(f, u, w, TRUE)
    BY <1>2 DEF Pte, Uncached
  <2>2. IsPte(Uncached(x))
    BY <2>1, Zenon DEF IsPte
  <2>3. Uncached(x).p = TRUE /\ Uncached(x).u_s = u /\ Uncached(x).addr = f
    BY <2>1 DEF Pte
  <2>. QED
    BY <2>1, <2>2, <2>3, Zenon DEF IsUser
<1>. QED
  BY <1>1, <1>2, Zenon DEF IsPte

\* A page is known by its two indices.
LEMMA PageIndex ==
  /\ \A v \in Page : pd_idx(v) \in Index /\ pt_idx(v) \in Index
  /\ \A v, w \in Page : pd_idx(v) = pd_idx(w) /\ pt_idx(v) = pt_idx(w) => v = w
<1>1. Entries \in Nat \ {0}
  BY TablesAssumption
<1>2. ASSUME NEW v \in Page
      PROVE  /\ v \in Nat /\ pd_idx(v) \in Nat /\ pt_idx(v) \in Nat /\ pt_idx(v) < Entries
             /\ v = Entries * pd_idx(v) + pt_idx(v)
  BY <1>1, SMT DEF Page, pd_idx, pt_idx
<1>3. ASSUME NEW v \in Page PROVE pd_idx(v) < Entries
  <2>. DEFINE q == pd_idx(v)
  <2>1. SUFFICES ASSUME Entries <= q PROVE FALSE
    BY <1>1, <1>2
  <2>2. q \in Nat
    BY <1>2
  <2>3. PICK k \in Nat : q = Entries + k
    BY <1>1, <2>1, <2>2
  <2>4. Entries * q = Entries * Entries + Entries * k
    BY <1>1, <2>3
  <2>5. Entries * k \in Nat /\ Entries * Entries \in Nat
    BY <1>1
  <2>6. v < Entries * Entries
    BY <1>1, <2>5 DEF Page
  <2>. QED
    BY <1>2, <2>4, <2>5, <2>6
<1>4. \A v \in Page : pd_idx(v) \in Index /\ pt_idx(v) \in Index
  BY <1>1, <1>2, <1>3 DEF Index
<1>5. ASSUME NEW v \in Page, NEW w \in Page, pd_idx(v) = pd_idx(w), pt_idx(v) = pt_idx(w)
      PROVE  v = w
  BY <1>2, <1>5, Zenon
<1>. QED
  BY <1>4, <1>5, Zenon

-----------------------------------------------------------------------------
(* changes of the tables *)

\* An entry of a directory has a table, is a hugepage or is absent.
LEMMA TableAt ==
  ASSUME NEW m, NEW n, NEW D, Shape(m, n, D), NEW d \in D, NEW i \in Index
  PROVE  /\ HasTable(m, d, i) => m[d][i].addr \in (1..(n - 1)) \ D /\ i \notin Huge
         /\ i \notin Huge /\ m[d][i].p => HasTable(m, d, i)
         /\ m[d][i].p \in BOOLEAN /\ (~m[d][i].p => m[d][i] = Absent)
<1>1. \/ m[d][i] = Absent
      \/ i \in Huge /\ m[d][i] = HugePde
      \/ i \notin Huge /\ \E t \in (1..(n - 1)) \ D : m[d][i] = Pde(t)
  BY Zenon DEF Shape
<1>2. CASE m[d][i] = Absent
  BY <1>2, Fields, ZenonT(30) DEF HasTable
<1>3. CASE i \in Huge /\ m[d][i] = HugePde
  BY <1>3, Fields, ZenonT(30) DEF HasTable
<1>4. ASSUME i \notin Huge, NEW t \in (1..(n - 1)) \ D, m[d][i] = Pde(t)
      PROVE  /\ m[d][i].addr = t /\ HasTable(m, d, i) /\ m[d][i].p = TRUE
  BY <1>4, Fields DEF HasTable
<1>. QED
  BY <1>1, <1>2, <1>3, <1>4, Zenon

\* The walk goes through the table of an entry, if it has one.
LEMMA WalkTable ==
  ASSUME NEW m, NEW d, NEW v
  PROVE  /\ HasTable(m, d, pd_idx(v)) => Walk(m, d, v) = m[m[d][pd_idx(v)].addr][pt_idx(v)]
         /\ ~HasTable(m, d, pd_idx(v)) => Walk(m, d, v) = Absent
BY DEF Walk, HasTable

LEMMA SameShape ==
  ASSUME NEW m, NEW n, NEW D, NEW m2, Shape(m, n, D), \A d \in D : m2[d] = m[d]
  PROVE  Shape(m2, n, D)
<1>1. \A d \in D, i \in Index : m2[d][i] = m[d][i] /\ (HasTable(m2, d, i) <=> HasTable(m, d, i))
  BY Zenon DEF HasTable
<1>2. ASSUME NEW d \in D, NEW i \in Index
      PROVE  \/ m2[d][i] = Absent
             \/ i \in Huge /\ m2[d][i] = HugePde
             \/ i \notin Huge /\ \E t \in (1..(n - 1)) \ D : m2[d][i] = Pde(t)
  <2>1. m2[d][i] = m[d][i]
    BY <1>1, Zenon
  <2>. QED
    BY <2>1, Zenon DEF Shape
<1>3. ASSUME NEW d \in D, NEW e \in D, NEW i \in Index, NEW j \in Index,
             HasTable(m2, d, i), HasTable(m2, e, j), m2[d][i].addr = m2[e][j].addr
      PROVE  d = e /\ i = j
  <2>1. HasTable(m, d, i) /\ HasTable(m, e, j) /\ m[d][i].addr = m[e][j].addr
    BY <1>1, <1>3, Zenon
  <2>. QED
    BY <2>1, Zenon DEF Shape
<1>. QED
  BY <1>2, <1>3, Zenon DEF Shape

\* Writing an entry of a table shows in the directory that owns the table, at one
\* page.
LEMMA WriteEntry ==
  ASSUME NEW m, NEW n \in Nat, n <= HeapFrames + 1, NEW D, NEW W, NEW c \in D, NEW v \in Page, NEW x,
         IsMem(m), IsView(W, D), Shape(m, n, D), WalkIs(m, D, W), HasTable(m, c, pd_idx(v)),
         NEW m2, EntryWritten(m, m2, c, v, x), NEW W2, ViewWritten(W, W2, c, v, x)
  PROVE  /\ IsMem(m2) /\ IsView(W2, D) /\ Shape(m2, n, D) /\ WalkIs(m2, D, W2)
         /\ \A d \in D : m2[d] = m[d]
         /\ OnlyAt(D, W, W2, c, v, x)
<1>. DEFINE t == m[c][pd_idx(v)].addr
<1>1. t \in (1..(n - 1)) \ D /\ pd_idx(v) \in Index /\ pt_idx(v) \in Index
  BY PageIndex, TableAt, Zenon
<1>2. t \in 1..HeapFrames /\ D \subseteq 1..HeapFrames
  BY <1>1, TablesAssumption, SMTT(30) DEF Shape
<1>3. \A f \in 1..HeapFrames : m2[f] = IF f = t THEN [m[t] EXCEPT ![pt_idx(v)] = x] ELSE m[f]
  BY <1>2, ZenonT(30) DEF IsMem, EntryWritten
<1>4. /\ \A f \in 1..HeapFrames, i \in Index : m2[f][i] = IF f = t /\ i = pt_idx(v) THEN x ELSE m[f][i]
  BY <1>1, <1>2, <1>3, ZenonT(30) DEF IsMem, EntryWritten
<1>4a. IsMem(m2)
  BY <1>1, <1>2, <1>3, ZenonT(30) DEF IsMem, EntryWritten
<1>5. \A d \in D : m2[d] = m[d]
  BY <1>1, <1>2, <1>3, Zenon
<1>6. Shape(m2, n, D)
  BY <1>5, SameShape, Zenon
<1>7. /\ W2[c][v] = x /\ \A d \in D, w \in Page : ~(d = c /\ w = v) => W2[d][w] = W[d][w]
      /\ IsView(W2, D)
  BY ZenonT(30) DEF IsView, ViewWritten
<1>8. ASSUME NEW d \in D, NEW w \in Page PROVE Walk(m2, d, w) = W2[d][w]
  <2>1. pd_idx(w) \in Index /\ pt_idx(w) \in Index
    BY PageIndex, Zenon
  <2>2. CASE ~HasTable(m, d, pd_idx(w))
    <3>1. ~(d = c /\ w = v)
      BY <2>2, Zenon
    <3>2. ~HasTable(m2, d, pd_idx(w))
      BY <1>5, <2>2, Zenon DEF HasTable
    <3>3. Walk(m2, d, w) = Absent /\ Walk(m, d, w) = Absent
      BY <2>2, <3>2, WalkTable, Zenon
    <3>. QED
      BY <1>7, <3>1, <3>3, Zenon DEF WalkIs
  <2>3. CASE HasTable(m, d, pd_idx(w))
    <3>1. m[d][pd_idx(w)].addr \in 1..(n - 1)
      BY <2>1, <2>3, TableAt, Zenon
    <3>2. m[d][pd_idx(w)].addr \in 1..HeapFrames
      BY <3>1, TablesAssumption
    <3>3. Walk(m2, d, w) = m2[m[d][pd_idx(w)].addr][pt_idx(w)] /\ W[d][w] = m[m[d][pd_idx(w)].addr][pt_idx(w)]
      BY <1>5, <2>3, Zenon DEF Walk, HasTable, WalkIs
    <3>4. CASE m[d][pd_idx(w)].addr = t /\ pt_idx(w) = pt_idx(v)
      <4>1. d = c /\ pd_idx(w) = pd_idx(v)
        BY <1>1, <2>1, <2>3, <3>4, Zenon DEF Shape
      <4>2. w = v
        BY <3>4, <4>1, PageIndex, Zenon
      <4>. QED
        BY <1>4, <1>7, <2>1, <3>2, <3>3, <3>4, <4>1, <4>2
    <3>5. CASE ~(m[d][pd_idx(w)].addr = t /\ pt_idx(w) = pt_idx(v))
      <4>1. ~(d = c /\ w = v)
        BY <3>5, Zenon
      <4>. QED
        BY <1>4, <1>7, <2>1, <3>2, <3>3, <3>5, <4>1
    <3>. QED
      BY <3>4, <3>5, Zenon
  <2>. QED
    BY <2>2, <2>3, Zenon
<1>. QED
  BY <1>4a, <1>5, <1>6, <1>7, <1>8, Zenon DEF WalkIs, OnlyAt

\* What is known of memory with table T added.
Grown(m, m2, D, c, i, k, T) ==
  /\ IsMem(m2) /\ Shape(m2, k + 1, D) /\ m2[k] = T /\ HasTable(m2, c, i) /\ m2[c][i].addr = k
  /\ \A d \in D, j \in Index : ~(d = c /\ j = i) => m2[d][j] = m[d][j]
  /\ \A d \in D, j \in Index : HasTable(m, d, j) => m2[m[d][j].addr] = m[m[d][j].addr]

\* A table in a new frame k, for an entry that had none: the rest of the directories
\* is as before.  What is in the table is left open.
LEMMA AddTable ==
  ASSUME NEW m, NEW n \in Nat, NEW D, NEW c \in D, NEW i \in Index \ Huge, ~m[c][i].p,
         IsMem(m), Shape(m, n, D), NEW k \in Nat, n <= k, k <= HeapFrames,
         NEW T, IsTable(T),
         NEW m2, TableAdded(m, m2, c, i, k, T)
  PROVE  Grown(m, m2, D, c, i, k, T)
<1>1. D \subseteq 1..HeapFrames /\ k \in 1..HeapFrames /\ k \notin D /\ c # k /\ k \notin 1..(n - 1)
  BY TablesAssumption DEF Shape
<1>2. /\ \A f \in 1..HeapFrames : m2[f] = IF f = c THEN [m[c] EXCEPT ![i] = Pde(k)] ELSE IF f = k THEN T ELSE m[f]
  BY <1>1 DEF IsMem, TableAdded
<1>3. /\ m2[c][i] = Pde(k) /\ m2[k] = T
      /\ \A d \in D, j \in Index : ~(d = c /\ j = i) => m2[d][j] = m[d][j]
  BY <1>1, <1>2, ZenonT(30) DEF IsMem
<1>4. IsMem(m2)
  BY <1>1, ZenonT(30) DEF IsMem, TableAdded, IsTable
<1>5. HasTable(m2, c, i) /\ m2[c][i].addr = k /\ m2[c][i] = Pde(k)
  <2>1. Pde(k).p = TRUE /\ Pde(k).ps = FALSE /\ Pde(k).addr = k
    BY Fields, Zenon
  <2>. QED
    BY <1>3, <2>1, Zenon DEF HasTable
<1>6. \A d \in D, j \in Index : ~(d = c /\ j = i) => m2[d][j] = m[d][j] /\ (HasTable(m2, d, j) <=> HasTable(m, d, j))
  <2>1. SUFFICES ASSUME NEW d \in D, NEW j \in Index, ~(d = c /\ j = i)
                 PROVE  m2[d][j] = m[d][j] /\ (HasTable(m2, d, j) <=> HasTable(m, d, j))
    BY Zenon
  <2>2. m2[d][j] = m[d][j]
    BY <1>3, <2>1, Zenon
  <2>. QED
    BY <2>2, Zenon DEF HasTable
<1>7. \A d \in D, j \in Index : HasTable(m, d, j) => m2[m[d][j].addr] = m[m[d][j].addr]
  <2>1. SUFFICES ASSUME NEW d \in D, NEW j \in Index, HasTable(m, d, j)
                 PROVE  m2[m[d][j].addr] = m[m[d][j].addr]
    BY Zenon
  <2>2. m[d][j].addr \in (1..(n - 1)) \ D
    BY <2>1, TableAt, Zenon
  <2>3. m[d][j].addr \in 1..HeapFrames
    BY <2>2, TablesAssumption
  <2>. QED
    BY <1>1, <1>2, <2>2, <2>3, Zenon
<1>8. 1..(n - 1) \subseteq 1..((k + 1) - 1) /\ k \in 1..((k + 1) - 1)
  BY <1>1
<1>9. ASSUME NEW d \in D, NEW j \in Index
      PROVE  \/ m2[d][j] = Absent
             \/ j \in Huge /\ m2[d][j] = HugePde
             \/ j \notin Huge /\ \E t \in (1..((k + 1) - 1)) \ D : m2[d][j] = Pde(t)
  <2>1. CASE d = c /\ j = i
    BY <1>1, <1>5, <1>8, <2>1, Zenon
  <2>2. CASE ~(d = c /\ j = i)
    <3>1. m2[d][j] = m[d][j]
      BY <1>6, <2>2, Zenon
    <3>2. CASE \E t \in (1..(n - 1)) \ D : m[d][j] = Pde(t)
      BY <1>8, <3>1, <3>2, Zenon DEF Shape
    <3>. QED
      BY <3>1, <3>2, Zenon DEF Shape
  <2>. QED
    BY <2>1, <2>2, Zenon
<1>10. ASSUME NEW d \in D, NEW j \in Index, HasTable(m2, d, j), ~(d = c /\ j = i)
       PROVE  HasTable(m, d, j) /\ m2[d][j].addr = m[d][j].addr /\ m2[d][j].addr # k
  <2>1. HasTable(m, d, j) /\ m2[d][j] = m[d][j]
    BY <1>6, <1>10, Zenon
  <2>2. m[d][j].addr \in 1..(n - 1)
    BY <2>1, TableAt, Zenon
  <2>3. m[d][j].addr # k
    BY <1>1, <2>2, Zenon
  <2>. QED
    BY <2>1, <2>3, Zenon
<1>11. ASSUME NEW d \in D, NEW e \in D, NEW j \in Index, NEW l \in Index,
              HasTable(m2, d, j), HasTable(m2, e, l), m2[d][j].addr = m2[e][l].addr
       PROVE  d = e /\ j = l
  <2>1. CASE d = c /\ j = i
    BY <1>5, <1>10, <1>11, <2>1, Zenon
  <2>2. CASE e = c /\ l = i
    <3>1. m2[d][j].addr = k
      BY <1>5, <1>11, <2>2, Zenon
    <3>. QED
      BY <1>10, <1>11, <2>2, <3>1, Zenon
  <2>3. CASE ~(d = c /\ j = i) /\ ~(e = c /\ l = i)
    <3>1. HasTable(m, d, j) /\ m2[d][j].addr = m[d][j].addr
      BY <1>10, <1>11, <2>3, Zenon
    <3>2. HasTable(m, e, l) /\ m2[e][l].addr = m[e][l].addr
      BY <1>10, <1>11, <2>3, Zenon
    <3>3. m[d][j].addr = m[e][l].addr
      BY <1>11, <3>1, <3>2, Zenon
    <3>. QED
      BY <3>1, <3>2, <3>3, Zenon DEF Shape
  <2>. QED
    BY <2>1, <2>2, <2>3, Zenon
<1>12. D \subseteq 1..((k + 1) - 1)
  BY <1>8, Zenon DEF Shape
<1>13. Shape(m2, k + 1, D)
  BY <1>9, <1>11, <1>12, Zenon DEF Shape
<1>. QED
  BY <1>3, <1>4, <1>5, <1>7, <1>13, Zenon DEF Grown

\* An entry written for page v of directory c keeps the frames of processes apart,
\* when it shows no frame that another page or a table has.
LEMMA KeepPrivate ==
  ASSUME NEW m, NEW m2, NEW n \in Nat, NEW n2 \in Nat, n <= n2, NEW D, NEW W, NEW W2,
         NEW c \in D, NEW v \in Page, NEW x, Private(m, n, D, W),
         OnlyAt(D, W, W2, c, v, x), TablesFrom(m, m2, n, D), MayShow(m2, n2, D, W, c, v, x)
  PROVE  Private(m2, n2, D, W2)
<1>. USE DEF OnlyAt, TablesFrom, MayShow
<1>1. SUFFICES ASSUME NEW d \in D, NEW w \in Page, IsUser(W2[d][w])
               PROVE  /\ W2[d][w].addr \in (1..(n2 - 1)) \ D /\ pd_idx(w) < Kernel
                      /\ \A e \in D, i \in Index : HasTable(m2, e, i) => m2[e][i].addr # W2[d][w].addr
                      /\ \A e \in D, z \in Page :
                           IsUser(W2[e][z]) /\ W2[e][z].addr = W2[d][w].addr => d = e /\ w = z
  BY Zenon DEF Private
<1>2. 1..(n - 1) \subseteq 1..(n2 - 1)
  OBVIOUS
<1>3. CASE d = c /\ w = v
  <2>1. W2[d][w] = x /\ IsUser(x)
    BY <1>1, <1>3, Zenon
  <2>2. ASSUME NEW e \in D, NEW z \in Page, IsUser(W2[e][z]), W2[e][z].addr = W2[d][w].addr
        PROVE  d = e /\ w = z
    <3>1. SUFFICES ASSUME ~(e = c /\ z = v) PROVE FALSE
      BY <1>3, Zenon
    <3>2. W2[e][z] = W[e][z]
      BY <3>1, Zenon
    <3>. QED
      BY <2>1, <2>2, <3>1, <3>2, ZenonT(30)
  <2>. QED
    BY <1>3, <2>1, <2>2
<1>4. CASE ~(d = c /\ w = v)
  <2>1. W2[d][w] = W[d][w] /\ IsUser(W[d][w])
    BY <1>1, <1>4, Zenon
  <2>2. W[d][w].addr \in (1..(n - 1)) \ D /\ pd_idx(w) < Kernel
    BY <2>1, Zenon DEF Private
  <2>3. ASSUME NEW e \in D, NEW i \in Index, HasTable(m2, e, i) PROVE m2[e][i].addr # W2[d][w].addr
    BY <2>1, <2>2, <2>3 DEF Private
  <2>4. ASSUME NEW e \in D, NEW z \in Page, IsUser(W2[e][z]), W2[e][z].addr = W2[d][w].addr
        PROVE  d = e /\ w = z
    <3>1. CASE e = c /\ z = v
      <4>1. W2[e][z] = x /\ IsUser(x) /\ x.addr = W[d][w].addr
        BY <2>1, <2>4, <3>1, Zenon
      <4>. QED
        BY <1>4, <2>1, <4>1, Zenon
    <3>2. CASE ~(e = c /\ z = v)
      <4>1. W2[e][z] = W[e][z]
        BY <3>2, Zenon
      <4>. QED
        BY <2>1, <2>4, <4>1 DEF Private
    <3>. QED
      BY <3>1, <3>2, Zenon
  <2>. QED
    BY <1>2, <2>1, <2>2, <2>3, <2>4, Zenon
<1>. QED
  BY <1>3, <1>4, Zenon

\* The next frame is in no directory, and it may be taken.
LEMMA TakeFrame ==
  ASSUME NEW m, NEW n, NEW D, NEW W, Sound(m, n, D, W), n <= HeapFrames
  PROVE  /\ Sound(m, n + 1, D, W) /\ n \in (1..((n + 1) - 1)) \ D
         /\ \A d \in D, i \in Index : HasTable(m, d, i) => m[d][i].addr # n
         /\ \A d \in D, v \in Page : IsUser(W[d][v]) => W[d][v].addr # n
<1>1. n \in Nat \ {0} /\ n + 1 \in Nat \ {0} /\ n + 1 <= HeapFrames + 1
  BY TablesAssumption DEF Sound
<1>2. 1..(n - 1) \subseteq 1..((n + 1) - 1) /\ n \in 1..((n + 1) - 1) /\ n \notin 1..(n - 1)
  BY <1>1
<1>3. D \subseteq 1..(n - 1)
  BY Zenon DEF Sound, Shape
<1>4. ASSUME NEW d \in D, NEW i \in Index
      PROVE  \/ m[d][i] = Absent
             \/ i \in Huge /\ m[d][i] = HugePde
             \/ i \notin Huge /\ \E t \in (1..((n + 1) - 1)) \ D : m[d][i] = Pde(t)
  BY <1>2, Zenon DEF Sound, Shape
<1>5. Shape(m, n + 1, D)
  BY <1>2, <1>3, <1>4, Zenon DEF Sound, Shape
<1>6. Private(m, n + 1, D, W)
  BY <1>2, Zenon DEF Sound, Private
<1>7. \A d \in D, i \in Index : HasTable(m, d, i) => m[d][i].addr # n
  BY <1>2, TableAt DEF Sound
<1>8. \A d \in D, v \in Page : IsUser(W[d][v]) => W[d][v].addr # n
  BY <1>2 DEF Sound, Private
<1>. QED
  BY <1>1, <1>2, <1>3, <1>5, <1>6, <1>7, <1>8, Zenon DEF Sound

\* A page mapped, changed or unmapped through a table that is there.
LEMMA SoundWrite ==
  ASSUME NEW m, NEW n, NEW D, NEW W, Sound(m, n, D, W), NEW c \in D, NEW v \in Page, NEW x,
         MayShow(m, n, D, W, c, v, x), HasTable(m, c, pd_idx(v)),
         NEW m2, EntryWritten(m, m2, c, v, x), NEW W2, ViewWritten(W, W2, c, v, x)
  PROVE  Sound(m2, n, D, W2)
<1>1. n \in Nat /\ n <= HeapFrames + 1 /\ n <= n
  BY DEF Sound
<1>2. IsMem(m) /\ IsView(W, D) /\ Shape(m, n, D) /\ WalkIs(m, D, W) /\ Private(m, n, D, W)
  BY Zenon DEF Sound
<1>3. /\ IsMem(m2) /\ IsView(W2, D) /\ Shape(m2, n, D) /\ WalkIs(m2, D, W2)
      /\ \A d \in D : m2[d] = m[d]
      /\ OnlyAt(D, W, W2, c, v, x)
  BY <1>1, <1>2, WriteEntry, Zenon
<1>4. \A d \in D, i \in Index : HasTable(m2, d, i) => HasTable(m, d, i) /\ m2[d][i].addr = m[d][i].addr
  BY <1>3, Zenon DEF HasTable
<1>5. IsUser(x) => \A d \in D, i \in Index : HasTable(m2, d, i) => m2[d][i].addr # x.addr
  BY <1>4 DEF MayShow
<1>6. Private(m2, n, D, W2)
  <2>1. MayShow(m2, n, D, W, c, v, x)
    BY <1>5, Zenon DEF MayShow
  <2>2. TablesFrom(m, m2, n, D)
    BY <1>4, Zenon DEF TablesFrom
  <2>. QED
    BY <1>1, <1>2, <1>3, <2>1, <2>2, KeepPrivate, Zenon
<1>7. \A d \in D, w \in Page : IsPte(W2[d][w])
  BY <1>3, Zenon DEF MayShow, Sound, OnlyAt
<1>. QED
  BY <1>3, <1>6, <1>7, Zenon DEF Sound

\* A page mapped in a new table.
LEMMA SoundNewTable ==
  ASSUME NEW m, NEW n, NEW D, NEW W, Sound(m, n, D, W), n <= HeapFrames, NEW c \in D, NEW v \in Page, NEW x,
         MayShow(m, n, D, W, c, v, x), pd_idx(v) \notin Huge, ~m[c][pd_idx(v)].p,
         NEW m2, TableAdded(m, m2, c, pd_idx(v), n, [Cleared EXCEPT ![pt_idx(v)] = x]),
         NEW W2, ViewWritten(W, W2, c, v, x)
  PROVE  Sound(m2, n + 1, D, W2)
<1>. DEFINE T == [Cleared EXCEPT ![pt_idx(v)] = x]
<1>1. n \in Nat \ {0} /\ n <= n /\ n + 1 \in Nat \ {0} /\ n <= n + 1 /\ n + 1 <= HeapFrames + 1
  BY TablesAssumption DEF Sound
<1>2. IsMem(m) /\ IsView(W, D) /\ Shape(m, n, D) /\ WalkIs(m, D, W) /\ Private(m, n, D, W)
  BY Zenon DEF Sound
<1>3. pd_idx(v) \in Index \ Huge /\ pt_idx(v) \in Index
  BY PageIndex, Zenon
<1>4. IsTable(T) /\ T[pt_idx(v)] = x /\ \A j \in Index \ {pt_idx(v)} : T[j] = Absent
  BY <1>3 DEF Cleared, IsTable
<1>5. /\ IsMem(m2) /\ Shape(m2, n + 1, D) /\ m2[n] = T
      /\ HasTable(m2, c, pd_idx(v)) /\ m2[c][pd_idx(v)].addr = n
      /\ \A d \in D, j \in Index : ~(d = c /\ j = pd_idx(v)) => m2[d][j] = m[d][j]
      /\ \A d \in D, j \in Index : HasTable(m, d, j) => m2[m[d][j].addr] = m[m[d][j].addr]
  <2>1. TableAdded(m, m2, c, pd_idx(v), n, T) /\ n \in Nat /\ n <= n
    BY <1>1
  <2>. HIDE DEF T
  <2>2. Grown(m, m2, D, c, pd_idx(v), n, T)
    BY <1>2, <1>3, <1>4, <2>1, AddTable, Zenon
  <2>. QED
    BY <2>2, Zenon DEF Grown
<1>6. /\ W2[c][v] = x /\ \A d \in D, w \in Page : ~(d = c /\ w = v) => W2[d][w] = W[d][w]
      /\ IsView(W2, D)
  BY <1>2, ZenonT(30) DEF IsView, ViewWritten
<1>7. ~HasTable(m, c, pd_idx(v))
  BY Zenon DEF HasTable
<1>8. ASSUME NEW d \in D, NEW w \in Page PROVE Walk(m2, d, w) = W2[d][w]
  <2>. HIDE DEF T
  <2>1. pd_idx(w) \in Index /\ pt_idx(w) \in Index
    BY PageIndex, Zenon
  <2>2. CASE d = c /\ pd_idx(w) = pd_idx(v)
    <3>1. Walk(m2, d, w) = T[pt_idx(w)]
      <4>1. HasTable(m2, d, pd_idx(w)) /\ m2[d][pd_idx(w)].addr = n
        BY <1>5, <2>2, Zenon
      <4>2. Walk(m2, d, w) = m2[m2[d][pd_idx(w)].addr][pt_idx(w)]
        BY <4>1 DEF Walk, HasTable
      <4>. QED
        BY <1>5, <4>1, <4>2, Zenon
    <3>2. CASE w = v
      BY <1>4, <1>6, <2>2, <3>1, <3>2, Zenon
    <3>3. CASE w # v
      <4>1. pt_idx(w) # pt_idx(v)
        BY <2>2, <3>3, PageIndex, Zenon
      <4>2. Walk(m2, d, w) = Absent
        BY <1>4, <2>1, <3>1, <4>1, Zenon
      <4>3. Walk(m, d, w) = Absent
        BY <1>7, <2>2, WalkTable, Zenon
      <4>. QED
        BY <1>2, <1>6, <3>3, <4>2, <4>3, Zenon DEF WalkIs
    <3>. QED
      BY <3>2, <3>3, Zenon
  <2>3. CASE ~(d = c /\ pd_idx(w) = pd_idx(v))
    <3>1. m2[d][pd_idx(w)] = m[d][pd_idx(w)]
      BY <1>5, <2>1, <2>3, Zenon
    <3>2. HasTable(m2, d, pd_idx(w)) <=> HasTable(m, d, pd_idx(w))
      BY <3>1, Zenon DEF HasTable
    <3>3. CASE ~HasTable(m, d, pd_idx(w))
      <4>1. Walk(m2, d, w) = Absent /\ Walk(m, d, w) = Absent
        BY <3>2, <3>3, WalkTable, Zenon
      <4>. QED
        BY <1>2, <1>6, <2>3, <4>1, Zenon DEF WalkIs
    <3>4. CASE HasTable(m, d, pd_idx(w))
      <4>0. Walk(m2, d, w) = m2[m2[d][pd_idx(w)].addr][pt_idx(w)]
        BY <3>2, <3>4 DEF Walk, HasTable
      <4>1. Walk(m, d, w) = m[m[d][pd_idx(w)].addr][pt_idx(w)]
        BY <3>4 DEF Walk, HasTable
      <4>2. Walk(m2, d, w) = Walk(m, d, w)
        BY <1>5, <2>1, <3>1, <3>4, <4>0, <4>1, Zenon
      <4>. QED
        BY <1>2, <1>6, <2>3, <4>2, Zenon DEF WalkIs
    <3>. QED
      BY <3>3, <3>4, Zenon
  <2>. QED
    BY <2>2, <2>3, Zenon
<1>9. ASSUME NEW d \in D, NEW i \in Index, HasTable(m2, d, i)
      PROVE  (HasTable(m, d, i) /\ m2[d][i].addr = m[d][i].addr) \/ m2[d][i].addr = n
  <2>1. CASE d = c /\ i = pd_idx(v)
    BY <1>5, <2>1, Zenon
  <2>2. CASE ~(d = c /\ i = pd_idx(v))
    <3>1. m2[d][i] = m[d][i]
      BY <1>5, <2>2, Zenon
    <3>. QED
      BY <1>9, <3>1, Zenon DEF HasTable
  <2>. QED
    BY <2>1, <2>2, Zenon
<1>10. n \notin 1..(n - 1) /\ 1..(n - 1) \subseteq 1..((n + 1) - 1)
  BY <1>1
<1>11. IsUser(x) => x.addr # n
  BY <1>10, Zenon DEF MayShow
<1>12. Private(m2, n + 1, D, W2)
  <2>1. MayShow(m2, n + 1, D, W, c, v, x)
    BY <1>9, <1>10, <1>11, Zenon DEF MayShow
  <2>2. TablesFrom(m, m2, n, D)
    BY <1>9, <1>10, Zenon DEF TablesFrom
  <2>4. OnlyAt(D, W, W2, c, v, x)
    BY <1>6, Zenon DEF OnlyAt
  <2>3. n \in Nat /\ n + 1 \in Nat
    BY <1>1
  <2>. QED
    BY <1>1, <1>2, <2>1, <2>2, <2>3, <2>4, KeepPrivate, Zenon
<1>13. \A d \in D, w \in Page : IsPte(W2[d][w])
  BY <1>6, Zenon DEF MayShow, Sound
<1>14. WalkIs(m2, D, W2)
  BY <1>8, Zenon DEF WalkIs
<1>. QED
  <2>. HIDE DEF T
  <2>. QED
    BY <1>1, <1>5, <1>6, <1>12, <1>13, <1>14, Zenon DEF Sound

\* No frame of a process is shown anew.
UsersFrom(D, W, D2, W2) ==
  \A d \in D2, v \in Page : IsUser(W2[d][v]) => d \in D /\ W2[d][v] = W[d][v]

\* The tables of the directories D2 in m2 are those of D in m and some in new frames.
OwnersFrom(m, D, m2, D2, n) ==
  \A d \in D2, i \in Index : HasTable(m2, d, i) =>
    (d \in D /\ HasTable(m, d, i) /\ m2[d][i].addr = m[d][i].addr) \/ m2[d][i].addr \notin 1..(n - 1)

LEMMA KeepUsers ==
  ASSUME NEW m, NEW m2, NEW n \in Nat, NEW n2 \in Nat, n <= n2, NEW D, NEW D2, NEW W, NEW W2,
         Private(m, n, D, W), UsersFrom(D, W, D2, W2), OwnersFrom(m, D, m2, D2, n),
         \A d \in D2 : d \in D \/ d \notin 1..(n - 1)
  PROVE  Private(m2, n2, D2, W2)
<1>1. SUFFICES ASSUME NEW d \in D2, NEW w \in Page, IsUser(W2[d][w])
               PROVE  /\ W2[d][w].addr \in (1..(n2 - 1)) \ D2 /\ pd_idx(w) < Kernel
                      /\ \A e \in D2, i \in Index : HasTable(m2, e, i) => m2[e][i].addr # W2[d][w].addr
                      /\ \A e \in D2, z \in Page :
                           IsUser(W2[e][z]) /\ W2[e][z].addr = W2[d][w].addr => d = e /\ w = z
  BY Zenon DEF Private
<1>2. 1..(n - 1) \subseteq 1..(n2 - 1)
  OBVIOUS
<1>3. d \in D /\ W2[d][w] = W[d][w] /\ IsUser(W[d][w])
  BY <1>1, Zenon DEF UsersFrom
<1>4. W[d][w].addr \in (1..(n - 1)) \ D /\ pd_idx(w) < Kernel
  BY <1>3, Zenon DEF Private
<1>5. W2[d][w].addr \in (1..(n2 - 1)) \ D2
  BY <1>2, <1>3, <1>4, Zenon
<1>6. ASSUME NEW e \in D2, NEW i \in Index, HasTable(m2, e, i) PROVE m2[e][i].addr # W2[d][w].addr
  <2>1. CASE e \in D /\ HasTable(m, e, i) /\ m2[e][i].addr = m[e][i].addr
    <3>1. m[e][i].addr # W[d][w].addr
      BY <1>3, <2>1 DEF Private
    <3>. QED
      BY <1>3, <2>1, <3>1, Zenon
  <2>2. CASE m2[e][i].addr \notin 1..(n - 1)
    BY <1>3, <1>4, <2>2, Zenon
  <2>. QED
    BY <1>6, <2>1, <2>2, Zenon DEF OwnersFrom
<1>7. ASSUME NEW e \in D2, NEW z \in Page, IsUser(W2[e][z]), W2[e][z].addr = W2[d][w].addr
      PROVE  d = e /\ w = z
  <2>1. e \in D /\ W2[e][z] = W[e][z] /\ IsUser(W[e][z])
    BY <1>7, Zenon DEF UsersFrom
  <2>2. W[e][z].addr = W[d][w].addr
    BY <1>3, <1>7, <2>1, Zenon
  <2>. QED
    BY <1>3, <2>1, <2>2, Zenon DEF Private
<1>. QED
  BY <1>4, <1>5, <1>6, <1>7, Zenon

\* An empty directory in the next frame.
DirectoryAdded(D, W, n, W2) ==
  W2 = [d \in D \cup {n} |-> [v \in Page |-> IF d \in D THEN W[d][v] ELSE Absent]]

LEMMA SoundNewDirectory ==
  ASSUME NEW m, NEW n, NEW D, NEW W, Sound(m, n, D, W), n <= HeapFrames,
         NEW m2, m2 = [m EXCEPT ![n] = Cleared], NEW W2, DirectoryAdded(D, W, n, W2)
  PROVE  Sound(m2, n + 1, D \cup {n}, W2)
<1>1. /\ n \in Nat \ {0} /\ n \in Nat /\ n + 1 \in Nat \ {0} /\ n + 1 \in Nat /\ n <= n + 1
      /\ n + 1 <= HeapFrames + 1 /\ n \in 1..HeapFrames
  BY TablesAssumption DEF Sound
<1>2. IsMem(m) /\ IsView(W, D) /\ Shape(m, n, D) /\ WalkIs(m, D, W) /\ Private(m, n, D, W)
  BY Zenon DEF Sound
<1>3. D \subseteq 1..(n - 1) /\ n \notin 1..(n - 1) /\ 1..(n - 1) \subseteq 1..((n + 1) - 1) /\ n \in 1..((n + 1) - 1)
  BY <1>1, <1>2 DEF Shape
<1>4. D \subseteq 1..HeapFrames /\ 1..(n - 1) \subseteq 1..HeapFrames
  <2>1. 1..(n - 1) \subseteq 1..HeapFrames
    BY <1>1, TablesAssumption
  <2>. QED
    BY <1>3, <2>1, Zenon
<1>5. m2[n] = Cleared /\ \A f \in 1..HeapFrames : f # n => m2[f] = m[f]
  BY <1>1, <1>2 DEF IsMem
<1>6. IsMem(m2)
  BY <1>1, <1>2, ZenonT(30) DEF IsMem, Cleared
<1>7. /\ \A i \in Index : m2[n][i] = Absent /\ ~HasTable(m2, n, i)
  <2>1. \A i \in Index : m2[n][i] = Absent
    BY <1>5, Zenon DEF Cleared
  <2>2. \A i \in Index : ~HasTable(m2, n, i)
    BY <2>1, Fields DEF HasTable
  <2>. QED
    BY <2>1, <2>2, Zenon
<1>8. \A d \in D : m2[d] = m[d]
  BY <1>3, <1>4, <1>5, Zenon
<1>9. \A d \in D, i \in Index : m2[d][i] = m[d][i] /\ (HasTable(m2, d, i) <=> HasTable(m, d, i))
  BY <1>8, Zenon DEF HasTable
<1>10. Shape(m2, n + 1, D \cup {n})
  <2>1. D \cup {n} \subseteq 1..((n + 1) - 1)
    BY <1>3, Zenon
  <2>2. ASSUME NEW d \in D \cup {n}, NEW i \in Index
        PROVE  \/ m2[d][i] = Absent
               \/ i \in Huge /\ m2[d][i] = HugePde
               \/ i \notin Huge /\ \E t \in (1..((n + 1) - 1)) \ (D \cup {n}) : m2[d][i] = Pde(t)
    <3>1. CASE d = n
      BY <1>7, <3>1, Zenon
    <3>2. CASE d \in D
      <4>1. m2[d][i] = m[d][i]
        BY <1>9, <3>2, Zenon
      <4>2. CASE \E t \in (1..(n - 1)) \ D : m[d][i] = Pde(t)
        <5>1. PICK t \in (1..(n - 1)) \ D : m[d][i] = Pde(t)
          BY <4>2, Zenon
        <5>2. t \in (1..((n + 1) - 1)) \ (D \cup {n})
          BY <1>3, Zenon
        <5>3. CASE i \in Huge
          BY <1>2, <3>2, <4>1, <5>1, <5>3, Fields DEF Shape
        <5>. QED
          BY <4>1, <5>1, <5>2, <5>3, Zenon
      <4>. QED
        BY <1>2, <3>2, <4>1, <4>2, Zenon DEF Shape
    <3>. QED
      BY <3>1, <3>2, Zenon
  <2>3. ASSUME NEW d \in D \cup {n}, NEW e \in D \cup {n}, NEW i \in Index, NEW j \in Index,
               HasTable(m2, d, i), HasTable(m2, e, j), m2[d][i].addr = m2[e][j].addr
        PROVE  d = e /\ i = j
    <3>1. d \in D /\ e \in D
      BY <1>7, <2>3, Zenon
    <3>2. HasTable(m, d, i) /\ HasTable(m, e, j) /\ m[d][i].addr = m[e][j].addr
      BY <1>9, <2>3, <3>1, Zenon
    <3>. QED
      BY <1>2, <3>1, <3>2, Zenon DEF Shape
  <2>. QED
    BY <2>1, <2>2, <2>3, Zenon DEF Shape
<1>11. /\ IsView(W2, D \cup {n}) /\ \A v \in Page : W2[n][v] = Absent
       /\ \A d \in D, v \in Page : W2[d][v] = W[d][v]
  BY <1>3 DEF IsView, DirectoryAdded
<1>12. WalkIs(m2, D \cup {n}, W2)
  <2>1. ASSUME NEW v \in Page PROVE Walk(m2, n, v) = W2[n][v]
    <3>1. ~HasTable(m2, n, pd_idx(v))
      BY <1>7, PageIndex, Zenon
    <3>2. Walk(m2, n, v) = Absent
      BY <3>1, WalkTable, Zenon
    <3>. QED
      BY <1>11, <3>2, Zenon
  <2>2. ASSUME NEW d \in D, NEW v \in Page PROVE Walk(m2, d, v) = W2[d][v]
    <3>1. pd_idx(v) \in Index
      BY PageIndex, Zenon
    <3>2. CASE HasTable(m, d, pd_idx(v))
      <4>1. m[d][pd_idx(v)].addr \in 1..(n - 1)
        BY <1>2, <3>1, <3>2, TableAt, Zenon
      <4>2. m2[m[d][pd_idx(v)].addr] = m[m[d][pd_idx(v)].addr]
        BY <1>3, <1>4, <1>5, <4>1, Zenon
      <4>3. Walk(m, d, v) = m[m[d][pd_idx(v)].addr][pt_idx(v)]
        BY <3>2 DEF Walk, HasTable
      <4>4. HasTable(m2, d, pd_idx(v)) /\ m2[d][pd_idx(v)] = m[d][pd_idx(v)]
        BY <1>9, <3>1, <3>2, Zenon
      <4>5. Walk(m2, d, v) = m2[m2[d][pd_idx(v)].addr][pt_idx(v)]
        BY <4>4 DEF Walk, HasTable
      <4>6. Walk(m2, d, v) = Walk(m, d, v)
        BY <4>2, <4>3, <4>4, <4>5, Zenon
      <4>. QED
        BY <1>2, <1>11, <4>6, Zenon DEF WalkIs
    <3>3. CASE ~HasTable(m, d, pd_idx(v))
      <4>1. ~HasTable(m2, d, pd_idx(v))
        BY <1>9, <3>1, <3>3, Zenon
      <4>2. Walk(m, d, v) = Absent /\ Walk(m2, d, v) = Absent
        BY <3>3, <4>1, WalkTable, Zenon
      <4>. QED
        BY <1>2, <1>11, <4>2, Zenon DEF WalkIs
    <3>. QED
      BY <3>2, <3>3, Zenon
  <2>. QED
    BY <2>1, <2>2, Zenon DEF WalkIs
<1>13. Private(m2, n + 1, D \cup {n}, W2)
  <2>1. UsersFrom(D, W, D \cup {n}, W2)
    <3>1. SUFFICES ASSUME NEW d \in D \cup {n}, NEW v \in Page, IsUser(W2[d][v])
                   PROVE  d \in D /\ W2[d][v] = W[d][v]
      BY Zenon DEF UsersFrom
    <3>2. CASE d = n
      BY <1>11, <3>1, <3>2, Fields DEF IsUser
    <3>. QED
      BY <1>11, <3>2, Zenon
  <2>2. OwnersFrom(m, D, m2, D \cup {n}, n)
    BY <1>7, <1>9, ZenonT(30) DEF OwnersFrom
  <2>3. \A d \in D \cup {n} : d \in D \/ d \notin 1..(n - 1)
    BY <1>3, Zenon
  <2>. QED
    BY <1>1, <1>2, <2>1, <2>2, <2>3, KeepUsers, Zenon
<1>14. \A d \in D \cup {n}, v \in Page : IsPte(W2[d][v])
  <2>1. IsPte(Absent)
    BY Zenon DEF IsPte
  <2>2. \A v \in Page : IsPte(W2[n][v])
    BY <1>11, <2>1, Zenon
  <2>3. \A d \in D, v \in Page : IsPte(W2[d][v])
    BY <1>11, Zenon DEF Sound
  <2>. QED
    BY <2>2, <2>3, Zenon
<1>. QED
  BY <1>1, <1>6, <1>10, <1>11, <1>12, <1>13, <1>14, Zenon DEF Sound

\* The table of entry i of directory c, copied for directory a.
ViewCopied(D, W, W2, a, c, i) ==
  W2 = [d \in D |-> [v \in Page |-> IF d = a /\ pd_idx(v) = i THEN W[c][v] ELSE W[d][v]]]

LEMMA SoundCopy ==
  ASSUME NEW m, NEW n, NEW D, NEW W, Sound(m, n, D, W), n <= HeapFrames,
         NEW a \in D, NEW c \in D, NEW i \in Index, Kernel <= i, ~m[a][i].p, HasTable(m, c, i),
         NEW m2, TableAdded(m, m2, a, i, n, m[m[c][i].addr]),
         NEW W2, ViewCopied(D, W, W2, a, c, i)
  PROVE  Sound(m2, n + 1, D, W2)
<1>1. /\ n \in Nat \ {0} /\ n \in Nat /\ n + 1 \in Nat \ {0} /\ n + 1 \in Nat /\ n <= n + 1 /\ n <= n
      /\ n + 1 <= HeapFrames + 1 /\ n \notin 1..(n - 1)
  BY TablesAssumption DEF Sound
<1>2. IsMem(m) /\ IsView(W, D) /\ Shape(m, n, D) /\ WalkIs(m, D, W) /\ Private(m, n, D, W)
  BY Zenon DEF Sound
<1>3. i \in Index \ Huge /\ m[c][i].addr \in 1..(n - 1)
  BY <1>2, TableAt, ZenonT(30)
<1>4. IsTable(m[m[c][i].addr])
  <2>1. m[c][i].addr \in 1..HeapFrames
    BY <1>1, <1>3, TablesAssumption
  <2>. QED
    BY <1>2, <2>1, ZenonT(30) DEF IsMem, IsTable
<1>5. Grown(m, m2, D, a, i, n, m[m[c][i].addr])
  BY <1>1, <1>2, <1>3, <1>4, AddTable, Zenon
<1>6. /\ IsMem(m2) /\ Shape(m2, n + 1, D) /\ m2[n] = m[m[c][i].addr]
      /\ HasTable(m2, a, i) /\ m2[a][i].addr = n
      /\ \A d \in D, j \in Index : ~(d = a /\ j = i) => m2[d][j] = m[d][j]
      /\ \A d \in D, j \in Index : HasTable(m, d, j) => m2[m[d][j].addr] = m[m[d][j].addr]
  BY <1>5, Zenon DEF Grown
<1>7. /\ IsView(W2, D) /\ \A v \in Page : pd_idx(v) = i => W2[a][v] = W[c][v]
      /\ \A d \in D, v \in Page : ~(d = a /\ pd_idx(v) = i) => W2[d][v] = W[d][v]
  BY DEF IsView, ViewCopied
<1>8. ASSUME NEW d \in D, NEW w \in Page PROVE Walk(m2, d, w) = W2[d][w]
  <2>1. pd_idx(w) \in Index /\ pt_idx(w) \in Index
    BY PageIndex, Zenon
  <2>2. CASE d = a /\ pd_idx(w) = i
    <3>1. HasTable(m2, d, pd_idx(w)) /\ m2[d][pd_idx(w)].addr = n
      BY <1>6, <2>2, Zenon
    <3>2. Walk(m2, d, w) = m2[m2[d][pd_idx(w)].addr][pt_idx(w)]
      BY <3>1 DEF Walk, HasTable
    <3>3. Walk(m, c, w) = m[m[c][i].addr][pt_idx(w)]
      BY <2>2 DEF Walk, HasTable
    <3>4. Walk(m2, d, w) = Walk(m, c, w)
      BY <1>6, <3>1, <3>2, <3>3, Zenon
    <3>. QED
      BY <1>2, <1>7, <2>2, <3>4, Zenon DEF WalkIs
  <2>3. CASE ~(d = a /\ pd_idx(w) = i)
    <3>1. m2[d][pd_idx(w)] = m[d][pd_idx(w)]
      BY <1>6, <2>1, <2>3, Zenon
    <3>2. HasTable(m2, d, pd_idx(w)) <=> HasTable(m, d, pd_idx(w))
      BY <3>1, Zenon DEF HasTable
    <3>3. CASE ~HasTable(m, d, pd_idx(w))
      <4>1. Walk(m2, d, w) = Absent /\ Walk(m, d, w) = Absent
        BY <3>2, <3>3, WalkTable, Zenon
      <4>. QED
        BY <1>2, <1>7, <2>3, <4>1, Zenon DEF WalkIs
    <3>4. CASE HasTable(m, d, pd_idx(w))
      <4>1. Walk(m2, d, w) = m2[m2[d][pd_idx(w)].addr][pt_idx(w)]
        BY <3>2, <3>4 DEF Walk, HasTable
      <4>2. Walk(m, d, w) = m[m[d][pd_idx(w)].addr][pt_idx(w)]
        BY <3>4 DEF Walk, HasTable
      <4>0. m2[m[d][pd_idx(w)].addr] = m[m[d][pd_idx(w)].addr]
        BY <1>6, <2>1, <3>4, Zenon
      <4>3. Walk(m2, d, w) = Walk(m, d, w)
        BY <3>1, <4>0, <4>1, <4>2, Zenon
      <4>. QED
        BY <1>2, <1>7, <2>3, <4>3, ZenonT(30) DEF WalkIs
    <3>. QED
      BY <3>3, <3>4, Zenon
  <2>. QED
    BY <2>2, <2>3, Zenon
<1>9. UsersFrom(D, W, D, W2)
  <2>1. SUFFICES ASSUME NEW d \in D, NEW v \in Page, IsUser(W2[d][v]) PROVE W2[d][v] = W[d][v]
    BY Zenon DEF UsersFrom
  <2>2. CASE d = a /\ pd_idx(v) = i
    <3>1. IsUser(W[c][v])
      BY <1>7, <2>1, <2>2, Zenon
    <3>2. i < Kernel
      BY <1>2, <2>2, <3>1, Zenon DEF Private
    <3>3. FALSE
      BY <3>2, TablesAssumption DEF Index
    <3>. QED
      BY <3>3, Zenon
  <2>. QED
    BY <1>7, <2>2, Zenon
<1>10. OwnersFrom(m, D, m2, D, n)
  <2>1. SUFFICES ASSUME NEW d \in D, NEW j \in Index, HasTable(m2, d, j)
                 PROVE  \/ HasTable(m, d, j) /\ m2[d][j].addr = m[d][j].addr
                        \/ m2[d][j].addr \notin 1..(n - 1)
    BY Zenon DEF OwnersFrom
  <2>2. CASE d = a /\ j = i
    BY <1>1, <1>6, <2>2, Zenon
  <2>3. CASE ~(d = a /\ j = i)
    <3>1. m2[d][j] = m[d][j]
      BY <1>6, <2>3, Zenon
    <3>. QED
      BY <2>1, <3>1, Zenon DEF HasTable
  <2>. QED
    BY <2>2, <2>3, Zenon
<1>11. Private(m2, n + 1, D, W2)
  BY <1>1, <1>2, <1>9, <1>10, KeepUsers, Zenon
<1>12. \A d \in D, v \in Page : IsPte(W2[d][v])
  BY <1>7, Zenon DEF Sound
<1>13. WalkIs(m2, D, W2)
  BY <1>8, Zenon DEF WalkIs
<1>. QED
  BY <1>1, <1>6, <1>7, <1>11, <1>12, <1>13, Zenon DEF Sound

\* A hugepage copied for directory a.
LEMMA SoundHuge ==
  ASSUME NEW m, NEW n, NEW D, NEW W, Sound(m, n, D, W), NEW a \in D, NEW i \in Huge, i \in Index, ~m[a][i].p,
         NEW m2, m2 = [m EXCEPT ![a] = [@ EXCEPT ![i] = HugePde]]
  PROVE  Sound(m2, n, D, W)
<1>1. n \in Nat \ {0} /\ n \in Nat /\ n <= n /\ n <= HeapFrames + 1
  BY DEF Sound
<1>2. IsMem(m) /\ IsView(W, D) /\ Shape(m, n, D) /\ WalkIs(m, D, W) /\ Private(m, n, D, W)
  BY Zenon DEF Sound
<1>3. D \subseteq 1..HeapFrames /\ 1..(n - 1) \subseteq 1..HeapFrames
  <2>1. 1..(n - 1) \subseteq 1..HeapFrames
    BY <1>1, TablesAssumption
  <2>. QED
    BY <1>2, <2>1, Zenon DEF Shape
<1>4. /\ IsMem(m2) /\ m2[a][i] = HugePde
      /\ \A d \in D, j \in Index : ~(d = a /\ j = i) => m2[d][j] = m[d][j]
      /\ \A f \in 1..HeapFrames : f # a => m2[f] = m[f]
  BY <1>2, <1>3, ZenonT(30) DEF IsMem
<1>5. ~HasTable(m, a, i) /\ ~HasTable(m2, a, i)
  BY <1>4, Fields DEF HasTable
<1>6. ASSUME NEW d \in D, NEW j \in Index
      PROVE  /\ HasTable(m2, d, j) <=> HasTable(m, d, j)
             /\ HasTable(m, d, j) => m2[d][j] = m[d][j]
  <2>1. CASE d = a /\ j = i
    BY <1>5, <2>1, Zenon
  <2>2. CASE ~(d = a /\ j = i)
    <3>1. m2[d][j] = m[d][j]
      BY <1>4, <2>2, Zenon
    <3>. QED
      BY <3>1, Zenon DEF HasTable
  <2>. QED
    BY <2>1, <2>2, Zenon
<1>7. Shape(m2, n, D)
  <2>1. ASSUME NEW d \in D, NEW j \in Index
        PROVE  \/ m2[d][j] = Absent
               \/ j \in Huge /\ m2[d][j] = HugePde
               \/ j \notin Huge /\ \E t \in (1..(n - 1)) \ D : m2[d][j] = Pde(t)
    <3>1. CASE d = a /\ j = i
      BY <1>4, <3>1, Zenon
    <3>2. CASE ~(d = a /\ j = i)
      <4>1. m2[d][j] = m[d][j]
        BY <1>4, <3>2, Zenon
      <4>. QED
        BY <1>2, <4>1, ZenonT(30) DEF Shape
    <3>. QED
      BY <3>1, <3>2, Zenon
  <2>2. ASSUME NEW d \in D, NEW e \in D, NEW j \in Index, NEW l \in Index,
               HasTable(m2, d, j), HasTable(m2, e, l), m2[d][j].addr = m2[e][l].addr
        PROVE  d = e /\ j = l
    <3>1. HasTable(m, d, j) /\ HasTable(m, e, l)
      BY <1>6, <2>2, Zenon
    <3>2. m[d][j].addr = m[e][l].addr
      BY <1>6, <2>2, <3>1, Zenon
    <3>. QED
      BY <1>2, <3>1, <3>2, Zenon DEF Shape
  <2>3. D \subseteq 1..(n - 1)
    BY <1>2, Zenon DEF Shape
  <2>. QED
    BY <2>1, <2>2, <2>3, Zenon DEF Shape
<1>8. ASSUME NEW d \in D, NEW w \in Page PROVE Walk(m2, d, w) = W[d][w]
  <2>1. pd_idx(w) \in Index
    BY PageIndex, Zenon
  <2>2. CASE ~HasTable(m, d, pd_idx(w))
    <3>1. ~HasTable(m2, d, pd_idx(w))
      BY <1>6, <2>1, <2>2, Zenon
    <3>2. Walk(m2, d, w) = Absent /\ Walk(m, d, w) = Absent
      BY <2>2, <3>1, WalkTable, Zenon
    <3>. QED
      BY <1>2, <3>2, Zenon DEF WalkIs
  <2>3. CASE HasTable(m, d, pd_idx(w))
    <3>1. m2[d][pd_idx(w)] = m[d][pd_idx(w)] /\ HasTable(m2, d, pd_idx(w))
      BY <1>6, <2>1, <2>3, Zenon
    <3>2. m[d][pd_idx(w)].addr \in (1..(n - 1)) \ D
      BY <1>2, <2>1, <2>3, TableAt, Zenon
    <3>3. m2[m[d][pd_idx(w)].addr] = m[m[d][pd_idx(w)].addr]
      BY <1>3, <1>4, <3>2, Zenon
    <3>4. Walk(m2, d, w) = m2[m2[d][pd_idx(w)].addr][pt_idx(w)]
      BY <3>1 DEF Walk, HasTable
    <3>5. Walk(m, d, w) = m[m[d][pd_idx(w)].addr][pt_idx(w)]
      BY <2>3 DEF Walk, HasTable
    <3>6. Walk(m2, d, w) = Walk(m, d, w)
      BY <3>1, <3>3, <3>4, <3>5, Zenon
    <3>. QED
      BY <1>2, <3>6, Zenon DEF WalkIs
  <2>. QED
    BY <2>2, <2>3, Zenon
<1>9. OwnersFrom(m, D, m2, D, n) /\ UsersFrom(D, W, D, W)
  BY <1>6, Zenon DEF OwnersFrom, UsersFrom
<1>10. Private(m2, n, D, W)
  BY <1>1, <1>2, <1>9, KeepUsers, Zenon
<1>11. WalkIs(m2, D, W)
  BY <1>8, Zenon DEF WalkIs
<1>. QED
  BY <1>1, <1>4, <1>7, <1>10, <1>11, Zenon DEF Sound

-----------------------------------------------------------------------------
(* the steps *)

\* While no directory is being cloned, the views are what is meant.
LEMMA Quiet ==
  ASSUME NEW V, NEW cl, NEW c, IsView(V, DOMAIN V), cl.op # "clone"
  PROVE  DirsOf(V, cl) = DOMAIN V /\ MeantOf(V, cl, c) = V
<1>1. DirsOf(V, cl) = DOMAIN V
  BY DEF DirsOf
<1>. QED
  BY <1>1 DEF MeantOf, IsView

LEMMA NotCloning ==
  ASSUME TablesInv, call.op # "clone"
  PROVE  Sound(mem, next, DOMAIN view, view) /\ IsView(view, DOMAIN view) /\ cr3 \in DOMAIN view
<1>1. IsView(view, DOMAIN view)
  BY Zenon DEF TablesInv
<1>2. DirsOf(view, call) = DOMAIN view /\ MeantOf(view, call, cr3) = view
  BY <1>1, Quiet, Zenon
<1>. QED
  BY <1>2, Zenon DEF TablesInv

\* The kinds of calls.
LEMMA CallKinds ==
  ASSUME CallOK
  PROVE  /\ call.op = "vmalloc" =>
              /\ call \in [op : {"vmalloc"}, v : UserPage, i : Nat, pg : 1..MaxPages, w : BOOLEAN]
              /\ call.i < call.pg
         /\ call.op = "ioremap" =>
              /\ call \in [op : {"ioremap"}, v : Nat, i : Nat, pg : 1..MaxPages, phys : Nat]
              /\ call.i < call.pg /\ io_map_start <= call.v /\ call.v + call.pg <= io_map_start + io_map_sz
         /\ call.op = "clone" =>
              /\ call \in [op : {"clone"}, pd : 1..HeapFrames, i : Kernel..Entries]
              /\ call.pd \notin DOMAIN view
         /\ call = Idle => call.op = "none"
BY DEF CallOK, Idle

\* The invariant again, after a step that ends with no directory being cloned.
LEMMA Settled ==
  ASSUME Sound(mem', next', DOMAIN view', view'), IsView(view', DOMAIN view'), CallOK', call'.op # "clone",
         cr3' \in DOMAIN view', io_region_offset' \in 0..io_map_sz, TlbShows(tlb', view'[cr3'])
  PROVE  TablesInv'
<1>1. DirsOf(view', call') = DOMAIN view' /\ MeantOf(view', call', cr3') = view'
  BY Quiet, Zenon
<1>2. Sound(mem', next', DirsOf(view', call'), MeantOf(view', call', cr3'))
  BY <1>1, Zenon
<1>. QED
  BY <1>2, Zenon DEF TablesInv

\* map() of what may be shown.
LEMMA MapKeeps ==
  ASSUME NEW n, NEW v \in Page, NEW pte, Sound(mem, n, DOMAIN view, view), IsView(view, DOMAIN view),
         cr3 \in DOMAIN view, pd_idx(v) \notin Huge, MayShow(mem, n, DOMAIN view, view, cr3, v, pte),
         map(n, v, pte), TlbShows(tlb, view[cr3])
  PROVE  /\ Sound(mem', next', DOMAIN view', view') /\ DOMAIN view' = DOMAIN view
         /\ IsView(view', DOMAIN view') /\ TlbShows(tlb, view'[cr3])
<1>1. /\ ViewWritten(view, view', cr3, v, pte)
      /\ \/ /\ ~mem[cr3][pd_idx(v)].p /\ n <= HeapFrames /\ next' = n + 1
            /\ TableAdded(mem, mem', cr3, pd_idx(v), n, [Cleared EXCEPT ![pt_idx(v)] = pte])
         \/ /\ mem[cr3][pd_idx(v)].p /\ ~mem[mem[cr3][pd_idx(v)].addr][pt_idx(v)].p /\ next' = n
            /\ EntryWritten(mem, mem', cr3, v, pte)
  BY Zenon DEF map, ViewWritten, TableAdded, EntryWritten, NewTable
<1>2. Shape(mem, n, DOMAIN view) /\ WalkIs(mem, DOMAIN view, view) /\ pd_idx(v) \in Index
  BY PageIndex, Zenon DEF Sound
<1>3. DOMAIN view' = DOMAIN view /\ IsView(view', DOMAIN view') /\ OnlyAt(DOMAIN view, view, view', cr3, v, pte)
  BY <1>1, ZenonT(30) DEF ViewWritten, IsView, OnlyAt
<1>4. Sound(mem', next', DOMAIN view, view') /\ ~view[cr3][v].p
  <2>1. CASE /\ ~mem[cr3][pd_idx(v)].p /\ n <= HeapFrames /\ next' = n + 1
             /\ TableAdded(mem, mem', cr3, pd_idx(v), n, [Cleared EXCEPT ![pt_idx(v)] = pte])
    <3>1. Sound(mem', n + 1, DOMAIN view, view')
      BY <1>1, <2>1, SoundNewTable, Zenon
    <3>2. ~HasTable(mem, cr3, pd_idx(v))
      BY <2>1, Zenon DEF HasTable
    <3>3. view[cr3][v] = Absent
      <4>1. Walk(mem, cr3, v) = Absent
        BY <3>2, WalkTable, Zenon
      <4>. QED
        BY <1>2, <4>1, Zenon DEF WalkIs
    <3>4. ~view[cr3][v].p
      BY <3>3, Fields, Zenon
    <3>. QED
      BY <2>1, <3>1, <3>4, Zenon
  <2>2. CASE /\ mem[cr3][pd_idx(v)].p /\ ~mem[mem[cr3][pd_idx(v)].addr][pt_idx(v)].p /\ next' = n
             /\ EntryWritten(mem, mem', cr3, v, pte)
    <3>1. HasTable(mem, cr3, pd_idx(v))
      BY <1>2, <2>2, TableAt, ZenonT(30)
    <3>2. Sound(mem', n, DOMAIN view, view')
      BY <1>1, <2>2, <3>1, SoundWrite, Zenon
    <3>3. Walk(mem, cr3, v) = mem[mem[cr3][pd_idx(v)].addr][pt_idx(v)]
      BY <3>1 DEF Walk, HasTable
    <3>4. Walk(mem, cr3, v) = view[cr3][v]
      BY <1>2, Zenon DEF WalkIs
    <3>5. ~view[cr3][v].p
      BY <2>2, <3>3, <3>4, Zenon
    <3>. QED
      BY <2>2, <3>2, <3>5, Zenon
  <2>. QED
    BY <1>1, <2>1, <2>2, Zenon
<1>5. TlbShows(tlb, view'[cr3])
  <2>1. SUFFICES ASSUME tlb.pte.p PROVE tlb.v \in Page /\ tlb.pte = view'[cr3][tlb.v]
    BY Zenon DEF TlbShows
  <2>2. tlb.v \in Page /\ tlb.pte = view[cr3][tlb.v]
    BY <2>1, Zenon DEF TlbShows
  <2>3. tlb.v # v
    BY <1>4, <2>1, <2>2, Zenon
  <2>4. view'[cr3][tlb.v] = view[cr3][tlb.v]
    BY <1>3, <2>2, <2>3, Zenon DEF OnlyAt
  <2>. QED
    BY <2>2, <2>4, Zenon
<1>6. Sound(mem', next', DOMAIN view', view')
  BY <1>3, <1>4, Zenon
<1>. QED
  BY <1>3, <1>5, <1>6, Zenon

LEMMA VmallocStarts ==
  ASSUME TablesInv, NEW v \in UserPage, NEW pg \in 1..MaxPages, NEW w \in BOOLEAN, vmalloc(v, pg, w)
  PROVE  TablesInv'
<1>1. call.op # "clone" /\ call'.op # "clone" /\ CallOK'
  BY TablesAssumption DEF vmalloc, Idle, CallOK
<1>. QED
  BY <1>1, NotCloning, Settled, Zenon DEF TablesInv, vmalloc

LEMMA MapDeviceKeeps ==
  ASSUME TablesInv, NEW f \in Device, NEW pg \in 1..MaxPages, MapDevice(f, pg)
  PROVE  TablesInv'
<1>1. call.op # "clone" /\ call'.op # "clone"
  BY DEF MapDevice, Idle
<1>2. io_region_offset \in 0..io_map_sz /\ pg \in Nat /\ 0 < pg /\ f \in Nat
  BY TablesAssumption DEF TablesInv
<1>3. /\ io_region_offset + pg <= io_map_sz /\ io_alloc(pg) = io_map_start + io_region_offset
      /\ io_region_offset' = io_region_offset + pg
      /\ call' = [op |-> "ioremap", v |-> io_alloc(pg), i |-> 0, pg |-> pg, phys |-> f]
  BY <1>2, TablesAssumption DEF MapDevice, io_alloc
<1>4. CallOK' /\ io_region_offset' \in 0..io_map_sz
  BY <1>2, <1>3, TablesAssumption DEF CallOK
<1>. QED
  BY <1>1, <1>4, NotCloning, Settled, Zenon DEF TablesInv, MapDevice

\* A page that a kernel mapping is made for.
LEMMA KernelPte ==
  ASSUME NEW m, NEW n, NEW D, NEW W, NEW c, NEW v, NEW f \in Nat, NEW r \in BOOLEAN, NEW p \in BOOLEAN
  PROVE  MayShow(m, n, D, W, c, v, Pte(f, FALSE, r, p))
<1>1. IsPte(Pte(f, FALSE, r, p))
  BY Zenon DEF IsPte
<1>2. ~IsUser(Pte(f, FALSE, r, p))
  BY DEF IsUser, Pte
<1>. QED
  BY <1>1, <1>2, Zenon DEF MayShow

LEMMA VmallocKeeps ==
  ASSUME TablesInv, VmallocPage
  PROVE  TablesInv'
<1>. DEFINE v == call.v + call.i
            x == Pte(next, TRUE, call.w, FALSE)
<1>1. /\ call.op = "vmalloc" /\ cr3' = cr3 /\ tlb' = tlb /\ io_region_offset' = io_region_offset
  BY Zenon DEF VmallocPage
<1>0. \/ next > HeapFrames
      \/ NextPage /\ map(next + 1, v, x)
      \/ call' = Idle /\ Refused(next + 1, v)
  BY Zenon DEF VmallocPage
<1>2. /\ call \in [op : {"vmalloc"}, v : UserPage, i : Nat, pg : 1..MaxPages, w : BOOLEAN] /\ call.i < call.pg
  BY <1>1, CallKinds, Zenon DEF TablesInv
<1>3. call.op # "clone"
  BY <1>1
<1>4. Sound(mem, next, DOMAIN view, view) /\ IsView(view, DOMAIN view) /\ cr3 \in DOMAIN view
  BY <1>3, NotCloning, Zenon
<1>5. TlbShows(tlb, view[cr3]) /\ io_region_offset \in 0..io_map_sz
  BY Zenon DEF TablesInv
<1>6. v \in Page /\ pd_idx(v) < Kernel /\ pd_idx(v) \notin Huge
  <2>1. call.v \in UserPage /\ call.i \in 0..(MaxPages - 1)
    BY <1>2, TablesAssumption
  <2>2. v \in Page /\ pd_idx(v) < Kernel
    BY <2>1, TablesAssumption, Zenon
  <2>3. pd_idx(v) \in Index
    BY <2>2, PageIndex, Zenon
  <2>4. pd_idx(v) \notin Huge
    BY <2>2, <2>3, TablesAssumption DEF Index
  <2>. QED
    BY <2>2, <2>4, Zenon
<1>7. Idle.op # "clone" /\ (call' = Idle => CallOK' /\ call'.op # "clone")
  BY DEF Idle, CallOK
<1>8. NextPage => CallOK' /\ call'.op # "clone"
  BY <1>2, <1>7, TablesAssumption DEF NextPage, CallOK
<1>9. CASE next > HeapFrames /\ call' = Idle /\ UNCHANGED <<mem, next, view>>
  BY <1>1, <1>4, <1>5, <1>7, <1>9, Settled, Zenon
<1>10. CASE next <= HeapFrames
  <2>1. /\ Sound(mem, next + 1, DOMAIN view, view) /\ next \in (1..((next + 1) - 1)) \ DOMAIN view
        /\ \A d \in DOMAIN view, i \in Index : HasTable(mem, d, i) => mem[d][i].addr # next
        /\ \A d \in DOMAIN view, w \in Page : IsUser(view[d][w]) => view[d][w].addr # next
    BY <1>4, <1>10, TakeFrame, Zenon
  <2>2. CASE call' = Idle /\ Refused(next + 1, v)
    <3>1. next' = next + 1 /\ mem' = mem /\ view' = view
      BY <2>2, Zenon DEF Refused
    <3>. QED
      BY <1>1, <1>4, <1>5, <1>7, <2>1, <2>2, <3>1, Settled, Zenon
  <2>3. CASE NextPage /\ map(next + 1, v, x)
    <3>1. x.addr = next /\ IsPte(x)
      <4>1. next \in Nat /\ call.w \in BOOLEAN
        BY <1>2, <1>4 DEF Sound
      <4>2. x.addr = next
        BY DEF Pte
      <4>3. TRUE \in BOOLEAN /\ FALSE \in BOOLEAN
        OBVIOUS
      <4>4. IsPte(x)
        BY <4>1, <4>3, Zenon DEF IsPte
      <4>. QED
        BY <4>2, <4>4, Zenon
    <3>2. MayShow(mem, next + 1, DOMAIN view, view, cr3, v, x)
      <4>. HIDE DEF x, v
      <4>. QED
        BY <1>6, <2>1, <3>1, Zenon DEF MayShow
    <3>. HIDE DEF x, v
    <3>3. /\ Sound(mem', next', DOMAIN view', view') /\ DOMAIN view' = DOMAIN view
          /\ IsView(view', DOMAIN view') /\ TlbShows(tlb, view'[cr3])
      BY <1>4, <1>5, <1>6, <2>1, <2>3, <3>2, MapKeeps, Zenon
    <3>. QED
      BY <1>1, <1>4, <1>5, <1>8, <2>3, <3>3, Settled, Zenon
  <2>4. (NextPage /\ map(next + 1, v, x)) \/ (call' = Idle /\ Refused(next + 1, v))
    <3>1. ~(next > HeapFrames)
      BY <1>4, <1>10, TablesAssumption DEF Sound
    <3>. QED
      BY <1>0, <3>1, Zenon
  <2>. QED
    BY <2>2, <2>3, <2>4, Zenon
<1>. QED
  BY <1>9, <1>10, Zenon DEF VmallocPage

LEMMA IoremapKeeps ==
  ASSUME TablesInv, ioremap
  PROVE  TablesInv'
<1>. DEFINE v == call.v + call.i
            x == Pte(call.phys + call.i, FALSE, TRUE, TRUE)
<1>1. /\ call.op = "ioremap" /\ cr3' = cr3 /\ tlb' = tlb /\ io_region_offset' = io_region_offset
  BY Zenon DEF ioremap
<1>2. /\ call \in [op : {"ioremap"}, v : Nat, i : Nat, pg : 1..MaxPages, phys : Nat]
      /\ call.i < call.pg /\ io_map_start <= call.v /\ call.v + call.pg <= io_map_start + io_map_sz
  BY <1>1, CallKinds, Zenon DEF TablesInv
<1>3. call.op # "clone"
  BY <1>1
<1>4. Sound(mem, next, DOMAIN view, view) /\ IsView(view, DOMAIN view) /\ cr3 \in DOMAIN view
  BY <1>3, NotCloning, Zenon
<1>5. TlbShows(tlb, view[cr3]) /\ io_region_offset \in 0..io_map_sz
  BY Zenon DEF TablesInv
<1>6. v \in Page /\ pd_idx(v) \notin Huge
  <2>1. v \in io_map_start..(io_map_start + io_map_sz - 1)
    BY <1>2, TablesAssumption
  <2>. QED
    BY <2>1, TablesAssumption, Zenon
<1>7. Idle.op # "clone" /\ (call' = Idle => CallOK' /\ call'.op # "clone")
  BY DEF Idle, CallOK
<1>8. NextPage => CallOK' /\ call'.op # "clone"
  BY <1>2, <1>7, TablesAssumption DEF NextPage, CallOK
<1>9. CASE call' = Idle /\ Refused(next, v)
  <2>1. next' = next /\ mem' = mem /\ view' = view
    BY <1>9, Zenon DEF Refused
  <2>. QED
    BY <1>1, <1>4, <1>5, <1>7, <1>9, <2>1, Settled, Zenon
<1>10. CASE NextPage /\ map(next, v, x)
  <2>1. MayShow(mem, next, DOMAIN view, view, cr3, v, x)
    <3>1. call.phys + call.i \in Nat
      BY <1>2
    <3>. QED
      BY <3>1, KernelPte, Zenon
  <2>. HIDE DEF x, v
  <2>2. /\ Sound(mem', next', DOMAIN view', view') /\ DOMAIN view' = DOMAIN view
        /\ IsView(view', DOMAIN view') /\ TlbShows(tlb, view'[cr3])
    BY <1>4, <1>5, <1>6, <1>10, <2>1, MapKeeps, Zenon
  <2>. QED
    BY <1>1, <1>4, <1>5, <1>8, <1>10, <2>2, Settled, Zenon
<1>. QED
  BY <1>9, <1>10, Zenon DEF ioremap

LEMMA MapBufferKeeps ==
  ASSUME TablesInv, NEW f \in Device, MapBuffer(f)
  PROVE  TablesInv'
<1>1. /\ call' = call /\ cr3' = cr3 /\ tlb' = tlb /\ io_region_offset' = io_region_offset
      /\ map(next, buf, Pte(f, FALSE, TRUE, FALSE)) /\ call = Idle
  BY Zenon DEF MapBuffer
<1>2. call.op # "clone" /\ CallOK' /\ call'.op # "clone"
  BY <1>1 DEF Idle, CallOK
<1>3. Sound(mem, next, DOMAIN view, view) /\ IsView(view, DOMAIN view) /\ cr3 \in DOMAIN view
  BY <1>2, NotCloning, Zenon
<1>4. TlbShows(tlb, view[cr3]) /\ io_region_offset \in 0..io_map_sz
  BY Zenon DEF TablesInv
<1>5. buf \in Page /\ pd_idx(buf) \notin Huge /\ f \in Nat
  BY TablesAssumption, Zenon
<1>6. MayShow(mem, next, DOMAIN view, view, cr3, buf, Pte(f, FALSE, TRUE, FALSE))
  BY <1>5, KernelPte, Zenon
<1>7. /\ Sound(mem', next', DOMAIN view', view') /\ DOMAIN view' = DOMAIN view
      /\ IsView(view', DOMAIN view') /\ TlbShows(tlb, view'[cr3])
  BY <1>1, <1>3, <1>4, <1>5, <1>6, MapKeeps, Zenon
<1>. QED
  BY <1>1, <1>2, <1>3, <1>4, <1>7, Settled, Zenon

\* Changing an entry that is present, and dropping its cached translation.
LEMMA SetPteKeeps ==
  ASSUME TablesInv, NEW v \in Page, NEW x, call = Idle, Walk(mem, cr3, v).p, SetPte(v, x), invlpg(v),
         UNCHANGED <<next, cr3, io_region_offset, call>>,
         IsPte(x), IsUser(x) => IsUser(view[cr3][v]) /\ x.addr = view[cr3][v].addr
  PROVE  TablesInv'
<1>1. call.op # "clone" /\ CallOK' /\ call'.op # "clone"
  BY DEF Idle, CallOK
<1>2. Sound(mem, next, DOMAIN view, view) /\ IsView(view, DOMAIN view) /\ cr3 \in DOMAIN view
  BY <1>1, NotCloning, Zenon
<1>3. TlbShows(tlb, view[cr3]) /\ io_region_offset \in 0..io_map_sz
  BY Zenon DEF TablesInv
<1>4. EntryWritten(mem, mem', cr3, v, x) /\ ViewWritten(view, view', cr3, v, x)
  BY Zenon DEF SetPte, EntryWritten, ViewWritten
<1>5. HasTable(mem, cr3, pd_idx(v))
  <2>1. CASE ~HasTable(mem, cr3, pd_idx(v))
    <3>1. Walk(mem, cr3, v) = Absent
      BY <2>1, WalkTable, Zenon
    <3>. QED
      BY <3>1, Fields, Zenon
  <2>. QED
    BY <2>1, Zenon
<1>6. MayShow(mem, next, DOMAIN view, view, cr3, v, x)
  <2>1. ASSUME IsUser(x)
        PROVE  /\ pd_idx(v) < Kernel /\ x.addr \in (1..(next - 1)) \ DOMAIN view
               /\ \A d \in DOMAIN view, i \in Index : HasTable(mem, d, i) => mem[d][i].addr # x.addr
               /\ \A d \in DOMAIN view, w \in Page :
                    ~(d = cr3 /\ w = v) /\ IsUser(view[d][w]) => view[d][w].addr # x.addr
    <3>1. IsUser(view[cr3][v]) /\ x.addr = view[cr3][v].addr /\ Private(mem, next, DOMAIN view, view)
      BY <1>2, <2>1, Zenon DEF Sound
    <3>2. pd_idx(v) < Kernel /\ x.addr \in (1..(next - 1)) \ DOMAIN view
      BY <1>2, <3>1, Zenon DEF Private
    <3>3. \A d \in DOMAIN view, i \in Index : HasTable(mem, d, i) => mem[d][i].addr # x.addr
      BY <1>2, <3>1, SMTT(30) DEF Private
    <3>4. ASSUME NEW d \in DOMAIN view, NEW w \in Page, ~(d = cr3 /\ w = v), IsUser(view[d][w])
          PROVE  view[d][w].addr # x.addr
      BY <1>2, <3>1, <3>4 DEF Private
    <3>. QED
      BY <3>2, <3>3, <3>4, Zenon
  <2>. QED
    BY <2>1, Zenon DEF MayShow
<1>7. Sound(mem', next', DOMAIN view, view')
  <2>1. Sound(mem', next, DOMAIN view, view')
    BY <1>2, <1>4, <1>5, <1>6, SoundWrite, Zenon
  <2>. QED
    BY <2>1, Zenon
<1>8. DOMAIN view' = DOMAIN view /\ IsView(view', DOMAIN view') /\ OnlyAt(DOMAIN view, view, view', cr3, v, x)
  BY <1>2, <1>4, ZenonT(30) DEF ViewWritten, IsView, OnlyAt
<1>9. TlbShows(tlb', view'[cr3'])
  <2>1. CASE tlb.v = v
    <3>1. tlb' = NoTlb
      BY <2>1, Zenon DEF invlpg
    <3>2. ~tlb'.pte.p
      BY <3>1 DEF NoTlb, Absent
    <3>. QED
      BY <3>2, Zenon DEF TlbShows
  <2>2. CASE tlb.v # v
    <3>1. tlb' = tlb /\ cr3' = cr3
      BY <2>2, Zenon DEF invlpg
    <3>2. \A w \in Page : w # v => view'[cr3][w] = view[cr3][w]
      BY <1>2, <1>8, Zenon DEF OnlyAt
    <3>. QED
      BY <1>3, <2>2, <3>1, <3>2, Zenon DEF TlbShows
  <2>. QED
    BY <2>1, <2>2, Zenon
<1>10. Sound(mem', next', DOMAIN view', view') /\ cr3' \in DOMAIN view' /\ io_region_offset' \in 0..io_map_sz
  BY <1>2, <1>3, <1>7, <1>8, Zenon
<1>. QED
  BY <1>1, <1>8, <1>9, <1>10, Settled, Zenon

LEMMA UnmapKeeps ==
  ASSUME TablesInv, NEW v \in Page, unmap(v)
  PROVE  TablesInv'
<1>1. IsPte(Absent) /\ ~IsUser(Absent)
  <2>1. ~IsUser(Absent)
    BY Fields, Zenon DEF IsUser
  <2>. QED
    BY <2>1, Zenon DEF IsPte
<1>2. /\ call = Idle /\ Walk(mem, cr3, v).p /\ SetPte(v, Absent) /\ invlpg(v)
      /\ UNCHANGED <<next, cr3, io_region_offset, call>>
  BY Zenon DEF unmap
<1>. QED
  BY <1>1, <1>2, SetPteKeeps, Zenon

LEMMA MarkKeeps ==
  ASSUME TablesInv, NEW v \in Page, mark_uncacheable(v)
  PROVE  TablesInv'
<1>1. /\ call = Idle /\ Walk(mem, cr3, v).p /\ SetPte(v, Uncached(Walk(mem, cr3, v))) /\ invlpg(v)
      /\ UNCHANGED <<next, cr3, io_region_offset, call>>
  BY Zenon DEF mark_uncacheable
<1>2. call.op # "clone"
  BY <1>1 DEF Idle
<1>3. Sound(mem, next, DOMAIN view, view) /\ cr3 \in DOMAIN view
  BY <1>2, NotCloning, Zenon
<1>4. Walk(mem, cr3, v) = view[cr3][v] /\ IsPte(view[cr3][v])
  BY <1>3, Zenon DEF Sound, WalkIs
<1>5. /\ IsPte(Uncached(Walk(mem, cr3, v))) /\ (IsUser(Uncached(Walk(mem, cr3, v))) <=> IsUser(view[cr3][v]))
      /\ Uncached(Walk(mem, cr3, v)).addr = view[cr3][v].addr
  BY <1>1, <1>4, PteBits, Zenon
<1>. QED
  BY <1>1, <1>5, SetPteKeeps, Zenon

LEMMA CloneStarts ==
  ASSUME TablesInv, clone_kernel_page_directory
  PROVE  TablesInv'
<1>1. /\ call = Idle /\ next <= HeapFrames /\ mem' = [mem EXCEPT ![next] = Cleared] /\ next' = next + 1
      /\ call' = [op |-> "clone", pd |-> next, i |-> Kernel]
      /\ cr3' = cr3 /\ tlb' = tlb /\ io_region_offset' = io_region_offset /\ view' = view
  BY Zenon DEF clone_kernel_page_directory
<1>2. call.op # "clone"
  BY <1>1 DEF Idle
<1>3. Sound(mem, next, DOMAIN view, view) /\ IsView(view, DOMAIN view) /\ cr3 \in DOMAIN view
  BY <1>2, NotCloning, Zenon
<1>4. next \in (1..((next + 1) - 1)) \ DOMAIN view
  BY <1>1, <1>3, TakeFrame, Zenon
<1>5. call'.op = "clone" /\ call'.pd = next /\ call'.i = Kernel
  BY <1>1
<1>6. DirsOf(view', call') = DOMAIN view \cup {next}
  BY <1>1, <1>5 DEF DirsOf
<1>7. DirectoryAdded(DOMAIN view, view, next, MeantOf(view', call', cr3'))
  <2>1. \A v \in Page : ~(Kernel <= pd_idx(v) /\ pd_idx(v) < Kernel)
    BY PageIndex, TablesAssumption DEF Index
  <2>2. MeantOf(view', call', cr3') =
          [d \in DOMAIN view \cup {next} |-> [v \in Page |->
             IF d \in DOMAIN view THEN view[d][v]
             ELSE IF Kernel <= pd_idx(v) /\ pd_idx(v) < Kernel THEN view[cr3][v] ELSE Absent]]
    BY <1>1, <1>5, <1>6, Zenon DEF MeantOf
  <2>. QED
    BY <2>1, <2>2 DEF DirectoryAdded
<1>8. Sound(mem', next', DirsOf(view', call'), MeantOf(view', call', cr3'))
  <2>1. Sound(mem', next + 1, DOMAIN view \cup {next}, MeantOf(view', call', cr3'))
    BY <1>1, <1>3, <1>7, SoundNewDirectory, Zenon
  <2>. QED
    BY <1>1, <1>6, <2>1, Zenon
<1>9. CallOK'
  <2>1. next \in 1..HeapFrames
    BY <1>1, <1>3, TablesAssumption DEF Sound
  <2>. QED
    BY <1>1, <1>4, <2>1, TablesAssumption DEF CallOK
<1>10. Uncloned(mem', call')
  <2>1. IsMem(mem) /\ next \in 1..HeapFrames
    BY <1>1, <1>3, TablesAssumption DEF Sound
  <2>2. mem'[next] = Cleared
    BY <1>1, <2>1 DEF IsMem
  <2>. QED
    BY <1>5, <2>2, Zenon DEF Uncloned, Cleared
<1>. QED
  BY <1>1, <1>8, <1>9, <1>10, Zenon DEF TablesInv

\* While directory a is being cloned.
LEMMA Cloning ==
  ASSUME TablesInv, call.op = "clone"
  PROVE  /\ call \in [op : {"clone"}, pd : 1..HeapFrames, i : Kernel..Entries] /\ call.pd \notin DOMAIN view
         /\ DirsOf(view, call) = DOMAIN view \cup {call.pd} /\ cr3 \in DOMAIN view
         /\ \A d \in DOMAIN view, v \in Page : MeantOf(view, call, cr3)[d][v] = view[d][v]
         /\ \A v \in Page : MeantOf(view, call, cr3)[call.pd][v] =
                              IF Kernel <= pd_idx(v) /\ pd_idx(v) < call.i THEN view[cr3][v] ELSE Absent
         /\ Sound(mem, next, DOMAIN view \cup {call.pd}, MeantOf(view, call, cr3))
<1>1. call \in [op : {"clone"}, pd : 1..HeapFrames, i : Kernel..Entries] /\ call.pd \notin DOMAIN view
  BY CallKinds, Zenon DEF TablesInv
<1>2. DirsOf(view, call) = DOMAIN view \cup {call.pd} /\ cr3 \in DOMAIN view
  BY Zenon DEF DirsOf, TablesInv
<1>3. \A d \in DOMAIN view, v \in Page : MeantOf(view, call, cr3)[d][v] = view[d][v]
  BY <1>2 DEF MeantOf
<1>4. \A v \in Page : MeantOf(view, call, cr3)[call.pd][v] =
                        IF Kernel <= pd_idx(v) /\ pd_idx(v) < call.i THEN view[cr3][v] ELSE Absent
  BY <1>1, <1>2 DEF MeantOf
<1>5. Sound(mem, next, DOMAIN view \cup {call.pd}, MeantOf(view, call, cr3))
  BY <1>2, Zenon DEF TablesInv
<1>. QED
  BY <1>1, <1>2, <1>3, <1>4, <1>5, Zenon

\* The views after entry i has been cloned: nothing new is meant when it has no table.
LEMMA CloneMeant ==
  ASSUME TablesInv, call.op = "clone", call.i < Entries, view' = view, cr3' = cr3,
         call' = [call EXCEPT !.i = @ + 1]
  PROVE  /\ CallOK' /\ call.i \in Index /\ Kernel <= call.i /\ call'.op = "clone"
         /\ call'.pd = call.pd /\ call'.i = call.i + 1
         /\ DirsOf(view', call') = DOMAIN view \cup {call.pd}
         /\ ViewCopied(DOMAIN view \cup {call.pd}, MeantOf(view, call, cr3), MeantOf(view', call', cr3'),
                       call.pd, cr3, call.i)
         /\ ~HasTable(mem, cr3, call.i) => MeantOf(view', call', cr3') = MeantOf(view, call, cr3)
<1>. DEFINE D == DOMAIN view \cup {call.pd}
            W == MeantOf(view, call, cr3)
            W2 == MeantOf(view', call', cr3')
            a == call.pd
<1>1. /\ call \in [op : {"clone"}, pd : 1..HeapFrames, i : Kernel..Entries] /\ a \notin DOMAIN view
      /\ DirsOf(view, call) = D /\ cr3 \in DOMAIN view
      /\ \A d \in DOMAIN view, v \in Page : W[d][v] = view[d][v]
      /\ \A v \in Page : W[a][v] = IF Kernel <= pd_idx(v) /\ pd_idx(v) < call.i THEN view[cr3][v] ELSE Absent
      /\ Sound(mem, next, D, W)
  BY Cloning, Zenon
<1>2. call.i \in Index /\ Kernel <= call.i /\ call.i \in Nat
  BY <1>1, TablesAssumption DEF Index
<1>3. call'.op = "clone" /\ call'.pd = a /\ call'.i = call.i + 1
  BY <1>1
<1>4. CallOK'
  BY <1>1, <1>2, <1>3, TablesAssumption DEF CallOK
<1>5. DirsOf(view', call') = D
  BY <1>3, Zenon DEF DirsOf
<1>6. /\ W = [d \in D |-> [v \in Page |-> W[d][v]]] /\ W2 = [d \in D |-> [v \in Page |-> W2[d][v]]]
      /\ \A d \in DOMAIN view, v \in Page : W2[d][v] = view[d][v]
      /\ \A v \in Page : W2[a][v] = IF Kernel <= pd_idx(v) /\ pd_idx(v) < call.i + 1 THEN view[cr3][v] ELSE Absent
  <2>1. W2 = [d \in D |-> [v \in Page |->
                IF d \in DOMAIN view THEN view[d][v]
                ELSE IF Kernel <= pd_idx(v) /\ pd_idx(v) < call.i + 1 THEN view[cr3][v] ELSE Absent]]
    BY <1>3, <1>5, Zenon DEF MeantOf
  <2>2. W = [d \in D |-> [v \in Page |-> W[d][v]]]
    BY <1>1, Zenon DEF Sound, IsView
  <2>. HIDE DEF W, W2
  <2>. QED
    BY <1>1, <2>1, <2>2
<1>. HIDE DEF W, W2
<1>7. ASSUME NEW d \in D, NEW v \in Page
      PROVE  W2[d][v] = IF d = a /\ pd_idx(v) = call.i THEN W[cr3][v] ELSE W[d][v]
  <2>1. pd_idx(v) \in Nat
    BY PageIndex DEF Index
  <2>2. CASE d \in DOMAIN view
    BY <1>1, <1>6, <2>2
  <2>3. CASE d = a
    <3>1. W[cr3][v] = view[cr3][v]
      BY <1>1, Zenon
    <3>2. CASE pd_idx(v) = call.i
      <4>1. Kernel <= pd_idx(v) /\ pd_idx(v) < call.i + 1
        BY <1>2, <3>2
      <4>. QED
        BY <1>6, <2>3, <3>1, <3>2, <4>1
    <3>3. CASE pd_idx(v) # call.i
      <4>1. pd_idx(v) < call.i + 1 <=> pd_idx(v) < call.i
        BY <1>2, <2>1, <3>3
      <4>. QED
        BY <1>1, <1>6, <2>3, <3>3, <4>1
    <3>. QED
      BY <3>2, <3>3
  <2>. QED
    BY <2>2, <2>3
<1>8. ViewCopied(D, W, W2, a, cr3, call.i)
  BY <1>6, <1>7, ZenonT(30) DEF ViewCopied
<1>9. ASSUME ~HasTable(mem, cr3, call.i) PROVE W2 = W
  <2>1. ASSUME NEW v \in Page, pd_idx(v) = call.i PROVE W[cr3][v] = Absent /\ W[a][v] = Absent
    <3>1. Walk(mem, cr3, v) = Absent
      BY <1>9, <2>1, WalkTable, Zenon
    <3>2. W[cr3][v] = Absent
      BY <1>1, <3>1, Zenon DEF Sound, WalkIs
    <3>3. W[a][v] = Absent
      BY <1>1, <1>2, <2>1
    <3>. QED
      BY <3>2, <3>3, Zenon
  <2>2. \A d \in D, v \in Page : W2[d][v] = W[d][v]
    BY <1>7, <2>1
  <2>. QED
    BY <1>6, <2>2, ZenonT(30)
<1>. QED
  BY <1>2, <1>3, <1>4, <1>5, <1>8, <1>9, Zenon DEF W, W2

LEMMA CloneKeeps ==
  ASSUME TablesInv, CloneEntry
  PROVE  TablesInv'
<1>. DEFINE D == DOMAIN view \cup {call.pd}
            W == MeantOf(view, call, cr3)
            W2 == MeantOf(view', call', cr3')
            a == call.pd
            i == call.i
            pde == mem[cr3][i]
<1>1. /\ call.op = "clone" /\ call.i < Entries /\ call' = [call EXCEPT !.i = @ + 1]
      /\ cr3' = cr3 /\ tlb' = tlb /\ io_region_offset' = io_region_offset /\ view' = view
  BY Zenon DEF CloneEntry
<1>2. /\ call \in [op : {"clone"}, pd : 1..HeapFrames, i : Kernel..Entries] /\ a \notin DOMAIN view
      /\ cr3 \in DOMAIN view /\ Sound(mem, next, D, W)
  BY <1>1, Cloning, Zenon
<1>3. /\ CallOK' /\ i \in Index /\ Kernel <= i /\ call'.op = "clone" /\ call'.pd = a /\ call'.i = i + 1
      /\ DirsOf(view', call') = D /\ ViewCopied(D, W, W2, a, cr3, i)
      /\ ~HasTable(mem, cr3, i) => W2 = W
  BY <1>1, CloneMeant, Zenon
<1>4. Uncloned(mem, call)
  BY <1>1, Zenon DEF TablesInv
<1>5. ~mem[a][i].p
  <2>1. i <= i
    BY <1>2, TablesAssumption
  <2>2. mem[a][i] = Absent
    BY <1>3, <1>4, <2>1, Zenon DEF Uncloned
  <2>. QED
    BY <2>2, Fields, Zenon
<1>6. \/ ~pde.p /\ UNCHANGED <<mem, next>>
      \/ /\ pde.p /\ pde.ps /\ mem' = [mem EXCEPT ![a] = [@ EXCEPT ![i] = CopiedPde(pde, next)]] /\ next' = next
      \/ /\ pde.p /\ ~pde.ps /\ next <= HeapFrames /\ next' = next + 1
         /\ mem' = [mem EXCEPT ![next] = mem[pde.addr], ![a] = [@ EXCEPT ![i] = CopiedPde(pde, next)]]
  BY Zenon DEF CloneEntry
<1>. HIDE DEF W, W2
<1>7. ASSUME Sound(mem', next', D, W2), \A j \in Index : j # i => mem'[a][j] = mem[a][j] PROVE TablesInv'
  <2>1. Sound(mem', next', DirsOf(view', call'), MeantOf(view', call', cr3'))
    BY <1>3, <1>7, Zenon DEF W2
  <2>2. Uncloned(mem', call')
    <3>1. \A j \in Index : i + 1 <= j => i <= j /\ j # i
      BY <1>3 DEF Index
    <3>. QED
      BY <1>3, <1>4, <1>7, <3>1, Zenon DEF Uncloned
  <2>. QED
    BY <1>1, <1>3, <2>1, <2>2, Zenon DEF TablesInv
<1>8. a \in 1..HeapFrames /\ a \in D /\ cr3 \in D /\ Shape(mem, next, D) /\ IsMem(mem) /\ next \in Nat
  BY <1>2 DEF Sound
<1>9. CASE ~pde.p /\ UNCHANGED <<mem, next>>
  <2>1. ~HasTable(mem, cr3, i)
    BY <1>9, Zenon DEF HasTable
  <2>. QED
    BY <1>2, <1>3, <1>7, <1>9, <2>1, Zenon
<1>10. CASE pde.p /\ pde.ps /\ mem' = [mem EXCEPT ![a] = [@ EXCEPT ![i] = CopiedPde(pde, next)]] /\ next' = next
  <2>1. ~HasTable(mem, cr3, i)
    BY <1>10, Zenon DEF HasTable
  <2>2. i \in Huge /\ pde = HugePde
    <3>1. i \in Huge
      BY <1>3, <1>8, <1>10, <2>1, TableAt
    <3>2. pde # Absent
      BY <1>10, Fields, Zenon
    <3>. QED
      BY <1>3, <1>8, <3>1, <3>2, Zenon DEF Shape
  <2>3. CopiedPde(pde, next) = HugePde
    BY <1>10, <2>2, Zenon DEF CopiedPde
  <2>4. mem' = [mem EXCEPT ![a] = [@ EXCEPT ![i] = HugePde]]
    BY <1>10, <2>3, Zenon
  <2>5. Sound(mem', next, D, W)
    BY <1>2, <1>3, <1>5, <1>8, <2>2, <2>4, SoundHuge, Zenon
  <2>6. \A j \in Index : j # i => mem'[a][j] = mem[a][j]
    BY <1>8, <2>4 DEF IsMem
  <2>7. Sound(mem', next', D, W2)
    BY <1>3, <1>10, <2>1, <2>5, Zenon
  <2>. QED
    BY <1>7, <2>6, <2>7, Zenon
<1>11. CASE /\ pde.p /\ ~pde.ps /\ next <= HeapFrames /\ next' = next + 1
            /\ mem' = [mem EXCEPT ![next] = mem[pde.addr], ![a] = [@ EXCEPT ![i] = CopiedPde(pde, next)]]
  <2>1. HasTable(mem, cr3, i)
    BY <1>11, Zenon DEF HasTable
  <2>2. CopiedPde(pde, next) = Pde(next)
    BY <1>11, Zenon DEF CopiedPde
  <2>3. TableAdded(mem, mem', a, i, next, mem[mem[cr3][i].addr])
    BY <1>11, <2>2, Zenon DEF TableAdded
  <2>4. Sound(mem', next', D, W2)
    <3>1. Sound(mem', next + 1, D, W2)
      BY <1>2, <1>3, <1>5, <1>8, <1>11, <2>1, <2>3, SoundCopy, ZenonT(30)
    <3>. QED
      BY <1>11, <3>1, Zenon
  <2>5. \A j \in Index : j # i => mem'[a][j] = mem[a][j]
    <3>1. a # next
      BY <1>8 DEF Shape
    <3>. QED
      BY <1>8, <1>11, <3>1, ZenonT(30) DEF IsMem
  <2>. QED
    BY <1>7, <2>4, <2>5, Zenon
<1>. QED
  BY <1>6, <1>9, <1>10, <1>11, Zenon

LEMMA ClonedKeeps ==
  ASSUME TablesInv, Cloned
  PROVE  TablesInv'
<1>. DEFINE D == DOMAIN view \cup {call.pd}
            W == MeantOf(view, call, cr3)
            a == call.pd
<1>1. /\ call.op = "clone" /\ call.i = Entries /\ call' = Idle
      /\ view' = [d \in D |-> IF d # a THEN view[d]
                              ELSE [v \in Page |-> IF pd_idx(v) < Kernel THEN Absent ELSE view[cr3][v]]]
      /\ mem' = mem /\ next' = next /\ cr3' = cr3 /\ tlb' = tlb /\ io_region_offset' = io_region_offset
  BY Zenon DEF Cloned
<1>2. /\ a \notin DOMAIN view /\ cr3 \in DOMAIN view
      /\ \A d \in DOMAIN view, v \in Page : W[d][v] = view[d][v]
      /\ \A v \in Page : W[a][v] = IF Kernel <= pd_idx(v) /\ pd_idx(v) < call.i THEN view[cr3][v] ELSE Absent
      /\ Sound(mem, next, D, W)
  BY <1>1, Cloning, Zenon
<1>3. W = [d \in D |-> [v \in Page |-> W[d][v]]] /\ view = [d \in DOMAIN view |-> [v \in Page |-> view[d][v]]]
  BY <1>2, Zenon DEF Sound, IsView, TablesInv
<1>. HIDE DEF W
<1>4. DOMAIN view' = D /\ view' = [d \in D |-> [v \in Page |-> view'[d][v]]]
  BY <1>1, <1>3, ZenonT(30)
<1>5. ASSUME NEW d \in D, NEW v \in Page PROVE view'[d][v] = W[d][v]
  <2>1. CASE d # a
    BY <1>1, <1>2, <2>1
  <2>2. CASE d = a
    <3>1. pd_idx(v) \in Nat /\ pd_idx(v) < Entries /\ Kernel \in Nat
      BY PageIndex, TablesAssumption DEF Index
    <3>2. view'[a][v] = IF pd_idx(v) < Kernel THEN Absent ELSE view[cr3][v]
      BY <1>1
    <3>. QED
      BY <1>1, <1>2, <2>2, <3>1, <3>2
  <2>. QED
    BY <2>1, <2>2
<1>6. view' = W
  <2>1. \A d \in D : [v \in Page |-> view'[d][v]] = [v \in Page |-> W[d][v]]
    BY <1>5
  <2>2. [d \in D |-> [v \in Page |-> view'[d][v]]] = [d \in D |-> [v \in Page |-> W[d][v]]]
    BY <2>1
  <2>. QED
    BY <1>3, <1>4, <2>2, Zenon
<1>7. IsView(view', DOMAIN view') /\ cr3' \in DOMAIN view' /\ view'[cr3] = view[cr3]
  <2>1. view'[cr3] = view[cr3]
    BY <1>1, <1>2
  <2>. QED
    BY <1>1, <1>2, <1>4, <2>1, Zenon DEF IsView
<1>8. CallOK' /\ call'.op # "clone"
  BY <1>1 DEF CallOK, Idle
<1>9. Sound(mem', next', DOMAIN view', view')
  BY <1>1, <1>2, <1>4, <1>6, Zenon
<1>10. TlbShows(tlb', view'[cr3']) /\ io_region_offset' \in 0..io_map_sz
  BY <1>1, <1>7, Zenon DEF TablesInv
<1>. QED
  BY <1>7, <1>8, <1>9, <1>10, Settled, Zenon

LEMMA SwitchKeeps ==
  ASSUME TablesInv, NEW pd \in DOMAIN view, set_page_directory(pd)
  PROVE  TablesInv'
<1>1. /\ call = Idle /\ cr3' = pd /\ tlb' = NoTlb
      /\ mem' = mem /\ next' = next /\ io_region_offset' = io_region_offset /\ call' = call /\ view' = view
  BY Zenon DEF set_page_directory
<1>2. call.op # "clone" /\ call'.op # "clone" /\ CallOK'
  BY <1>1 DEF Idle, CallOK
<1>3. Sound(mem, next, DOMAIN view, view) /\ IsView(view, DOMAIN view)
  BY <1>2, NotCloning, Zenon
<1>4. TlbShows(tlb', view'[cr3'])
  <2>1. ~NoTlb.pte.p
    BY DEF NoTlb, Absent
  <2>. QED
    BY <1>1, <2>1, Zenon DEF TlbShows
<1>5. io_region_offset \in 0..io_map_sz
  BY Zenon DEF TablesInv
<1>. QED
  BY <1>1, <1>2, <1>3, <1>4, <1>5, Settled, Zenon

LEMMA TranslateKeeps ==
  ASSUME TablesInv, NEW v \in Page, Translate(v)
  PROVE  TablesInv'
<1>1. /\ Walk(mem, cr3, v).p /\ tlb' = [v |-> v, pte |-> Walk(mem, cr3, v)]
      /\ mem' = mem /\ next' = next /\ cr3' = cr3 /\ io_region_offset' = io_region_offset
      /\ call' = call /\ view' = view
  BY Zenon DEF Translate
<1>2. /\ Sound(mem, next, DirsOf(view, call), MeantOf(view, call, cr3)) /\ cr3 \in DOMAIN view
      /\ CallOK /\ IsView(view, DOMAIN view)
      /\ io_region_offset \in 0..io_map_sz /\ (call.op = "clone" => Uncloned(mem, call))
  BY Zenon DEF TablesInv
<1>3. cr3 \in DirsOf(view, call) /\ MeantOf(view, call, cr3)[cr3][v] = view[cr3][v]
  BY <1>2 DEF DirsOf, MeantOf
<1>4. Walk(mem, cr3, v) = view[cr3][v]
  BY <1>2, <1>3, Zenon DEF Sound, WalkIs
<1>5. TlbShows(tlb', view'[cr3'])
  <2>1. tlb'.v = v /\ tlb'.pte = Walk(mem, cr3, v)
    BY <1>1
  <2>. QED
    BY <1>1, <1>4, <2>1, Zenon DEF TlbShows
<1>6. CallOK'
  BY <1>1, <1>2, Zenon DEF CallOK
<1>. QED
  BY <1>1, <1>2, <1>5, <1>6, Zenon DEF TablesInv

LEMMA TablesStutter ==
  ASSUME TablesInv, UNCHANGED tableVars
  PROVE  TablesInv'
<1>1. /\ mem' = mem /\ next' = next /\ cr3' = cr3 /\ io_region_offset' = io_region_offset
      /\ call' = call /\ view' = view /\ tlb' = tlb
  BY Zenon DEF tableVars
<1>2. CallOK'
  BY <1>1, Zenon DEF CallOK, TablesInv
<1>. QED
  BY <1>1, <1>2, Zenon DEF TablesInv

LEMMA TablesStep ==
  ASSUME TablesInv, [TablesNext]_tableVars
  PROVE  TablesInv'
<1>1. CASE \E v \in UserPage, pg \in 1..MaxPages, w \in BOOLEAN : vmalloc(v, pg, w)
  BY <1>1, VmallocStarts, Zenon
<1>2. CASE \E f \in Device, pg \in 1..MaxPages : MapDevice(f, pg)
  BY <1>2, MapDeviceKeeps, Zenon
<1>3. CASE VmallocPage
  BY <1>3, VmallocKeeps, Zenon
<1>4. CASE ioremap
  BY <1>4, IoremapKeeps, Zenon
<1>5. CASE \E f \in Device : MapBuffer(f)
  BY <1>5, MapBufferKeeps, Zenon
<1>6. CASE \E v \in ChangedPage : unmap(v) \/ mark_uncacheable(v)
  <2>1. ChangedPage \subseteq Page
    BY TablesAssumption
  <2>. QED
    BY <1>6, <2>1, UnmapKeeps, MarkKeeps, Zenon
<1>12. CASE \E v \in Page : Translate(v)
  BY <1>12, TranslateKeeps, Zenon
<1>7. CASE clone_kernel_page_directory
  BY <1>7, CloneStarts, Zenon
<1>8. CASE CloneEntry
  BY <1>8, CloneKeeps, Zenon
<1>9. CASE Cloned
  BY <1>9, ClonedKeeps, Zenon
<1>10. CASE \E pd \in DOMAIN view : set_page_directory(pd)
  BY <1>10, SwitchKeeps, Zenon
<1>11. CASE UNCHANGED tableVars
  BY <1>11, TablesStutter, Zenon
<1>. QED
  BY <1>1, <1>2, <1>3, <1>4, <1>5, <1>6, <1>7, <1>8, <1>9, <1>10, <1>11, <1>12, Zenon DEF TablesNext

-----------------------------------------------------------------------------
(* the bootloader's directory *)

\* Low memory is in the first table.
LEMMA LowPages ==
  /\ \A v \in Page : pd_idx(v) = 0 => pt_idx(v) = v
  /\ \A v \in LowPage : v \in Nat /\ (v \in Page => pd_idx(v) = 0)
<1>1. Entries \in Nat \ {0} /\ LowPage \subseteq Index
  BY TablesAssumption
<1>2. ASSUME NEW v \in Page, pd_idx(v) = 0 PROVE pt_idx(v) = v
  <2>1. v \in Nat /\ v = Entries * (v \div Entries) + (v % Entries) /\ v % Entries \in Nat
    BY <1>1, SMT DEF Page
  <2>2. v \div Entries = 0
    BY <1>2 DEF pd_idx
  <2>3. Entries * (v \div Entries) = 0
    BY <1>1, <2>2
  <2>. QED
    BY <2>1, <2>3 DEF pt_idx
<1>3. ASSUME NEW v \in LowPage PROVE v \in Nat /\ pd_idx(v) = 0
  <2>1. v \in Nat /\ v < Entries
    BY <1>1 DEF Index
  <2>. QED
    BY <1>1, <2>1, SMT DEF pd_idx
<1>. QED
  BY <1>2, <1>3, Zenon

LEMMA TablesInitial ==
  ASSUME TablesInit
  PROVE  TablesInv
<1>1. PICK g \in Garbage : mem = [f \in 1..HeapFrames |-> IF f = 1 THEN BootDirectory
                                  ELSE IF f = 2 THEN [i \in Index |-> LowMap(i)] ELSE g]
  BY Zenon DEF TablesInit
<1>2. /\ next = 3 /\ cr3 = 1 /\ tlb = NoTlb /\ io_region_offset = 0 /\ call = Idle
      /\ view = [d \in {1} |-> [v \in Page |-> LowMap(v)]]
  BY Zenon DEF TablesInit
<1>3. DOMAIN view = {1} /\ IsView(view, {1}) /\ \A v \in Page : view[1][v] = LowMap(v)
  BY <1>2 DEF IsView
<1>4. mem[1] = BootDirectory /\ mem[2] = [i \in Index |-> LowMap(i)] /\ IsMem(mem)
  <2>1. HeapFrames \in Nat /\ 2 <= HeapFrames /\ g = [i \in Index |-> g[i]]
    BY TablesAssumption
  <2>. QED
    BY <1>1, <2>1, SMTT(30) DEF IsMem, BootDirectory
<1>5. 0 \in Index /\ 0 \notin Huge
  BY TablesAssumption DEF Index
<1>6. /\ mem[1][0] = Pde(2)
      /\ \A i \in Index : i # 0 => mem[1][i] = IF i \in Huge THEN HugePde ELSE Absent
  BY <1>4, <1>5 DEF BootDirectory
<1>7. HasTable(mem, 1, 0) /\ mem[1][0].addr = 2 /\ \A i \in Index : i # 0 => ~HasTable(mem, 1, i)
  <2>1. Pde(2).p = TRUE /\ Pde(2).ps = FALSE /\ Pde(2).addr = 2
    BY Fields, Zenon
  <2>2. HasTable(mem, 1, 0) /\ mem[1][0].addr = 2
    BY <1>6, <2>1, Zenon DEF HasTable
  <2>3. ASSUME NEW i \in Index, i # 0 PROVE ~HasTable(mem, 1, i)
    BY <1>6, <2>3, Fields DEF HasTable
  <2>. QED
    BY <2>2, <2>3, Zenon
<1>8. Shape(mem, 3, {1})
  <2>1. 2 \in (1..(3 - 1)) \ {1} /\ {1} \subseteq 1..(3 - 1)
    OBVIOUS
  <2>2. ASSUME NEW d \in {1}, NEW i \in Index
        PROVE  \/ mem[d][i] = Absent
               \/ i \in Huge /\ mem[d][i] = HugePde
               \/ i \notin Huge /\ \E t \in (1..(3 - 1)) \ {1} : mem[d][i] = Pde(t)
    <3>1. CASE i = 0
      BY <1>5, <1>6, <2>1, <3>1, Zenon
    <3>2. CASE i # 0
      BY <1>6, <3>2, Zenon
    <3>. QED
      BY <3>1, <3>2, Zenon
  <2>3. \A d, e \in {1}, i, j \in Index : HasTable(mem, d, i) /\ HasTable(mem, e, j) => d = e /\ i = j
    BY <1>7, Zenon
  <2>. QED
    BY <2>1, <2>2, <2>3 DEF Shape
<1>9. ASSUME NEW v \in Page PROVE Walk(mem, 1, v) = view[1][v]
  <2>1. pd_idx(v) \in Index /\ pt_idx(v) \in Index
    BY PageIndex, Zenon
  <2>2. CASE pd_idx(v) = 0
    <3>1. Walk(mem, 1, v) = mem[mem[1][pd_idx(v)].addr][pt_idx(v)]
      BY <1>7, <2>2 DEF Walk, HasTable
    <3>2. Walk(mem, 1, v) = mem[2][pt_idx(v)]
      BY <1>7, <2>2, <3>1, Zenon
    <3>3. mem[2][pt_idx(v)] = LowMap(pt_idx(v))
      BY <1>4, <2>1, Zenon
    <3>4. pt_idx(v) = v
      BY <2>2, LowPages, Zenon
    <3>. QED
      BY <1>3, <3>2, <3>3, <3>4, Zenon
  <2>3. CASE pd_idx(v) # 0
    <3>1. Walk(mem, 1, v) = Absent
      BY <1>7, <2>1, <2>3, WalkTable, Zenon
    <3>2. LowMap(v) = Absent
      BY <2>3, LowPages, Zenon DEF LowMap
    <3>. QED
      BY <1>3, <3>1, <3>2, Zenon
  <2>. QED
    BY <2>2, <2>3, Zenon
<1>10. ASSUME NEW v \in Page PROVE IsPte(view[1][v]) /\ ~IsUser(view[1][v])
  <2>1. CASE v \in LowPage
    <3>1. view[1][v] = Pte(v, FALSE, TRUE, FALSE) /\ v \in Nat
      BY <1>3, <2>1, LowPages, Zenon DEF LowMap
    <3>2. TRUE \in BOOLEAN /\ FALSE \in BOOLEAN
      OBVIOUS
    <3>3. IsPte(view[1][v])
      BY <3>1, <3>2, Zenon DEF IsPte
    <3>4. ~IsUser(view[1][v])
      BY <3>1 DEF IsUser, Pte
    <3>. QED
      BY <3>3, <3>4, Zenon
  <2>2. CASE v \notin LowPage
    <3>1. view[1][v] = Absent
      BY <1>3, <2>2, Zenon DEF LowMap
    <3>2. ~IsUser(view[1][v])
      BY <3>1 DEF IsUser, Absent
    <3>. QED
      BY <3>1, <3>2, Zenon DEF IsPte
  <2>. QED
    BY <2>1, <2>2, Zenon
<1>11. Sound(mem, next, DOMAIN view, view)
  <2>1. WalkIs(mem, {1}, view)
    BY <1>9, Zenon DEF WalkIs
  <2>2. Private(mem, 3, {1}, view)
    BY <1>10, Zenon DEF Private
  <2>3. 3 \in Nat \ {0} /\ 3 <= HeapFrames + 1
    BY TablesAssumption
  <2>. QED
    BY <1>2, <1>3, <1>4, <1>8, <1>10, <2>1, <2>2, <2>3, Zenon DEF Sound
<1>12. call.op # "clone" /\ CallOK
  BY <1>2 DEF Idle, CallOK
<1>13. IsView(view, DOMAIN view) /\ cr3 \in DOMAIN view
  BY <1>2, <1>3, Zenon
<1>14. DirsOf(view, call) = DOMAIN view /\ MeantOf(view, call, cr3) = view
  BY <1>12, <1>13, Quiet, Zenon
<1>15. TlbShows(tlb, view[cr3])
  BY <1>2 DEF TlbShows, NoTlb, Absent
<1>16. io_region_offset \in 0..io_map_sz
  BY <1>2, TablesAssumption
<1>. QED
  BY <1>11, <1>12, <1>13, <1>14, <1>15, <1>16, Zenon DEF TablesInv

-----------------------------------------------------------------------------
(* the theorems *)

LEMMA TablesAlways == TablesSpec => []TablesInv
<1>1. TablesInit => TablesInv
  BY TablesInitial, Zenon
<1>2. TablesInv /\ [TablesNext]_tableVars => TablesInv'
  BY TablesStep, Zenon
<1>. QED
  BY <1>1, <1>2, PTL DEF TablesSpec

\* The directories and what they are meant to map, whether one is being cloned or not.
LEMMA ViewsMeant ==
  ASSUME TablesInv
  PROVE  /\ Sound(mem, next, DirsOf(view, call), MeantOf(view, call, cr3))
         /\ DOMAIN view \subseteq DirsOf(view, call)
         /\ \A d \in DOMAIN view, v \in Page : MeantOf(view, call, cr3)[d][v] = view[d][v]
<1>1. DOMAIN view \subseteq DirsOf(view, call)
  BY Zenon DEF DirsOf
<1>. QED
  BY <1>1 DEF TablesInv, MeantOf

\* Every directory maps exactly what was mapped while it was in use or when it was
\* cloned, and a frame that vmalloc() gave to a process is in one place of one
\* directory and holds no table, however many directories, tables and pages there
\* are (page_table.cc, virt.cc).
THEOREM TablesExact == TablesSpec => []WalkExact
<1>1. ASSUME TablesInv PROVE WalkExact
  <2>. DEFINE D == DirsOf(view, call)
              W == MeantOf(view, call, cr3)
  <2>1. /\ Sound(mem, next, D, W) /\ DOMAIN view \subseteq D
        /\ \A d \in DOMAIN view, v \in Page : W[d][v] = view[d][v]
    BY <1>1, ViewsMeant, Zenon
  <2>. HIDE DEF D, W
  <2>2. \A d \in DOMAIN view, v \in Page : d \in D /\ Walk(mem, d, v) = W[d][v] /\ Walk(mem, d, v) = view[d][v]
    BY <2>1, Zenon DEF Sound, WalkIs
  <2>3. DirectoriesExact
    BY <2>2, Zenon DEF DirectoriesExact
  <2>4. Private(mem, next, D, W)
    BY <2>1, Zenon DEF Sound
  <2>5. ASSUME NEW d \in DOMAIN view, NEW v \in Page, Walk(mem, d, v).p, Walk(mem, d, v).u_s
        PROVE  /\ Walk(mem, d, v).addr \notin TableFrames
               /\ \A e \in DOMAIN view, w \in Page :
                    /\ Walk(mem, e, w).p /\ Walk(mem, e, w).u_s
                    /\ Walk(mem, e, w).addr = Walk(mem, d, v).addr
                    => d = e /\ v = w
    <3>1. d \in D /\ Walk(mem, d, v) = W[d][v] /\ IsUser(W[d][v])
      BY <2>2, <2>5, Zenon DEF IsUser
    <3>2. /\ W[d][v].addr \notin D
          /\ \A e \in D, i \in Index : HasTable(mem, e, i) => mem[e][i].addr # W[d][v].addr
      BY <2>4, <3>1 DEF Private
    <3>3. W[d][v].addr \notin TableFrames
      <4>1. SUFFICES ASSUME W[d][v].addr \in TableFrames PROVE FALSE
        BY Zenon
      <4>2. W[d][v].addr \notin DOMAIN view
        BY <2>1, <3>2, Zenon
      <4>3. PICK x \in (DOMAIN view) \X Index : /\ mem[x[1]][x[2]].p /\ ~mem[x[1]][x[2]].ps
                                                /\ W[d][v].addr = mem[x[1]][x[2]].addr
        BY <4>1, <4>2, Zenon DEF TableFrames
      <4>4. x[1] \in DOMAIN view /\ x[2] \in Index
        BY <4>3
      <4>5. x[1] \in D /\ HasTable(mem, x[1], x[2])
        BY <2>1, <4>3, <4>4, Zenon DEF HasTable
      <4>. QED
        BY <3>2, <4>3, <4>4, <4>5, Zenon
    <3>4. ASSUME NEW e \in DOMAIN view, NEW w \in Page, Walk(mem, e, w).p, Walk(mem, e, w).u_s,
                 Walk(mem, e, w).addr = Walk(mem, d, v).addr
          PROVE  d = e /\ v = w
      <4>1. e \in D /\ Walk(mem, e, w) = W[e][w] /\ IsUser(W[e][w])
        BY <2>2, <3>4, Zenon DEF IsUser
      <4>2. W[e][w].addr = W[d][v].addr
        BY <3>1, <3>4, <4>1, Zenon
      <4>. QED
        BY <2>4, <3>1, <4>1, <4>2, Zenon DEF Private
    <3>. QED
      BY <3>1, <3>3, <3>4, Zenon
  <2>6. UserFramesPrivate
    BY <2>5, Zenon DEF UserFramesPrivate
  <2>. QED
    BY <2>3, <2>6, Zenon DEF WalkExact
<1>. QED
  BY <1>1, TablesAlways, PTL

\* No translation in the TLB differs from the tables in use (page_table.cc:222), over
\* any sequence of map, unmap, change of attributes and change of directory.
THEOREM TranslationsFresh == TablesSpec => []TlbCoherent
<1>1. ASSUME TablesInv PROVE TlbCoherent
  <2>1. SUFFICES ASSUME tlb.pte.p PROVE tlb.pte = Walk(mem, cr3, tlb.v)
    BY Zenon DEF TlbCoherent
  <2>2. tlb.v \in Page /\ tlb.pte = view[cr3][tlb.v] /\ cr3 \in DOMAIN view
    BY <1>1, <2>1, Zenon DEF TablesInv, TlbShows
  <2>3. /\ Sound(mem, next, DirsOf(view, call), MeantOf(view, call, cr3)) /\ cr3 \in DirsOf(view, call)
        /\ MeantOf(view, call, cr3)[cr3][tlb.v] = view[cr3][tlb.v]
    BY <1>1, <2>2, ViewsMeant, Zenon
  <2>. QED
    BY <2>2, <2>3, Zenon DEF Sound, WalkIs
<1>. QED
  BY <1>1, TablesAlways, PTL
=============================================================================
