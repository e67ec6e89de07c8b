-------------------------- MODULE SchedulerProofs --------------------------
(***************************************************************************)
(* For any number of threads and of TIDs, and wherever ticks fall: the run *)
(* queue, the TID map, the assertions and the address space are right in   *)
(* every state of the kernel as entry() sets it up (KernelConfig).         *)
(***************************************************************************)
EXTENDS Scheduler, TLAPS

----------------------------------------------------------------------------
(***************************************************************************)
(* What the list operations do to a list without duplicates.               *)
(***************************************************************************)
\* push_back() adds the node, which was on no list, and nothing else.
LEMMA AppendLemma ==
  ASSUME NEW S, NEW q \in Seq(S), NEW x \in S, Distinct(q), x \notin Range1(q)
  PROVE  /\ Append(q, x) \in Seq(S)
         /\ Distinct(Append(q, x))
         /\ Range1(Append(q, x)) = Range1(q) \cup {x}
<1> DEFINE r == Append(q, x)
<1>1. /\ r \in Seq(S) /\ Len(r) = Len(q) + 1 /\ Len(q) \in Nat
      /\ \A i \in 1..Len(q) : r[i] = q[i]
      /\ r[Len(q) + 1] = x
  OBVIOUS
<1> HIDE DEF r
<1>2. Distinct(r)
  BY <1>1 DEF Distinct, Range1
<1>3. Range1(r) = Range1(q) \cup {x}
  <2>1. ASSUME NEW y \in Range1(r) PROVE y \in Range1(q) \cup {x}
    BY <1>1, <2>1 DEF Range1
  <2>2. ASSUME NEW y \in Range1(q) PROVE y \in Range1(r)
    BY <1>1, <2>2 DEF Range1
  <2>3. x \in Range1(r)
    BY <1>1 DEF Range1
  <2> QED BY <2>1, <2>2, <2>3, Zenon
<1> QED BY <1>1, <1>2, <1>3, Zenon DEF r

\* Taking the first node off the list.
LEMMA TailLemma ==
  ASSUME NEW S, NEW q \in Seq(S), Distinct(q), q # << >>
  PROVE  /\ Head(q) \in Range1(q) /\ Head(q) \in S
         /\ Tail(q) \in Seq(S)
         /\ Distinct(Tail(q))
         /\ Range1(Tail(q)) = Range1(q) \ {Head(q)}
<1> DEFINE r == Tail(q)
<1>1. /\ r \in Seq(S) /\ Len(r) = Len(q) - 1 /\ Len(q) \in Nat /\ Len(q) > 0
      /\ \A i \in 1..Len(r) : r[i] = q[i + 1]
      /\ Head(q) = q[1] /\ Head(q) \in S
  OBVIOUS
<1> HIDE DEF r
<1>2. Distinct(r)
  BY <1>1 DEF Distinct
<1>3. Head(q) \in Range1(q)
  BY <1>1 DEF Range1
<1>4. Range1(r) = Range1(q) \ {Head(q)}
  <2>1. ASSUME NEW y \in Range1(r) PROVE y \in Range1(q) /\ y # Head(q)
    BY <1>1, <2>1 DEF Range1, Distinct
  <2>2. ASSUME NEW y \in Range1(q), y # Head(q) PROVE y \in Range1(r)
    <3>1. PICK i \in 1..Len(q) : y = q[i]
      BY Zenon DEF Range1
    <3>2. i # 1 /\ i - 1 \in 1..Len(r) /\ r[i - 1] = q[i]
      BY <1>1, <2>2, <3>1
    <3> QED BY <3>1, <3>2, Zenon DEF Range1
  <2> QED BY <2>1, <2>2, Zenon
<1> QED BY <1>1, <1>2, <1>3, <1>4, Zenon DEF r

\* erase() removes that node and nothing else.
LEMMA EraseLemma ==
  ASSUME NEW S, NEW q \in Seq(S), NEW x, Distinct(q)
  PROVE  /\ Erase(q, x) \in Seq(S)
         /\ Distinct(Erase(q, x))
         /\ Range1(Erase(q, x)) = Range1(q) \ {x}
<1>1. CASE x \notin Range1(q)
  BY <1>1, Zenon DEF Erase
<1>2. CASE x \in Range1(q)
  <2> DEFINE k == CHOOSE i \in 1..Len(q) : q[i] = x
             r == [i \in 1..(Len(q) - 1) |-> IF i < k THEN q[i] ELSE q[i + 1]]
  <2>1. Erase(q, x) = r
    BY <1>2, Zenon DEF Erase
  <2>2. k \in 1..Len(q) /\ q[k] = x /\ Len(q) \in Nat
    BY <1>2 DEF Range1
  <2> HIDE DEF k
  <2>3. /\ r \in Seq(S) /\ Len(r) = Len(q) - 1
        /\ \A i \in 1..Len(r) : r[i] = IF i < k THEN q[i] ELSE q[i + 1]
    <3>1. \A i \in 1..(Len(q) - 1) : (IF i < k THEN q[i] ELSE q[i + 1]) \in S
      BY <2>2
    <3>2. Len(q) - 1 \in Nat
      BY <2>2
    <3>3. r \in [1..(Len(q) - 1) -> S]
      BY <3>1, Zenon
    <3> QED BY <3>2, <3>3
  <2> HIDE DEF r
  <2>4. Distinct(r)
    BY <2>2, <2>3, SMTT(30) DEF Distinct
  <2>5. Range1(r) = Range1(q) \ {x}
    <3>1. ASSUME NEW y \in Range1(r) PROVE y \in Range1(q) /\ y # x
      BY <2>2, <2>3, <3>1 DEF Range1, Distinct
    <3>2. ASSUME NEW y \in Range1(q), y # x PROVE y \in Range1(r)
      <4>1. PICK i \in 1..Len(q) : y = q[i]
        BY Zenon DEF Range1
      <4>2. CASE i < k
        BY <2>2, <2>3, <4>1, <4>2 DEF Range1
      <4>3. CASE i > k
        <5>1. i - 1 \in 1..Len(r) /\ r[i - 1] = q[i]
          BY <2>2, <2>3, <4>3
        <5> QED BY <4>1, <5>1, Zenon DEF Range1
      <4> QED BY <2>2, <3>2, <4>1, <4>2, <4>3
    <3> QED BY <3>1, <3>2, Zenon
  <2> QED BY <2>1, <2>3, <2>4, <2>5, Zenon
<1> QED BY <1>1, <1>2, Zenon

\* The place of a node is its index.
LEMMA PositionLemma ==
  ASSUME NEW S, NEW q \in Seq(S), Distinct(q), NEW i \in 1..Len(q)
  PROVE  Position(q, q[i]) = i
BY Zenon DEF Position, Distinct

\* A node that is found no further back has kept or improved its place.
LEMMA PlaceLemma ==
  ASSUME NEW S, NEW q \in Seq(S), NEW r \in Seq(S), Distinct(q), Distinct(r),
         NEW t \in Range1(q),
         \A i \in 1..Len(q) : q[i] = t => \E j \in 1..Len(r) : j <= i /\ r[j] = t
  PROVE  Position(r, t) <= Position(q, t)
<1>1. PICK i \in 1..Len(q) : q[i] = t
  BY Zenon DEF Range1
<1>2. PICK j \in 1..Len(r) : j <= i /\ r[j] = t
  BY <1>1, Zenon
<1>3. Position(q, t) = i /\ Position(r, t) = j
  BY <1>1, <1>2, PositionLemma, Zenon
<1> QED BY <1>2, <1>3, Zenon

\* Taking the head off and pushing another node, which may be erased again, moves
\* every node that stays one place forward.
LEMMA RotateLemma ==
  ASSUME NEW S, NEW q \in Seq(S), Distinct(q), q # << >>, NEW x \in S, x \notin Range1(q),
         NEW r \in Seq(S), Distinct(r),
         r = Append(Tail(q), x) \/ r = Erase(Append(Tail(q), x), x),
         NEW t \in Range1(q), t \in Range1(r)
  PROVE  Position(r, t) <= Position(q, t)
<1>1. /\ Tail(q) \in Seq(S) /\ Distinct(Tail(q)) /\ Head(q) = q[1]
      /\ Range1(Tail(q)) = Range1(q) \ {Head(q)}
      /\ Len(Tail(q)) = Len(q) - 1 /\ Len(q) \in Nat \ {0}
      /\ \A i \in 1..(Len(q) - 1) : Tail(q)[i] = q[i + 1]
  BY TailLemma
<1> DEFINE p == Append(Tail(q), x)
<1>2. /\ p \in Seq(S) /\ Len(p) = Len(q) /\ p[Len(q)] = x
      /\ \A i \in 1..(Len(q) - 1) : p[i] = q[i + 1]
  BY <1>1
<1>3. Range1(p) = Range1(Tail(q)) \cup {x} /\ Distinct(p)
  BY <1>1, AppendLemma, ZenonT(30)
<1> HIDE DEF p
<1>4. \A i \in 1..(Len(q) - 1) : i \in 1..Len(r) /\ r[i] = q[i + 1]
  <2>1. CASE r = p
    BY <1>1, <1>2, <2>1
  <2>2. CASE r = Erase(p, x)
    <3>1. x \in Range1(p)
      BY <1>3, Zenon
    <3>2. (CHOOSE k \in 1..Len(p) : p[k] = x) = Len(q)
      <4>1. Len(q) \in 1..Len(p)
        BY <1>1, <1>2
      <4>2. \A k \in 1..Len(p) : p[k] = x => k = Len(q)
        BY <1>2, <1>3, <4>1, Zenon DEF Distinct
      <4> QED BY <1>2, <4>1, <4>2, Zenon
    <3>3. r = [i \in 1..(Len(p) - 1) |-> IF i < Len(q) THEN p[i] ELSE p[i + 1]]
      BY <2>2, <3>1, <3>2, Zenon DEF Erase
    <3>4. \A i \in 1..(Len(q) - 1) : r[i] = q[i + 1]
      <4>1. \A i \in 1..(Len(q) - 1) : i \in 1..(Len(p) - 1) /\ i < Len(q)
        BY <1>1, <1>2
      <4>2. \A i \in 1..(Len(q) - 1) : r[i] = p[i]
        BY <3>3, <4>1, Zenon
      <4> QED BY <1>2, <4>2, Zenon
    <3>5. DOMAIN r = 1..(Len(q) - 1) /\ DOMAIN r = 1..Len(r)
      BY <1>2, <3>3
    <3> QED BY <3>4, <3>5, Zenon
  <2> QED BY <2>1, <2>2, Zenon DEF p
<1>5. Range1(r) \subseteq (Range1(q) \ {Head(q)}) \cup {x}
  <2>1. CASE r = p
    BY <1>1, <1>3, <2>1, Zenon
  <2>2. CASE r = Erase(p, x)
    BY <1>1, <1>2, <1>3, <2>2, EraseLemma
  <2> QED BY <2>1, <2>2, Zenon DEF p
<1>6. ASSUME NEW i \in 1..Len(q), q[i] = t
      PROVE  \E j \in 1..Len(r) : j <= i /\ r[j] = t
  <2>1. i # 1
    BY <1>1, <1>5, <1>6, Zenon
  <2>2. i - 1 \in 1..(Len(q) - 1) /\ (i - 1) + 1 = i /\ i - 1 <= i
    BY <1>1, <2>1
  <2>3. i - 1 \in 1..Len(r) /\ r[i - 1] = q[i]
    BY <1>4, <2>2, Zenon
  <2> QED BY <1>6, <2>2, <2>3, Zenon
<1> QED BY <1>6, PlaceLemma, Zenon
----------------------------------------------------------------------------
USE ThreadAssumption, ProcAssumption, TIDAssumption

\* When only the boot thread builds objects, the objects under construction are
\* at most the one its local pointer refers to.
LEMMA BuiltLemma ==
  ASSUME NEW f, NEW g, NEW S, \A t \in Thread : f[t] \in S => t = BootThread
  PROVE  {g[t] : t \in {u \in Thread : f[u] \in S}}
           = IF f[BootThread] \in S THEN {g[BootThread]} ELSE {}
  BY Zenon

\* The same, for the two sets of the model.
LEMMA UnlistedLemma ==
  ASSUME BootInv
  PROVE  /\ Unlisted = IF pc[BootThread] \in {"tid", "push"}
                       THEN {obj[BootThread]} ELSE {}
         /\ Unnamed = IF pc[BootThread] = "tid" THEN {obj[BootThread]} ELSE {}
<1>1. \A t \in Thread : pc[t] \in {"tid", "push", "erased", "dropped"} => t = BootThread
  BY Zenon DEF BootInv, Building
<1>2. \A t \in Thread : pc[t] \in {"tid", "dropped"} => t = BootThread
  BY Zenon DEF BootInv, Building
<1>3. pc[BootThread] \notin {"erased", "dropped"}
  BY Zenon DEF BootInv
<1> QED BY <1>1, <1>2, <1>3, BuiltLemma DEF Unlisted, Unnamed

\* And for the next state.
LEMMA UnlistedNext ==
  ASSUME BootInv'
  PROVE  /\ Unlisted' = IF pc'[BootThread] \in {"tid", "push"}
                        THEN {obj'[BootThread]} ELSE {}
         /\ Unnamed' = IF pc'[BootThread] = "tid" THEN {obj'[BootThread]} ELSE {}
<1>1. \A t \in Thread : pc'[t] \in {"tid", "push", "erased", "dropped"} => t = BootThread
  BY Zenon DEF BootInv, Building
<1>2. \A t \in Thread : pc'[t] \in {"tid", "dropped"} => t = BootThread
  BY Zenon DEF BootInv, Building
<1>3. pc'[BootThread] \notin {"erased", "dropped"}
  BY Zenon DEF BootInv
<1> QED BY <1>1, <1>2, <1>3, BuiltLemma DEF Unlisted, Unnamed

\* The invariant holds when entry() has just stored ::scheduler.
LEMMA InitKernelInv == Init => KernelInv
<1> SUFFICES ASSUME Init PROVE KernelInv
  BY Zenon
<1>1. TypeOK
  BY DEF Init, TypeOK, TID, InvalidTID, PageDirectory, Label, Assertion
<1>2. BootInv /\ BeforeBoot /\ ExitInv
  BY Zenon DEF Init, BootInv, BeforeBoot, ExitInv, Building
<1>3. Unlisted = {} /\ Unnamed = {}
  BY <1>2, UnlistedLemma, Zenon DEF Init
<1>4. QueueExact /\ TidMapExact
  BY <1>3 DEF Init, QueueExact, TidMapExact, Distinct, Range1, Current, InvalidTID, TID
<1>5. ProcInv
  BY <1>3, Zenon DEF Init, ProcInv, Building
<1>6. ScheduleAssertsHold /\ LookupAssertsHold /\ AddressSpaceMatches
  BY Zenon DEF Init, ScheduleAssertsHold, LookupAssertsHold, AddressSpaceMatches
<1> QED BY <1>1, <1>2, <1>4, <1>5, <1>6, Zenon DEF KernelInv

\* Halting on one of the assertions that can fail disturbs nothing.
LEMMA PanicStep ==
  ASSUME KernelInv, NEW a \in {"running", "tid_full", "exit_tid", "init"}, Panic(a),
         a = "running" => running = NoThread
  PROVE  KernelInv'
<1> USE DEF Panic, threadVars, schedVars, tidVars, spaceVars, procVars, localVars
<1>1. TypeOK'
  BY Zenon DEF KernelInv, TypeOK, Assertion
<1>2. Unlisted' = Unlisted /\ Unnamed' = Unnamed /\ Current' = Current
  BY Zenon DEF Unlisted, Unnamed, Current
<1>3. QueueExact' /\ TidMapExact'
  BY <1>2, Zenon DEF KernelInv, QueueExact, TidMapExact
<1>4. ScheduleAssertsHold' /\ LookupAssertsHold' /\ AddressSpaceMatches'
  BY Zenon DEF KernelInv, ScheduleAssertsHold, LookupAssertsHold, AddressSpaceMatches,
               BeforeBoot
<1>5. BeforeBoot' /\ BootInv' /\ ExitInv' /\ ProcInv'
  BY <1>2, ZenonT(30) DEF KernelInv, BeforeBoot, BootInv, ExitInv, ProcInv
<1> QED BY <1>1, <1>3, <1>4, <1>5, Zenon DEF KernelInv

\* Nor does a step that changes nothing.
LEMMA StutterStep ==
  ASSUME KernelInv, UNCHANGED vars
  PROVE  KernelInv'
<1> USE DEF vars, threadVars, schedVars, tidVars, spaceVars, procVars, localVars
<1>1. TypeOK'
  BY Zenon DEF KernelInv, TypeOK
<1>2. Unlisted' = Unlisted /\ Unnamed' = Unnamed /\ Current' = Current
  BY Zenon DEF Unlisted, Unnamed, Current
<1>3. QueueExact' /\ TidMapExact'
  BY <1>2, Zenon DEF KernelInv, QueueExact, TidMapExact
<1>4. ScheduleAssertsHold' /\ LookupAssertsHold' /\ AddressSpaceMatches'
  BY Zenon DEF KernelInv, ScheduleAssertsHold, LookupAssertsHold, AddressSpaceMatches
<1>5. BeforeBoot' /\ BootInv' /\ ExitInv' /\ ProcInv'
  BY <1>2, ZenonT(30) DEF KernelInv, BeforeBoot, BootInv, ExitInv, ProcInv
<1> QED BY <1>1, <1>3, <1>4, <1>5, Zenon DEF KernelInv

----------------------------------------------------------------------------
\* The steps of the Process constructor up to new_thread(): the boot thread moves on,
\* no thread belongs to a process yet, and the run queue and the TIDs stay.
LEMMA ConstructorFrame ==
  ASSUME KernelConfig, KernelInv, running = BootThread,
         pc[BootThread] \in {"code", "ctx", "ctor", "unctx"},
         \A t \in Thread : proc[t] \notin Proc,
         NEW l \in {"ctx", "ctor", "unctx", "spawn"}, Goto(BootThread, l),
         cr3' \in PageDirectory, curr_proc_override' \in Proc \cup {NoProc},
         newproc' \in [Thread -> Proc \cup {NoProc}], newproc'[BootThread] \in Proc,
         prev_pd' \in [Thread -> PageDirectory], spawned' = Proc,
         panic' \in {"none", "init"},
         UNCHANGED <<threadVars, schedVars, tidVars, esp0, ptid, obj>>
  PROVE  KernelInv'
<1>0. UNCHANGED <<used, alive, tid, is_runnable, proc, running, runnable, pending_deletion,
                  tid_counter, tid_map, esp0, ptid, obj>>
  BY Zenon DEF threadVars, schedVars, tidVars
<1>p. /\ pc' \in [Thread -> Label] /\ pc'[BootThread] = l
      /\ \A t \in Thread : t # BootThread => pc'[t] = pc[t]
  BY Zenon DEF KernelInv, TypeOK, Goto, Label
<1>1. TypeOK'
  BY <1>0, <1>p, Zenon DEF KernelInv, TypeOK, Assertion
<1>2. BootInv'
  BY <1>0, <1>p, Zenon DEF KernelInv, BootInv, Building
<1>u. Unlisted' = Unlisted /\ Unnamed' = Unnamed
  <2>1. BootInv
    BY Zenon DEF KernelInv
  <2> QED BY <1>2, <1>p, <2>1, UnlistedLemma, UnlistedNext, Zenon
<1>3. QueueExact' /\ TidMapExact'
  BY <1>0, <1>u, Zenon DEF KernelInv, QueueExact, Current, TidMapExact
<1>4. ScheduleAssertsHold' /\ LookupAssertsHold' /\ AddressSpaceMatches'
  BY <1>0, Zenon DEF ScheduleAssertsHold, LookupAssertsHold, AddressSpaceMatches
<1>5. BeforeBoot'
  BY <1>0, Zenon DEF BeforeBoot
<1>6. ExitInv'
  BY <1>0, <1>p, Zenon DEF KernelInv, ExitInv
<1>7. ProcInv'
  <2>1. \A t \in Thread : pc'[t] \notin {"start", "user"}
    BY <1>p, Zenon DEF KernelInv, ProcInv
  <2>2. \A q \in Proc : ptid[q] = InvalidTID
    BY Zenon DEF KernelInv, ProcInv
  <2>3. pc'[BootThread] \in Building \ {"ret"}
    BY <1>p, Zenon DEF Building
  <2> QED BY <1>0, <2>1, <2>2, <2>3, Zenon DEF ProcInv
<1> QED BY <1>1, <1>2, <1>3, <1>4, <1>5, <1>6, <1>7, Zenon DEF KernelInv

\* ScopedEnterProcContext: the override. The process has not been spawned before,
\* so the assertion on nesting cannot fail.
LEMMA OverrideStep ==
  ASSUME KernelConfig, KernelInv, NEW t \in Thread, NEW p \in Proc, OverrideCurrProc(t, p)
  PROVE  KernelInv'
<1>1. p \notin spawned /\ t = BootThread /\ pc[BootThread] = "code" /\ running = t
  BY Zenon DEF OverrideCurrProc, At, KernelConfig
<1>2. curr_proc_override = NoProc /\ \A u \in Thread : proc[u] \notin Proc
  BY <1>1, Zenon DEF KernelInv, ProcInv
<1>3. /\ Goto(t, "ctx") /\ curr_proc_override' = p
      /\ prev_pd' = [prev_pd EXCEPT ![t] = cr3] /\ newproc' = [newproc EXCEPT ![t] = p]
      /\ spawned' = spawned \cup {p}
      /\ UNCHANGED <<threadVars, schedVars, tidVars, cr3, esp0, ptid, obj, panic>>
      /\ panic = "none"
  BY <1>2, Zenon DEF OverrideCurrProc, At
<1>4. /\ cr3' \in PageDirectory /\ newproc' \in [Thread -> Proc \cup {NoProc}]
      /\ newproc'[BootThread] \in Proc /\ prev_pd' \in [Thread -> PageDirectory]
  BY <1>1, <1>3, Zenon DEF KernelInv, TypeOK
<1>5. spawned' = Proc
  BY <1>3 DEF KernelConfig, KernelInv, TypeOK
<1> QED BY <1>1, <1>2, <1>3, <1>4, <1>5, ConstructorFrame, Zenon

\* In the constructor: the process is new and nobody belongs to it.
LEMMA InConstructor ==
  ASSUME KernelConfig, KernelInv, NEW t \in Thread, running = t,
         pc[t] \in {"ctx", "ctor", "unctx"}
  PROVE  /\ t = BootThread /\ newproc[t] \in Proc /\ spawned = Proc
         /\ \A u \in Thread : proc[u] \notin Proc
<1>1. t = BootThread
  BY Zenon DEF KernelInv, BootInv, Building
<1>2. newproc[t] # NoProc
  BY <1>1, Zenon DEF KernelInv, ProcInv
<1>3. newproc[t] \in Proc
  BY <1>2, Zenon DEF KernelInv, TypeOK
<1>4. \A u \in Thread : proc[u] \notin Proc
  BY <1>1, <1>2, Zenon DEF KernelInv, ProcInv, Building
<1>5. Proc \ spawned = {}
  BY <1>1, <1>2, Zenon DEF KernelInv, ProcInv
<1>6. spawned = Proc
  BY <1>5, Zenon DEF KernelInv, TypeOK
<1> QED BY <1>1, <1>3, <1>4, <1>6, Zenon

\* ScopedEnterProcContext: CR3; and the destructor: CR3, then the override.
LEMMA ContextStep ==
  ASSUME KernelConfig, KernelInv, NEW t \in Thread,
         \/ EnterContext(t) \/ LeaveContext(t)
         \/ \E loaded \in BOOLEAN : ResetOverride(t, loaded)
  PROVE  KernelInv'
<1>1. running = t /\ pc[t] \in {"ctx", "ctor", "unctx"} /\ panic = "none"
  BY Zenon DEF EnterContext, LeaveContext, ResetOverride, At
<1>2. /\ t = BootThread /\ newproc[t] \in Proc /\ spawned = Proc
      /\ \A u \in Thread : proc[u] \notin Proc
  BY <1>1, InConstructor, Zenon
<1>3. PICK l \in {"ctor", "unctx", "spawn"} : Goto(t, l)
  BY Zenon DEF EnterContext, LeaveContext, ResetOverride
<1>4. /\ UNCHANGED <<threadVars, schedVars, tidVars, esp0, ptid, obj, newproc, prev_pd, spawned>>
      /\ panic' \in {"none", "init"}
      /\ cr3' \in {cr3, newproc[t], prev_pd[t]}
      /\ curr_proc_override' \in {curr_proc_override, NoProc}
  BY <1>1, Zenon DEF EnterContext, LeaveContext, ResetOverride, procVars
<1>5. /\ cr3' \in PageDirectory /\ curr_proc_override' \in Proc \cup {NoProc}
      /\ newproc' \in [Thread -> Proc \cup {NoProc}]
      /\ prev_pd' \in [Thread -> PageDirectory]
  BY <1>2, <1>4 DEF KernelInv, TypeOK, PageDirectory
<1> QED BY <1>1, <1>2, <1>3, <1>4, <1>5, ConstructorFrame, Zenon

----------------------------------------------------------------------------
\* The steps of a thread other than the boot thread: into user mode, and through
\* destroy_thread() on itself. The run queue, the TIDs and the processes stay.
LEMMA ThreadFrame ==
  ASSUME KernelInv, NEW t \in Thread, t # BootThread, running = t,
         NEW l \in {"user", "destroy", "dying", "leave"}, Goto(t, l),
         l = "user" => proc[t] \in Proc,
         obj' \in [Thread -> Thread \cup {NoThread}], \A u \in Thread \ {t} : obj'[u] = obj[u],
         l = "destroy" => obj'[t] = t,
         is_runnable' \in [Thread -> BOOLEAN], is_runnable'[BootThread],
         pending_deletion' \in Thread \cup {NoThread},
         pending_deletion' # NoThread => pending_deletion' = t /\ l = "leave",
         esp0' \in Thread \cup {NoThread},
         UNCHANGED <<used, alive, tid, proc, running, runnable, tidVars, spaceVars, ptid,
                     spawned, newproc, prev_pd, panic>>
  PROVE  KernelInv'
<1>0. UNCHANGED <<tid_counter, tid_map, curr_proc_override, cr3>>
  BY Zenon DEF tidVars, spaceVars
<1>p. /\ pc' \in [Thread -> Label] /\ pc'[t] = l
      /\ \A u \in Thread : u # t => pc'[u] = pc[u]
  BY Zenon DEF KernelInv, TypeOK, Goto, Label
<1>b. BootThread \in Thread /\ pc'[BootThread] = pc[BootThread]
      /\ obj'[BootThread] = obj[BootThread]
  BY <1>p, Zenon
<1>1. TypeOK'
  BY <1>0, <1>p, Zenon DEF KernelInv, TypeOK
<1>2. BootInv'
  BY <1>0, <1>p, <1>b, Zenon DEF KernelInv, BootInv, Building
<1>u. Unlisted' = Unlisted /\ Unnamed' = Unnamed
  <2>1. BootInv
    BY Zenon DEF KernelInv
  <2>2. Unlisted = IF pc[BootThread] \in {"tid", "push"} THEN {obj[BootThread]} ELSE {}
    BY <2>1, UnlistedLemma, Zenon
  <2>3. Unnamed = IF pc[BootThread] = "tid" THEN {obj[BootThread]} ELSE {}
    BY <2>1, UnlistedLemma, Zenon
  <2>4. Unlisted' = IF pc'[BootThread] \in {"tid", "push"} THEN {obj'[BootThread]} ELSE {}
    BY <1>2, UnlistedNext, Zenon
  <2>5. Unnamed' = IF pc'[BootThread] = "tid" THEN {obj'[BootThread]} ELSE {}
    BY <1>2, UnlistedNext, Zenon
  <2> QED BY <1>b, <2>2, <2>3, <2>4, <2>5, Zenon
<1>3. QueueExact' /\ TidMapExact'
  BY <1>0, <1>u, Zenon DEF KernelInv, QueueExact, Current, TidMapExact
<1>4. ScheduleAssertsHold' /\ LookupAssertsHold' /\ AddressSpaceMatches'
  BY <1>0, Zenon DEF KernelInv, ScheduleAssertsHold, LookupAssertsHold, AddressSpaceMatches
<1>5. BeforeBoot'
  BY Zenon DEF BeforeBoot
<1>6. ExitInv'
  BY <1>p, Zenon DEF KernelInv, ExitInv
<1>7. ProcInv'
  <2>1. \A u \in Thread : pc'[u] \in {"start", "user"} => proc[u] \in Proc
    BY <1>p, Zenon DEF KernelInv, ProcInv
  <2> QED BY <1>0, <1>b, <1>u, <2>1 DEF KernelInv, ProcInv
<1> QED BY <1>1, <1>2, <1>3, <1>4, <1>5, <1>6, <1>7, Zenon DEF KernelInv

\* jump_to_userspace().
LEMMA JumpStep ==
  ASSUME KernelInv, NEW t \in Thread, JumpToUserspace(t)
  PROVE  KernelInv'
<1>1. running = t /\ pc[t] = "start" /\ Goto(t, "user") /\ esp0' = t
      /\ UNCHANGED <<used, alive, tid, is_runnable, proc, running, runnable, pending_deletion,
                     tidVars, spaceVars, ptid, spawned, obj, newproc, prev_pd, panic>>
  BY Zenon DEF JumpToUserspace, At, threadVars, schedVars
<1>2. t # BootThread /\ proc[t] \in Proc /\ is_runnable[BootThread]
  BY <1>1, Zenon DEF KernelInv, BootInv, ProcInv, Building
<1>3. /\ obj \in [Thread -> Thread \cup {NoThread}] /\ is_runnable \in [Thread -> BOOLEAN]
      /\ pending_deletion = NoThread
  BY <1>1, Zenon DEF KernelInv, TypeOK, ExitInv
<1> QED BY <1>1, <1>2, <1>3, ThreadFrame, Zenon

\* destroy_thread(tid) finds the thread that called it.
LEMMA LookupStep ==
  ASSUME KernelInv, NEW t \in Thread, NEW i \in TID,
         running = t, tid_map[i] = t, t # BootThread,
         pc[t] \in {"code", "user"},
         LookupThread(t, i)
  PROVE  KernelInv'
<1>1. Goto(t, "destroy") /\ obj' = [obj EXCEPT ![t] = t]
      /\ UNCHANGED <<used, alive, tid, is_runnable, proc, running, runnable, pending_deletion,
                     tidVars, spaceVars, esp0, ptid, spawned, newproc, prev_pd, panic>>
  BY Zenon DEF LookupThread, threadVars, schedVars, procVars
<1>2. /\ obj' \in [Thread -> Thread \cup {NoThread}] /\ obj'[t] = t
      /\ \A u \in Thread \ {t} : obj'[u] = obj[u]
      /\ is_runnable \in [Thread -> BOOLEAN] /\ esp0 \in Thread \cup {NoThread}
  BY <1>1, Zenon DEF KernelInv, TypeOK
<1>3. pending_deletion = NoThread /\ is_runnable[BootThread]
  BY Zenon DEF KernelInv, ExitInv, BootInv
<1> QED BY <1>1, <1>2, <1>3, ThreadFrame, Zenon

\* destroy_thread(): the thread is no longer runnable.
LEMMA DestroyCurrentStep ==
  ASSUME KernelInv, NEW t \in Thread, DestroyCurrent(t)
  PROVE  KernelInv'
<1>1. running = t /\ pc[t] = "destroy" /\ Goto(t, "dying")
      /\ is_runnable' = [is_runnable EXCEPT ![t] = FALSE]
      /\ UNCHANGED <<used, alive, tid, proc, running, runnable, pending_deletion,
                     tidVars, spaceVars, esp0, ptid, spawned, obj, newproc, prev_pd, panic>>
  BY Zenon DEF DestroyCurrent, At, schedVars, procVars
<1>2. t # BootThread /\ is_runnable[BootThread] /\ pending_deletion = NoThread
  BY <1>1, Zenon DEF KernelInv, BootInv, ExitInv, Building
<1>3. /\ obj \in [Thread -> Thread \cup {NoThread}] /\ is_runnable' \in [Thread -> BOOLEAN]
      /\ is_runnable'[BootThread] /\ esp0 \in Thread \cup {NoThread}
  BY <1>1, <1>2, Zenon DEF KernelInv, TypeOK
<1> QED BY <1>1, <1>2, <1>3, ThreadFrame, Zenon

\* destroy_thread(): no other thread is pending deletion.
LEMMA MarkPendingStep ==
  ASSUME KernelInv, NEW t \in Thread, MarkPending(t)
  PROVE  KernelInv'
<1>1. running = t /\ pc[t] = "dying"
  BY Zenon DEF MarkPending, At
<1>2. t # BootThread /\ is_runnable[BootThread] /\ pending_deletion = NoThread
  BY <1>1, Zenon DEF KernelInv, BootInv, ExitInv, Building
<1>3. Goto(t, "leave") /\ pending_deletion' = t
      /\ UNCHANGED <<used, alive, tid, is_runnable, proc, running, runnable,
                     tidVars, spaceVars, esp0, ptid, spawned, obj, newproc, prev_pd, panic>>
  BY <1>2, Zenon DEF MarkPending, threadVars, procVars
<1>4. /\ obj \in [Thread -> Thread \cup {NoThread}] /\ is_runnable \in [Thread -> BOOLEAN]
      /\ esp0 \in Thread \cup {NoThread}
  BY Zenon DEF KernelInv, TypeOK
<1> QED BY <1>1, <1>2, <1>3, <1>4, ThreadFrame, Zenon

-----------------------------------------------------------------------------
\* The context of the constructor, also while the boot thread is preempted in it.
InContext ==
  /\ pc[BootThread] \in {"ctx", "ctor"} => curr_proc_override = newproc[BootThread]
  /\ pc[BootThread] = "ctor" => cr3 = newproc[BootThread]

\* While the constructor runs no thread has a process, so no switch touches CR3.
LEMMA InContextSchedule ==
  ASSUME KernelInv, BootProc = {NoProc}, InContext, Schedule
  PROVE  InContext'
<1>1. UNCHANGED <<pc, newproc, curr_proc_override>>
  BY Zenon DEF Schedule, Switch, NoSwitch, Panic, vars, localVars, spaceVars
<1>2. CASE pc[BootThread] = "ctor"
  <2>1. \A t \in Thread : proc[t] = NoProc
    BY <1>2, ZenonT(30) DEF KernelInv, TypeOK, ProcInv, Building
  <2>2. runnable # << >> => Head(runnable) \in Thread
    BY DEF KernelInv, TypeOK
  <2>3. cr3' = cr3
    BY <2>1, <2>2, Zenon DEF Schedule, Switch, EnterNext, NoSwitch, Panic, vars, spaceVars
  <2> QED BY <1>1, <2>3, Zenon DEF InContext
<1>3. CASE pc[BootThread] # "ctor"
  BY <1>1, <1>3, Zenon DEF InContext
<1> QED BY <1>2, <1>3, Zenon

LEMMA InContextNext ==
  ASSUME KernelConfig, KernelInv, BootProc = {NoProc}, InContext, [Next]_vars
  PROVE  InContext'
<1> DEFINE Same == UNCHANGED <<curr_proc_override, cr3>> /\ newproc'[BootThread] = newproc[BootThread]
<1>0. pc \in [Thread -> Label] /\ newproc \in [Thread -> Proc \cup {NoProc}]
  BY Zenon DEF KernelInv, TypeOK
<1>1. CASE Tick \/ \E t \in Thread : ScheduleAway(t)
  BY <1>1, InContextSchedule, Zenon DEF Tick, ScheduleAway
<1>2. CASE Bootstrap \/ UNCHANGED vars
  BY <1>2, Zenon DEF Bootstrap, vars, localVars, spaceVars, InContext
<1>3. ASSUME NEW a, Panic(a) PROVE InContext'
  BY <1>3, Zenon DEF Panic, localVars, spaceVars, InContext
<1>4. ASSUME NEW t \in Thread, NEW p \in Proc, OverrideCurrProc(t, p) PROVE InContext'
  <2>1. t = BootThread
    BY <1>4, Zenon DEF OverrideCurrProc, KernelConfig
  <2>2. CASE curr_proc_override # NoProc
    BY <1>3, <1>4, <2>2, Zenon DEF OverrideCurrProc
  <2>3. CASE curr_proc_override = NoProc
    BY <1>0, <1>4, <2>1, <2>3, Zenon DEF OverrideCurrProc, Goto, InContext
  <2> QED BY <2>2, <2>3, Zenon
<1>5. ASSUME NEW t \in Thread,
             \/ EnterContext(t) \/ LeaveContext(t)
             \/ \E loaded \in BOOLEAN : ResetOverride(t, loaded)
      PROVE InContext'
  <2>1. t = BootThread
    BY <1>5, Zenon
      DEF EnterContext, LeaveContext, ResetOverride, At, KernelInv, BootInv, Building
  <2>2. CASE EnterContext(t)
    BY <1>0, <2>1, <2>2, Zenon DEF EnterContext, At, Goto, InContext
  <2>3. CASE LeaveContext(t)
    BY <1>0, <2>1, <2>3, Zenon DEF LeaveContext, Goto, InContext
  <2>4. CASE \E loaded \in BOOLEAN : ResetOverride(t, loaded)
    BY <1>0, <2>1, <2>4, Zenon DEF ResetOverride, Goto, InContext
  <2> QED BY <1>5, <2>2, <2>3, <2>4, Zenon
<1>6. ASSUME NEW t \in Thread, (\E u \in Thread : EmplaceTid(t, u)) \/ AssignTid(t)
      PROVE InContext'
  <2>1. ASSUME Same, NEW l \in {"tid", "push"}, pc' = [pc EXCEPT ![t] = l] PROVE InContext'
    BY <1>0, <2>1, Zenon DEF InContext
  <2>2. CASE AssignTid(t)
    BY <2>1, <2>2, Zenon DEF AssignTid, Goto, spaceVars
  <2>3. ASSUME NEW u \in Thread, EmplaceTid(t, u) PROVE InContext'
    <3>1. CASE TidMapFull
      BY <1>3, <2>3, <3>1, Zenon DEF EmplaceTid
    <3>2. CASE ~TidMapFull
      BY <2>1, <2>3, <3>2, Zenon DEF EmplaceTid, Goto, spaceVars
    <3> QED BY <3>1, <3>2, Zenon
  <2> QED BY <1>6, <2>2, <2>3, Zenon
<1>7. ASSUME NEW t \in Thread, PushBack(t) \/ StoreTid(t) PROVE InContext'
  <2>1. t = BootThread
    BY <1>7, Zenon DEF PushBack, StoreTid, At, KernelInv, BootInv, Building
  <2>2. CASE PushBack(t)
    <3>1. pc'[BootThread] \in {"ret", "code", "start"}
      BY <1>0, <2>1, <2>2, Zenon DEF PushBack
    <3> QED BY <3>1, Zenon DEF InContext
  <2>3. CASE StoreTid(t)
    BY <1>0, <2>1, <2>3, Zenon DEF StoreTid, Goto, InContext
  <2> QED BY <1>7, <2>2, <2>3, Zenon
<1>8. ASSUME NEW t \in Thread,
             \/ JumpToUserspace(t) \/ Exit(t) \/ DestroyCurrent(t) \/ MarkPending(t)
             \/ \E x \in Thread : DestroyThread(t, x)
      PROVE InContext'
  <2>1. CASE \E a \in Assertion : Panic(a)
    BY <1>3, <2>1, Zenon
  <2>2. CASE Same /\ \E l \in {"user", "dying", "leave", "destroy"} : pc' = [pc EXCEPT ![t] = l]
    BY <1>0, <2>2, Zenon DEF InContext
  <2>3. ASSUME NEW i, LookupThread(t, i) PROVE InContext'
    BY <2>1, <2>2, <2>3, Zenon DEF LookupThread, Goto, spaceVars, Assertion
  <2>4. CASE JumpToUserspace(t) \/ DestroyCurrent(t) \/ MarkPending(t)
    BY <2>1, <2>2, <2>4, Zenon
      DEF JumpToUserspace, DestroyCurrent, MarkPending, Goto, spaceVars, Assertion
  <2>5. CASE Exit(t) \/ \E x \in Thread : DestroyThread(t, x)
    BY <2>1, <2>3, <2>5, Zenon DEF Exit, DestroyThread, Assertion
  <2> QED BY <1>8, <2>4, <2>5, Zenon
<1>9. ASSUME NEW t \in Thread PROVE ~(DestroyOther(t) \/ DropTid(t) \/ FreeTask(t))
  BY Zenon DEF DestroyOther, DropTid, FreeTask, At, KernelInv, ExitInv, BootInv
<1> QED BY <1>1, <1>2, <1>4, <1>5, <1>6, <1>7, <1>8, <1>9, Zenon
       DEF Next, ThreadStep, ConstructorStep, NewThreadStep, DestroyStep
-----------------------------------------------------------------------------

\* bootstrap().
LEMMA BootstrapStep ==
  ASSUME KernelInv, Bootstrap
  PROVE  KernelInv'
<1>1. /\ running = NoThread /\ running' = BootThread /\ panic = "none"
      /\ used' = {BootThread} /\ alive' = {BootThread}
      /\ tid' = [tid EXCEPT ![BootThread] = tid_counter]
      /\ tid_map' = [tid_map EXCEPT ![tid_counter] = BootThread]
      /\ tid_counter' = Inc(tid_counter)
      /\ UNCHANGED <<is_runnable, runnable, pending_deletion, curr_proc_override, cr3, esp0,
                     ptid, spawned, pc, obj, newproc, prev_pd, panic>>
  BY Zenon DEF Bootstrap, spaceVars, procVars, localVars
<1>2. PICK b \in BootProc : proc' = [proc EXCEPT ![BootThread] = b]
  BY Zenon DEF Bootstrap
<1>3. /\ used = {} /\ alive = {} /\ tid_counter = 0 /\ pc[BootThread] = "code"
      /\ \A i \in TID : tid_map[i] = IF i = InvalidTID THEN NoThread ELSE NoEntry
  BY <1>1, Zenon DEF KernelInv, TypeOK, BeforeBoot
<1>4. 0 \in TID /\ InvalidTID \in TID /\ InvalidTID # 0 /\ Inc(0) \in TID
  BY DEF TID, InvalidTID, Inc
<1>5. /\ tid' \in [Thread -> TID] /\ tid'[BootThread] = 0
      /\ tid_map' \in [TID -> Thread \cup {NoThread, NoEntry}]
      /\ \A i \in TID : tid_map'[i] = IF i = 0 THEN BootThread ELSE tid_map[i]
  BY <1>1, <1>3, <1>4, Zenon DEF KernelInv, TypeOK
<1>6. /\ proc' \in [Thread -> Proc \cup BootProc] /\ proc'[BootThread] = b /\ b \notin Proc
      /\ \A t \in Thread : t # BootThread => proc'[t] = proc[t]
  BY <1>2, Zenon DEF KernelInv, TypeOK
<1>7. TypeOK'
  BY <1>1, <1>3, <1>4, <1>5, <1>6 DEF KernelInv, TypeOK
<1>8. BootInv'
  BY <1>1, <1>3, <1>6, Zenon DEF KernelInv, BootInv, Building
<1>9. Unlisted = {} /\ Unlisted' = {} /\ Unnamed' = {}
  <2>1. BootInv
    BY Zenon DEF KernelInv
  <2> QED BY <1>1, <1>3, <1>8, <2>1, UnlistedLemma, UnlistedNext, Zenon
<1>10. QueueExact'
  <2>1. Distinct(runnable) /\ Range1(runnable) = {}
    BY <1>3, Zenon DEF KernelInv, QueueExact
  <2> QED BY <1>1, <1>9, <2>1, Zenon DEF QueueExact, Current
<1>11. TidMapExact'
  BY <1>1, <1>3, <1>4, <1>5, <1>9 DEF TidMapExact
<1>12. ScheduleAssertsHold' /\ LookupAssertsHold' /\ AddressSpaceMatches'
  BY <1>1, <1>6, Zenon DEF ScheduleAssertsHold, LookupAssertsHold, AddressSpaceMatches
<1>13. BeforeBoot' /\ ExitInv'
  BY <1>1, Zenon DEF KernelInv, BeforeBoot, ExitInv
<1>14. ProcInv'
  <2>1. \A t \in Thread : proc[t] \notin Proc /\ proc'[t] \notin Proc
    BY <1>3, <1>6, Zenon DEF KernelInv, ProcInv
  <2> QED BY <1>1, <1>3, <2>1, Zenon DEF KernelInv, ProcInv, Building
<1> QED BY <1>7, <1>8, <1>10, <1>11, <1>12, <1>13, <1>14, Zenon DEF KernelInv

\* assign_next_tid(): a fresh object is entered under a free key.
LEMMA EmplaceTidStep ==
  ASSUME KernelConfig, KernelInv, NEW t \in Thread, NEW u \in Thread, EmplaceTid(t, u)
  PROVE  KernelInv'
<1>1. CASE TidMapFull
  BY <1>1, PanicStep, Zenon DEF EmplaceTid
<1>2. CASE ~TidMapFull
  <2>1. /\ used' = used \cup {u} /\ alive' = alive \cup {u} /\ u \notin used
        /\ is_runnable' = [is_runnable EXCEPT ![u] = TRUE]
        /\ obj' = [obj EXCEPT ![t] = u] /\ pc' = [pc EXCEPT ![t] = "tid"]
        /\ UNCHANGED <<tid, proc, running, runnable, pending_deletion, curr_proc_override,
                       cr3, esp0, ptid, spawned, newproc, prev_pd, panic>>
        /\ running = t /\ (pc[t] = "spawn" \/ (pc[t] = "code" /\ t \in Creators))
    BY <1>2, Zenon DEF EmplaceTid, At, Goto, schedVars, spaceVars, procVars
  <2>2. PICK i \in FreeTID : tid_map' = [tid_map EXCEPT ![i] = u] /\ tid_counter' = Inc(i)
    BY <1>2, Zenon DEF EmplaceTid, IsNextTID
  <2>3. t = BootThread /\ BootThread \in alive /\ u # BootThread /\ u \notin alive
    BY <2>1 DEF KernelConfig, KernelInv, TypeOK, BootInv, Building
  <2>4. i \in TID /\ i # InvalidTID /\ tid_map[i] = NoEntry
    BY <2>2, Zenon DEF KernelInv, TidMapExact, FreeTID
  <2>5. Inc(i) \in TID /\ Dec(Inc(i)) = i
    BY <2>4 DEF Inc, Dec, TID, InvalidTID
  <2>6. /\ tid_map' \in [TID -> Thread \cup {NoThread, NoEntry}]
        /\ \A k \in TID : tid_map'[k] = IF k = i THEN u ELSE tid_map[k]
    BY <2>2, <2>4, Zenon DEF KernelInv, TypeOK
  <2>7. /\ pc' \in [Thread -> Label] /\ pc'[BootThread] = "tid"
        /\ \A v \in Thread : v # BootThread => pc'[v] = pc[v]
    BY <2>1, <2>3, Zenon DEF KernelInv, TypeOK, Label
  <2>8. /\ obj' \in [Thread -> Thread \cup {NoThread}] /\ obj'[BootThread] = u
        /\ \A v \in Thread : v # BootThread => obj'[v] = obj[v]
    BY <2>1, <2>3, Zenon DEF KernelInv, TypeOK
  <2>9. is_runnable' \in [Thread -> BOOLEAN] /\ is_runnable'[BootThread]
    BY <2>1, <2>3, Zenon DEF KernelInv, TypeOK, BootInv
  <2>10. TypeOK'
    BY <2>1, <2>2, <2>5, <2>6, <2>7, <2>8, <2>9, ZenonT(30) DEF KernelInv, TypeOK
  <2>11. BootInv'
    <3>1. \A k \in TID : tid_map[k] # u
      BY <2>3, Zenon DEF KernelInv, TidMapExact
    <3>2. \A k \in TID : tid_map'[k] = obj'[BootThread] <=> k = Dec(tid_counter')
      BY <2>2, <2>5, <2>6, <2>8, <3>1, Zenon
    <3> QED BY <2>1, <2>3, <2>7, <2>8, <2>9, <3>2, Zenon DEF KernelInv, BootInv, Building
  <2>12. Unlisted = {} /\ Unnamed = {} /\ Unlisted' = {u} /\ Unnamed' = {u}
    <3>1. BootInv /\ pc[BootThread] \notin {"tid", "push"}
      BY <2>1, <2>3, Zenon DEF KernelInv
    <3> QED BY <2>7, <2>8, <2>11, <3>1, UnlistedLemma, UnlistedNext, Zenon
  <2>13. QueueExact'
    BY <2>1, <2>3, <2>12 DEF KernelInv, QueueExact, Current
  <2>14. TidMapExact'
    <3>1. \A v \in alive : tid_map'[tid[v]] = v
      BY <2>4, <2>6, <2>12 DEF KernelInv, TidMapExact, TypeOK
    <3>2. \A k \in TID : tid_map[k] \in Thread => tid_map[k] \in alive /\ tid[tid_map[k]] = k
      BY <2>12, Zenon DEF KernelInv, TidMapExact
    <3>3. InvalidTID \in TID /\ tid_map[InvalidTID] = NoThread
      BY DEF KernelInv, TidMapExact, TID, InvalidTID
    <3> QED BY <2>1, <2>4, <2>6, <2>12, <3>1, <3>2, <3>3, Zenon DEF TidMapExact
  <2>15. ScheduleAssertsHold' /\ LookupAssertsHold' /\ AddressSpaceMatches'
    <3>1. panic = "none"
      BY Zenon DEF EmplaceTid, At
    <3> QED BY <2>1, <3>1, Zenon
          DEF KernelInv, ScheduleAssertsHold, LookupAssertsHold, AddressSpaceMatches
  <2>16. BeforeBoot' /\ ExitInv'
    BY <2>1, <2>3, <2>7, <2>8, Zenon DEF KernelInv, BeforeBoot, ExitInv
  <2>17. ProcInv'
    <3>1. \A v \in Thread : proc[v] \in Proc => v \in used /\ v # u
      BY <2>1, Zenon DEF KernelInv, ProcInv
    <3>2. newproc[BootThread] # NoProc => \A v \in Thread : proc[v] \notin Proc
      BY <2>1, <2>3, Zenon DEF KernelInv, ProcInv, Building
    <3>3. pc'[BootThread] \in Building /\ \A v \in Thread : pc'[v] \in {"start", "user"} => proc[v] \in Proc
      BY <2>7, Zenon DEF KernelInv, ProcInv, Building
    <3> QED BY <2>1, <2>7, <2>12, <3>1, <3>2, <3>3, SMTT(30) DEF KernelInv, ProcInv
  <2> QED BY <2>10, <2>11, <2>13, <2>14, <2>15, <2>16, <2>17, Zenon DEF KernelInv
<1> QED BY <1>1, <1>2, Zenon

\* assign_next_tid(): the TID is the key just entered.
LEMMA AssignTidStep ==
  ASSUME KernelInv, NEW t \in Thread, AssignTid(t)
  PROVE  KernelInv'
<1> DEFINE u == obj[BootThread]
           i == Dec(tid_counter)
<1>1. /\ running = t /\ pc[t] = "tid" /\ tid' = [tid EXCEPT ![obj[t]] = i]
      /\ pc' = [pc EXCEPT ![t] = "push"]
      /\ UNCHANGED <<used, alive, is_runnable, proc, running, runnable, pending_deletion,
                     tid_counter, tid_map, curr_proc_override, cr3, esp0, ptid, spawned,
                     obj, newproc, prev_pd, panic>>
  BY Zenon DEF AssignTid, NewTid, At, Goto, schedVars, tidVars, spaceVars, procVars
<1>2. t = BootThread
  BY <1>1, Zenon DEF KernelInv, BootInv, Building
<1>3. /\ u \in alive /\ u \in Thread /\ u # BootThread /\ i \in TID
      /\ \A k \in TID : tid_map[k] = u <=> k = i
  BY <1>1, <1>2 DEF KernelInv, TypeOK, BootInv, Dec, TID
<1> HIDE DEF u, i
<1>4. /\ tid' \in [Thread -> TID] /\ tid'[u] = i
      /\ \A v \in Thread : v # u => tid'[v] = tid[v]
  BY <1>1, <1>2, <1>3, Zenon DEF KernelInv, TypeOK, u
<1>5. /\ pc' \in [Thread -> Label] /\ pc'[BootThread] = "push"
      /\ \A v \in Thread : v # BootThread => pc'[v] = pc[v]
  BY <1>1, <1>2, Zenon DEF KernelInv, TypeOK, Label
<1>6. TypeOK'
  BY <1>1, <1>4, <1>5, Zenon DEF KernelInv, TypeOK
<1>7. BootInv'
  BY <1>1, <1>3, <1>5, Zenon DEF KernelInv, BootInv, Building, u
<1>8. Unlisted = {u} /\ Unnamed = {u} /\ Unlisted' = {u} /\ Unnamed' = {}
  <2>1. BootInv
    BY Zenon DEF KernelInv
  <2> QED BY <1>1, <1>2, <1>5, <1>7, <2>1, UnlistedLemma, UnlistedNext, Zenon DEF u
<1>9. QueueExact'
  BY <1>1, <1>8, Zenon DEF KernelInv, QueueExact, Current
<1>10. TidMapExact'
  <2>1. \A v \in alive : tid_map[tid'[v]] = v
    BY <1>3, <1>4, <1>8 DEF KernelInv, TidMapExact, TypeOK
  <2>2. \A k \in TID : tid_map[k] \in Thread => tid_map[k] \in alive /\ tid'[tid_map[k]] = k
    BY <1>3, <1>4, <1>8 DEF KernelInv, TidMapExact
  <2> QED BY <1>1, <1>8, <2>1, <2>2, Zenon DEF KernelInv, TidMapExact
<1>11. ScheduleAssertsHold' /\ LookupAssertsHold' /\ AddressSpaceMatches'
  BY <1>1, Zenon DEF KernelInv, ScheduleAssertsHold, LookupAssertsHold, AddressSpaceMatches
<1>12. BeforeBoot' /\ ExitInv'
  BY <1>1, <1>2, <1>5, Zenon DEF KernelInv, BeforeBoot, ExitInv
<1>13. ProcInv'
  <2>1. \A v \in Thread : proc[v] \in Proc => v # u /\ tid'[v] = tid[v]
    BY <1>4, <1>8, Zenon DEF KernelInv, ProcInv
  <2>2. pc[BootThread] = "tid" /\ \A v \in Thread : pc'[v] \in {"start", "user"} => proc[v] \in Proc
    BY <1>1, <1>2, <1>5, Zenon DEF KernelInv, ProcInv
  <2> QED BY <1>1, <1>5, <1>8, <2>1, <2>2, SMTT(30) DEF KernelInv, ProcInv, Building
<1> QED BY <1>6, <1>7, <1>9, <1>10, <1>11, <1>12, <1>13, Zenon DEF KernelInv

\* The constructor stores the TID.
LEMMA StoreTidStep ==
  ASSUME KernelConfig, KernelInv, NEW t \in Thread, StoreTid(t)
  PROVE  KernelInv'
<1>1. /\ running = t /\ pc[t] = "ret"
      /\ ptid' = IF newproc[t] = NoProc THEN ptid
                 ELSE [ptid EXCEPT ![newproc[t]] = tid[obj[t]]]
      /\ newproc' = [newproc EXCEPT ![t] = NoProc] /\ obj' = [obj EXCEPT ![t] = NoThread]
      /\ pc' = [pc EXCEPT ![t] = "code"]
      /\ UNCHANGED <<used, alive, tid, is_runnable, proc, running, runnable, pending_deletion,
                     tid_counter, tid_map, curr_proc_override, cr3, esp0, spawned,
                     prev_pd, panic>>
  BY Zenon DEF StoreTid, At, Goto, threadVars, schedVars, tidVars, spaceVars
<1>2. t = BootThread /\ obj[BootThread] \in Thread /\ newproc[BootThread] = proc[obj[BootThread]]
  BY <1>1, Zenon DEF KernelInv, BootInv, ProcInv, Building
<1>3. /\ newproc' \in [Thread -> Proc \cup {NoProc}] /\ newproc'[BootThread] = NoProc
      /\ obj' \in [Thread -> Thread \cup {NoThread}]
      /\ \A v \in Thread : v # BootThread => obj'[v] = obj[v]
      /\ newproc[BootThread] \in Proc \cup {NoProc}
  BY <1>1, <1>2, Zenon DEF KernelInv, TypeOK
<1>4. /\ pc' \in [Thread -> Label] /\ pc'[BootThread] = "code" /\ pc[BootThread] = "ret"
      /\ \A v \in Thread : v # BootThread => pc'[v] = pc[v]
  BY <1>1, <1>2, ZenonT(30) DEF KernelInv, TypeOK, Label
<1>5. /\ ptid' \in [Proc -> TID]
      /\ newproc[BootThread] = NoProc => ptid' = ptid
      /\ newproc[BootThread] # NoProc => \A p \in Proc : ptid'[p] = tid[obj[BootThread]]
  BY <1>1, <1>2, <1>3 DEF KernelInv, KernelConfig, TypeOK
<1>6. TypeOK'
  BY <1>1, <1>3, <1>4, <1>5, Zenon DEF KernelInv, TypeOK
<1>7. BootInv'
  BY <1>1, <1>4, Zenon DEF KernelInv, BootInv, Building
<1>8. Unlisted = {} /\ Unnamed = {} /\ Unlisted' = {} /\ Unnamed' = {}
  <2>1. BootInv
    BY Zenon DEF KernelInv
  <2> QED BY <1>4, <1>7, <2>1, UnlistedLemma, UnlistedNext, Zenon
<1>9. QueueExact' /\ TidMapExact'
  BY <1>1, <1>8, Zenon DEF KernelInv, QueueExact, Current, TidMapExact
<1>10. ScheduleAssertsHold' /\ LookupAssertsHold' /\ AddressSpaceMatches'
  BY <1>1, Zenon DEF KernelInv, ScheduleAssertsHold, LookupAssertsHold, AddressSpaceMatches
<1>11. BeforeBoot' /\ ExitInv'
  BY <1>1, <1>2, <1>3, <1>4, Zenon DEF KernelInv, BeforeBoot, ExitInv
<1>12. ProcInv'
  <2>1. \A v \in Thread : pc'[v] \in {"start", "user"} => proc[v] \in Proc
    BY <1>4, Zenon DEF KernelInv, ProcInv
  <2>2. \A p \in Proc \ spawned : curr_proc_override = NoProc
    BY Zenon DEF KernelInv, ProcInv
  <2>3. /\ \A v \in Thread : proc[v] \in Proc => v \in used /\ spawned = Proc
        /\ \A v, w \in Thread : proc[v] \in Proc /\ proc[w] \in Proc => v = w
    BY Zenon DEF KernelInv, ProcInv
  <2>4. /\ \A p \in Proc, v \in Thread :
             ptid'[p] # InvalidTID /\ proc[v] \in Proc => ptid'[p] = tid[v]
        /\ (\A v \in Thread : proc[v] \notin Proc) => \A p \in Proc : ptid'[p] = InvalidTID
    <3>1. CASE newproc[BootThread] = NoProc
      BY <1>5, <3>1 DEF KernelInv, ProcInv
    <3>2. CASE newproc[BootThread] # NoProc
      <4>1. proc[obj[BootThread]] \in Proc
        BY <1>2, <1>3, <3>2, Zenon
      <4>2. \A p \in Proc : ptid'[p] = tid[obj[BootThread]]
        BY <1>5, <3>2, Zenon
      <4> QED BY <1>2, <2>3, <4>1, <4>2, Zenon
    <3> QED BY <3>1, <3>2, Zenon
  <2> QED BY <1>1, <1>3, <1>4, <1>8, <2>1, <2>2, <2>3, <2>4 DEF ProcInv, Building
<1> QED BY <1>6, <1>7, <1>9, <1>10, <1>11, <1>12, Zenon DEF KernelInv
-----------------------------------------------------------------------------

\* new_thread(): the finished object goes to the back of the queue.
LEMMA PushBackStep ==
  ASSUME KernelConfig, KernelInv, NEW t \in Thread, PushBack(t)
  PROVE  KernelInv'
<1> USE DEF KernelInv, PushBack, At, Goto, threadVars, schedVars, tidVars, spaceVars,
            procVars, localVars
<1>0. /\ t = BootThread /\ obj[t] \in alive /\ obj[t] \in Thread /\ obj[t] # t
      /\ Unlisted = {obj[t]} /\ Unnamed = {}
  BY UnlistedLemma, Zenon DEF TypeOK, BootInv, Building
<1>q. /\ runnable' \in Seq(Thread) /\ Distinct(runnable')
      /\ Range1(runnable') = Range1(runnable) \cup {obj[t]}
      /\ obj[t] # running
  <2>1. obj[t] \notin Range1(runnable) /\ obj[t] # running
    BY <1>0, Zenon DEF QueueExact, Current
  <2> QED BY <1>0, <2>1, AppendLemma DEF Enqueue, TypeOK, QueueExact
<1>1. TypeOK'
  BY <1>0, <1>q, SMTT(30) DEF TypeOK, Label
<1>2. BootInv'
  BY <1>0 DEF TypeOK, KernelConfig, BootInv, BeforeBoot, Building
<1>u. Unlisted' = {} /\ Unnamed' = {}
  BY <1>0, <1>2, UnlistedNext, Zenon DEF TypeOK
<1>3. QueueExact'
  BY <1>0, <1>q, <1>u, SMTT(30) DEF TypeOK, QueueExact, Current
<1>4. TidMapExact'
  BY <1>0, <1>u, ZenonT(30) DEF TypeOK, TidMapExact
<1>5. ScheduleAssertsHold' /\ LookupAssertsHold' /\ AddressSpaceMatches'
  BY <1>0, <1>q, SMTT(30) DEF TypeOK, KernelConfig, ScheduleAssertsHold, LookupAssertsHold,
         AddressSpaceMatches, BootInv, Building
<1>6. BeforeBoot' /\ ExitInv'
  BY <1>0, <1>q DEF TypeOK, BeforeBoot, BootInv, ExitInv, Building
<1>7. ProcInv'
  <2>1. /\ pc'[BootThread] = "ret" /\ obj[BootThread] # BootThread
        /\ \A v \in Thread \ {BootThread, obj[t]} : pc'[v] = pc[v]
        /\ pc'[obj[t]] = IF newproc[t] = NoProc THEN "code" ELSE "start"
    BY <1>0, Zenon DEF TypeOK
  <2>2. /\ proc'[obj[t]] = newproc[t]
        /\ \A v \in Thread : v # obj[t] => proc'[v] = proc[v]
        /\ proc[obj[t]] \notin Proc
    BY <1>0 DEF TypeOK, ProcInv
  <2>3. newproc[t] # NoProc => newproc[t] \in Proc /\ \A v \in Thread : proc[v] \notin Proc
    BY <1>0, Zenon DEF TypeOK, ProcInv, Building
  <2>4. newproc[t] # NoProc => spawned = Proc
    <3>1. newproc[BootThread] # NoProc => Proc \ spawned = {}
      BY ZenonT(30) DEF ProcInv
    <3> QED BY <1>0, <3>1, Zenon DEF TypeOK
  <2>5. CASE newproc[t] = NoProc
    <3>1. \A v \in Thread : proc'[v] \in Proc <=> proc[v] \in Proc
      BY <2>2, <2>5, ZenonT(30)
    <3> QED BY <1>0, <1>u, <2>1, <2>2, <2>5, <3>1, SMTT(30) DEF ProcInv, Building, TypeOK
  <2>6. CASE newproc[t] # NoProc
    <3>1. \A v \in Thread : proc'[v] \in Proc <=> v = obj[t]
      BY <1>0, <2>2, <2>3, <2>6, Zenon
    <3>2. \A p \in Proc : ptid'[p] = InvalidTID
      BY <2>3, <2>6, Zenon DEF ProcInv
    <3> QED BY <1>0, <1>u, <2>1, <2>2, <2>4, <2>6, <3>1, <3>2, SMTT(30) DEF ProcInv, Building, TypeOK
  <2> QED BY <2>5, <2>6, Zenon
<1> QED BY <1>1, <1>2, <1>3, <1>4, <1>5, <1>6, <1>7, Zenon

\* A kernel thread destroys itself by its TID.
LEMMA DestroyThreadStep ==
  ASSUME KernelConfig, KernelInv, NEW t \in Thread, NEW x \in Thread, DestroyThread(t, x)
  PROVE  KernelInv'
<1>1. x = t /\ t # BootThread /\ running = t /\ panic = "none" /\ pc[t] = "code"
      /\ LookupThread(t, tid[t])
  BY Zenon DEF KernelConfig, DestroyThread, At
<1>2. t \in alive \ Unnamed
  BY <1>1, UnlistedLemma, Zenon DEF KernelInv, QueueExact, Current, TypeOK
<1>3. tid_map[tid[t]] = t /\ tid[t] \in TID
  BY <1>2, Zenon DEF KernelInv, TidMapExact, TypeOK
<1> QED BY <1>1, <1>3, LookupStep, Zenon

\* A process destroys its thread by Process::tid: the process found by
\* curr_proc() is its own, and the TID, if stored, is that of its thread.
LEMMA ExitStep ==
  ASSUME KernelConfig, KernelInv, NEW t \in Thread, Exit(t)
  PROVE  KernelInv'
<1>1. running = t /\ panic = "none" /\ pc[t] = "user" /\ t # BootThread
  BY Zenon DEF Exit, At, KernelInv, BootInv, Building
<1>2. proc[t] \in Proc
  BY <1>1, Zenon DEF KernelInv, ProcInv
<1>3. t \in alive \ Unnamed
  BY <1>1, UnlistedLemma, Zenon DEF KernelInv, QueueExact, Current, TypeOK
<1>4. tid_map[tid[t]] = t /\ tid[t] \in TID
  BY <1>3, Zenon DEF KernelInv, TidMapExact, TypeOK
<1>5. CASE CurrProc \in Proc /\ ptid[CurrProc] # InvalidTID
  <2>1. ptid[CurrProc] = tid[t]
    BY <1>2, <1>5, Zenon DEF KernelInv, ProcInv
  <2>2. LookupThread(t, tid[t])
    BY <1>5, <2>1, Zenon DEF Exit
  <2> QED BY <1>1, <1>4, <2>2, LookupStep, Zenon
<1>6. CASE ~(CurrProc \in Proc /\ ptid[CurrProc] # InvalidTID)
  BY <1>6, PanicStep, Zenon DEF Exit
<1> QED BY <1>5, <1>6, Zenon

\* schedule() switches to the head of the queue and re-queues the running
\* thread, which the bookkeeping deletes if it was pending deletion.
LEMMA SwitchStep ==
  ASSUME KernelConfig, KernelInv, running # NoThread, runnable # << >>,
         Switch(Head(runnable), Enqueue(Tail(runnable), running))
  PROVE  KernelInv'
<1> DEFINE new == Head(runnable)
           q == Enqueue(Tail(runnable), running)
<1> USE DEF KernelInv
<1>1. /\ running \in Thread /\ running \notin Range1(runnable)
      /\ runnable \in Seq(Thread) /\ Distinct(runnable)
  BY Zenon DEF TypeOK, QueueExact, Current
<1>2. /\ new \in Range1(runnable) /\ new \in Thread
      /\ Tail(runnable) \in Seq(Thread) /\ Distinct(Tail(runnable))
      /\ Range1(Tail(runnable)) = Range1(runnable) \ {new}
  BY <1>1, TailLemma, Zenon
<1>3. /\ q \in Seq(Thread) /\ Distinct(q)
      /\ Range1(q) = (Range1(runnable) \ {new}) \cup {running}
  <2>1. q = Append(Tail(runnable), running)
    BY Zenon DEF Enqueue
  <2>2. running \notin Range1(Tail(runnable))
    BY <1>1, <1>2, Zenon
  <2>3. /\ Append(Tail(runnable), running) \in Seq(Thread)
        /\ Distinct(Append(Tail(runnable), running))
        /\ Range1(Append(Tail(runnable), running)) = Range1(Tail(runnable)) \cup {running}
    BY <1>1, <1>2, <2>2, AppendLemma, Zenon
  <2> QED BY <1>2, <2>1, <2>3, Zenon
<1>4. /\ running' = new /\ pending_deletion' = NoThread
      /\ cr3' = IF proc[new] # NoProc THEN proc[new] ELSE cr3
      /\ IF pending_deletion # NoThread
         THEN /\ runnable' = Erase(q, pending_deletion)
              /\ tid_map' = [tid_map EXCEPT ![tid[pending_deletion]] = NoEntry]
              /\ alive' = alive \ {pending_deletion}
         ELSE runnable' = q /\ UNCHANGED <<tid_map, alive>>
      /\ UNCHANGED <<used, tid, is_runnable, proc, tid_counter, curr_proc_override,
                     esp0, ptid, spawned, pc, obj, newproc, prev_pd, panic>>
  BY Zenon DEF Switch, EnterNext, ClearPending, DeleteTask, procVars, localVars
<1> HIDE DEF new, q
<1>5. pending_deletion # NoThread =>
        /\ pending_deletion = running /\ running # BootThread
        /\ running \in alive /\ running \notin Unnamed /\ running \notin Unlisted
  <2>1. running \in alive \ Unlisted
    BY <1>1, Zenon DEF QueueExact, Current
  <2> QED BY <2>1, UnlistedLemma, Zenon DEF ExitInv, BootInv, Building
<1>6. /\ runnable' \in Seq(Thread) /\ Distinct(runnable')
      /\ Range1(runnable') = (Range1(runnable) \ {new}) \cup
                               (IF pending_deletion # NoThread THEN {} ELSE {running})
  <2>1. CASE pending_deletion = NoThread
    BY <1>3, <1>4, <2>1, Zenon
  <2>2. CASE pending_deletion # NoThread
    <3>1. /\ Erase(q, running) \in Seq(Thread) /\ Distinct(Erase(q, running))
          /\ Range1(Erase(q, running)) = Range1(q) \ {running}
      BY <1>1, <1>3, EraseLemma, Zenon
    <3> QED BY <1>1, <1>3, <1>4, <1>5, <2>2, <3>1, Zenon
  <2> QED BY <2>1, <2>2, Zenon
<1>7. TypeOK'
  BY <1>2, <1>4, <1>5, <1>6, ZenonT(30) DEF TypeOK, PageDirectory
<1>8. BootInv'
  <2>1. pending_deletion # NoThread => tid_map[tid[running]] = running
    BY <1>5, Zenon DEF TidMapExact
  <2>2. pc[BootThread] \in {"tid", "push"} /\ pending_deletion # NoThread =>
          obj[BootThread] # running
    BY <1>5, UnlistedLemma, Zenon
  <2>3. ASSUME pc[BootThread] = "tid"
        PROVE  \A i \in TID : tid_map'[i] = obj[BootThread] <=> i = Dec(tid_counter)
    <3>1. CASE pending_deletion = NoThread
      BY <1>4, <2>3, <3>1, Zenon DEF BootInv
    <3>2. CASE pending_deletion # NoThread
      <4>1. tid[running] \in TID /\ obj[BootThread] \in Thread
        BY <1>1, <2>3, Zenon DEF TypeOK, BootInv
      <4>2. \A i \in TID : tid_map'[i] = IF i = tid[running] THEN NoEntry ELSE tid_map[i]
        BY <1>4, <1>5, <3>2, <4>1 DEF TypeOK
      <4> QED BY <2>1, <2>2, <2>3, <3>2, <4>1, <4>2, SMTT(30) DEF BootInv
    <3> QED BY <3>1, <3>2, Zenon
  <2>4. pc[BootThread] \in {"tid", "push"} => obj[BootThread] \in alive'
    BY <1>4, <1>5, <2>2, Zenon DEF BootInv
  <2>5. BootThread \in alive'
    BY <1>1, <1>4, <1>5, Zenon DEF BootInv, TypeOK
  <2>6. Dec(tid_counter') = Dec(tid_counter)
    BY <1>4, Zenon
  <2> QED BY <1>4, <2>3, <2>4, <2>5, <2>6, Zenon DEF BootInv
<1>9. Unlisted' = Unlisted /\ Unnamed' = Unnamed
  BY <1>4, <1>8, UnlistedLemma, UnlistedNext, Zenon
<1>10. QueueExact'
  BY <1>1, <1>2, <1>4, <1>5, <1>6, <1>9, SMTT(30) DEF QueueExact, Current, TypeOK
<1>11. TidMapExact'
  <2>1. CASE pending_deletion = NoThread
    BY <1>4, <1>9, <2>1, Zenon DEF TidMapExact
  <2>2. CASE pending_deletion # NoThread
    <3>1. tid_map[tid[running]] = running /\ tid[running] \in TID
      BY <1>1, <1>5, <2>2, ZenonT(30) DEF TidMapExact, TypeOK
    <3>2. \A i \in TID : tid_map'[i] = IF i = tid[running] THEN NoEntry ELSE tid_map[i]
      BY <1>4, <1>5, <2>2, <3>1, SMTT(30) DEF TypeOK
    <3>3. \A t \in alive' \ Unnamed' : tid_map'[tid'[t]] = t
      <4> SUFFICES ASSUME NEW t \in alive, t # running, t \notin Unnamed
                   PROVE  tid_map'[tid[t]] = t
        BY <1>4, <1>5, <1>9, <2>2, Zenon
      <4>1. tid_map[tid[t]] = t /\ tid[t] \in TID
        BY Zenon DEF TidMapExact, TypeOK
      <4> QED BY <3>1, <3>2, <4>1, Zenon
    <3>4. \A i \in TID : tid_map'[i] \in Thread =>
            tid_map'[i] \in alive' /\ (tid_map'[i] \in Unnamed' \/ tid'[tid_map'[i]] = i)
      <4> SUFFICES ASSUME NEW i \in TID, tid_map'[i] \in Thread
                   PROVE  /\ tid_map'[i] \in alive /\ tid_map'[i] # running
                          /\ tid_map'[i] \in Unnamed \/ tid[tid_map'[i]] = i
        BY <1>4, <1>5, <1>9, <2>2, Zenon
      <4>1. i # tid[running] /\ tid_map'[i] = tid_map[i]
        BY <3>2, Zenon
      <4>2. tid_map[i] \in alive /\ (tid_map[i] \in Unnamed \/ tid[tid_map[i]] = i)
        BY <4>1, Zenon DEF TidMapExact
      <4>3. tid_map[i] # running
        BY <1>5, <2>2, <4>1, Zenon DEF TidMapExact
      <4> QED BY <4>1, <4>2, <4>3, Zenon
    <3>5. tid_map'[InvalidTID] = NoThread
      <4>1. InvalidTID \in TID /\ tid_map[InvalidTID] = NoThread
        BY DEF TidMapExact, TID, InvalidTID
      <4> QED BY <1>1, <3>1, <3>2, <4>1, Zenon
    <3> QED BY <3>3, <3>4, <3>5, Zenon DEF TidMapExact
  <2> QED BY <2>1, <2>2, Zenon
<1>12. ScheduleAssertsHold' /\ LookupAssertsHold' /\ AddressSpaceMatches'
  BY <1>4, Zenon DEF ScheduleAssertsHold, LookupAssertsHold, AddressSpaceMatches, TypeOK
<1>13. BeforeBoot' /\ ExitInv'
  BY <1>2, <1>4, Zenon DEF BeforeBoot, ExitInv
<1>14. ProcInv'
  BY <1>4, <1>9, Zenon DEF ProcInv
<1> QED BY <1>7, <1>8, <1>10, <1>11, <1>12, <1>13, <1>14, Zenon

\* schedule(), called by isr_pit or by destroy_thread(): there always is a task.
LEMMA ScheduleStep ==
  ASSUME KernelConfig, KernelInv, Schedule
  PROVE  KernelInv'
<1>1. CASE running # NoThread /\ runnable # << >>
  BY <1>1, SwitchStep, Zenon DEF Schedule
<1>2. CASE running = NoThread
  <2>1. Panic("running")
    BY <1>2, Zenon DEF Schedule, NoSwitch
  <2> QED BY <1>2, <2>1, PanicStep, Zenon
<1>3. CASE running # NoThread /\ runnable = << >>
  <2>1. BootThread \in alive /\ BootThread \notin Unlisted
    BY <1>3, UnlistedLemma, Zenon DEF KernelInv, BootInv
  <2>2. Range1(runnable) = {}
    BY <1>3 DEF Range1
  <2>3. running = BootThread
    BY <2>1, <2>2, Zenon DEF KernelInv, QueueExact, Current
  <2>4. UNCHANGED vars
    BY <1>3, <2>3, Zenon DEF Schedule, NoSwitch, KernelInv, BootInv
  <2> QED BY <2>4, StutterStep, Zenon
<1> QED BY <1>1, <1>2, <1>3, Zenon

\* Nothing else changes the state, so the invariant is inductive.
LEMMA NextKernelInv ==
  ASSUME KernelConfig, KernelInv, [Next]_vars
  PROVE  KernelInv'
<1>1. CASE Bootstrap
  BY <1>1, BootstrapStep, Zenon
<1>2. CASE Tick
  BY <1>2, ScheduleStep, Zenon DEF Tick
<1>3. ASSUME NEW t \in Thread, NEW p \in Proc, OverrideCurrProc(t, p)
      PROVE  KernelInv'
  BY <1>3, OverrideStep, Zenon
<1>4. ASSUME NEW t \in Thread, NEW u \in Thread, EmplaceTid(t, u) \/ DestroyThread(t, u)
      PROVE  KernelInv'
  BY <1>4, EmplaceTidStep, DestroyThreadStep, Zenon
<1>5. ASSUME NEW t \in Thread,
             \/ EnterContext(t) \/ LeaveContext(t)
             \/ \E loaded \in BOOLEAN : ResetOverride(t, loaded)
      PROVE  KernelInv'
  BY <1>5, ContextStep, Zenon
<1>6. ASSUME NEW t \in Thread,
             \/ AssignTid(t) \/ PushBack(t) \/ StoreTid(t) \/ JumpToUserspace(t)
             \/ Exit(t) \/ DestroyCurrent(t) \/ MarkPending(t)
      PROVE  KernelInv'
  BY <1>6, AssignTidStep, PushBackStep, StoreTidStep, JumpStep, ExitStep,
     DestroyCurrentStep, MarkPendingStep, Zenon
<1>7. ASSUME NEW t \in Thread, DestroyOther(t) \/ DropTid(t) \/ FreeTask(t)
      PROVE  KernelInv'
  BY <1>7, Zenon DEF DestroyOther, DropTid, FreeTask, At, KernelInv, ExitInv, BootInv
<1>8. ASSUME NEW t \in Thread, ScheduleAway(t)
      PROVE  KernelInv'
  BY <1>8, ScheduleStep, Zenon DEF ScheduleAway
<1>9. CASE UNCHANGED vars
  BY <1>9, StutterStep, Zenon
<1> QED BY <1>1, <1>2, <1>3, <1>4, <1>5, <1>6, <1>7, <1>8, <1>9, Zenon
       DEF Next, ThreadStep, ConstructorStep, NewThreadStep, DestroyStep

-----------------------------------------------------------------------------
\* KernelInv is an invariant of the kernel as entry() uses the scheduler: one
\* creator, one process, no thread destroying another.
THEOREM KernelInvariant == ASSUME KernelConfig PROVE Spec => []KernelInv
<1>1. Init => KernelInv
  BY InitKernelInv, Zenon
<1>2. KernelInv /\ [Next]_vars => KernelInv'
  BY NextKernelInv, Zenon
<1> QED BY <1>1, <1>2, PTL DEF Spec

\* The scheduler's state stays well typed.
THEOREM SchedulerTypes == ASSUME KernelConfig PROVE Spec => []TypeOK
<1>1. KernelInv => TypeOK
  BY Zenon DEF KernelInv
<1> QED BY <1>1, KernelInvariant, PTL

\* No published live thread is ever lost from the run queue, duplicated on it
\* or left on it after its deletion, for any number of threads and TIDs.
THEOREM QueueIsExact == ASSUME KernelConfig PROVE Spec => []QueueExact
<1>1. KernelInv => QueueExact
  BY Zenon DEF KernelInv
<1> QED BY <1>1, KernelInvariant, PTL

\* A live thread is found under its TID and nothing else is found, however
\* often the TID counter wraps.
THEOREM TidMapIsExact == ASSUME KernelConfig PROVE Spec => []TidMapExact
<1>1. KernelInv => TidMapExact
  BY Zenon DEF KernelInv
<1> QED BY <1>1, KernelInvariant, PTL

\* Once bootstrap() has run no assertion of schedule() fails: a thread is running,
\* there is a task to switch to, and two threads are never pending deletion.
THEOREM ScheduleAssertions == ASSUME KernelConfig PROVE Spec => []ScheduleAssertsHold
<1>1. KernelInv => ScheduleAssertsHold
  BY Zenon DEF KernelInv
<1> QED BY <1>1, KernelInvariant, PTL

\* A TID passed to destroy_thread() is found, and the override is never nested.
THEOREM LookupAssertions == ASSUME KernelConfig PROVE Spec => []LookupAssertsHold
<1>1. KernelInv => LookupAssertsHold
  BY Zenon DEF KernelInv
<1> QED BY <1>1, KernelInvariant, PTL

\* The process's thread only ever runs in its own address space.
THEOREM OwnAddressSpace == ASSUME KernelConfig PROVE Spec => []AddressSpaceMatches
<1>1. KernelInv => AddressSpaceMatches
  BY Zenon DEF KernelInv
<1> QED BY <1>1, KernelInvariant, PTL

-----------------------------------------------------------------------------
\* The three ways a step can leave the queue: alone, extended at the back, or
\* with its head taken and the running thread, unless deleted, at the back.
LEMMA QueueMoves ==
  ASSUME KernelConfig, KernelInv, [Next]_vars
  PROVE  \/ runnable' = runnable
         \/ \E x \in Thread : runnable' = Append(runnable, x)
         \/ /\ runnable # << >>
            /\ \/ runnable' = Append(Tail(runnable), running)
               \/ runnable' = Erase(Append(Tail(runnable), running), running)
<1>1. ASSUME Schedule PROVE \/ runnable' = runnable
                            \/ /\ runnable # << >>
                               /\ \/ runnable' = Append(Tail(runnable), running)
                                  \/ runnable' = Erase(Append(Tail(runnable), running), running)
  <2>1. pending_deletion # NoThread => pending_deletion = running
    BY Zenon DEF KernelInv, ExitInv
  <2> QED BY <1>1, <2>1, Zenon
            DEF Schedule, Switch, DeleteTask, NoSwitch, Panic, Enqueue, vars,
             schedVars
<1>2. ASSUME NEW t \in Thread, PushBack(t)
      PROVE  \E x \in Thread : runnable' = Append(runnable, x)
  <2>1. obj[t] \in Thread
    BY <1>2, Zenon DEF PushBack, At, KernelInv, TypeOK, BootInv, Building
  <2> QED BY <1>2, <2>1, Zenon DEF PushBack, Enqueue
<1>3. ASSUME NEW t \in Thread, ConstructorStep(t) \/ JumpToUserspace(t)
      PROVE  runnable' = runnable
  BY <1>3, Zenon
    DEF ConstructorStep, OverrideCurrProc, EnterContext, LeaveContext, ResetOverride,
     JumpToUserspace, Panic, Goto, vars, threadVars, schedVars
<1>4. ASSUME NEW t \in Thread,
             \/ \E u \in Thread : EmplaceTid(t, u)
             \/ AssignTid(t) \/ StoreTid(t)
      PROVE  runnable' = runnable
  BY <1>4, Zenon DEF EmplaceTid, AssignTid, StoreTid, Panic, Goto, vars, threadVars, schedVars
<1>5. ASSUME NEW t \in Thread,
             \/ \E x \in Thread : DestroyThread(t, x)
             \/ Exit(t) \/ DestroyCurrent(t) \/ MarkPending(t)
      PROVE  runnable' = runnable
  BY <1>5, Zenon
    DEF DestroyThread, LookupThread, Exit, DestroyCurrent, MarkPending, Panic, Goto,
     vars, threadVars, schedVars
<1>6. ASSUME NEW t \in Thread PROVE ~(DestroyOther(t) \/ DropTid(t) \/ FreeTask(t))
  BY Zenon DEF DestroyOther, DropTid, FreeTask, At, KernelInv, ExitInv, BootInv
<1>7. Bootstrap \/ UNCHANGED vars => runnable' = runnable
  BY Zenon DEF Bootstrap, vars, schedVars
<1> QED BY <1>1, <1>2, <1>3, <1>4, <1>5, <1>6, <1>7, Zenon
       DEF Next, ThreadStep, NewThreadStep, DestroyStep, Tick, ScheduleAway

\* Round robin: whatever threads are created, exit or are preempted, nobody
\* overtakes a waiting thread.
THEOREM RoundRobin == ASSUME KernelConfig PROVE Spec => NoOvertaking
<1> DEFINE Kept == \A t \in Range1(runnable) \cap Range1(runnable') :
                     Position(runnable', t) <= Position(runnable, t)
<1>1. KernelInv /\ KernelInv' /\ [Next]_vars => [Kept]_vars
  <2> SUFFICES ASSUME KernelInv, KernelInv', [Next]_vars,
                      NEW t \in Range1(runnable) \cap Range1(runnable')
               PROVE  Position(runnable', t) <= Position(runnable, t)
    BY Zenon
  <2>1. /\ runnable \in Seq(Thread) /\ Distinct(runnable)
        /\ runnable' \in Seq(Thread) /\ Distinct(runnable')
    BY Zenon DEF KernelInv, TypeOK, QueueExact
  <2>2. CASE runnable' = runnable
    BY <2>1, <2>2, PlaceLemma
  <2>3. CASE \E x \in Thread : runnable' = Append(runnable, x)
    <3>1. PICK x \in Thread : runnable' = Append(runnable, x)
      BY <2>3, Zenon
    <3>2. /\ Len(runnable') = Len(runnable) + 1 /\ Len(runnable) \in Nat
          /\ \A i \in 1..Len(runnable) : runnable'[i] = runnable[i]
      BY <2>1, <3>1
    <3>3. \A i \in 1..Len(runnable) : i \in 1..Len(runnable') /\ i <= i
      BY <3>2
    <3> QED BY <2>1, <3>2, <3>3, PlaceLemma, Zenon
  <2>4. CASE /\ runnable # << >>
             /\ \/ runnable' = Append(Tail(runnable), running)
                \/ runnable' = Erase(Append(Tail(runnable), running), running)
    <3>1. running \in Thread /\ running \notin Range1(runnable)
      <4>1. \A x \in Range1(runnable) : x \in alive
        BY Zenon DEF KernelInv, QueueExact
      <4>2. alive = {} => Range1(runnable) = {}
        BY <4>1, Zenon
      <4>3. 1 \in 1..Len(runnable)
        BY <2>1, <2>4
      <4>4. alive # {}
        BY <4>2, <4>3, Zenon DEF Range1
      <4>5. running \in Thread
        BY <4>4, Zenon DEF KernelInv, TypeOK, BeforeBoot
      <4> QED BY <4>5, Zenon DEF KernelInv, QueueExact, Current
    <3> QED BY <2>1, <2>4, <3>1, RotateLemma, Zenon
  <2> QED BY <2>2, <2>3, <2>4, QueueMoves, Zenon
<1> QED BY <1>1, KernelInvariant, PTL DEF Spec, NoOvertaking

-----------------------------------------------------------------------------
\* If KernelThread::proc of the boot thread starts out null, the constructor of a
\* process loads its image in that process's address space and on its behalf,
\* wherever it is preempted and whatever runs meanwhile.
THEOREM ConstructorKeepsContext ==
  ASSUME KernelConfig, BootProc = {NoProc}
  PROVE  Spec => []ConstructorContext
<1>1. Init => InContext
  BY Zenon DEF Init, InContext
<1>2. KernelInv /\ InContext => ConstructorContext
  <2> SUFFICES ASSUME KernelInv, InContext, running # NoThread, pc[running] = "ctor"
               PROVE  cr3 = newproc[running] /\ CurrProc = newproc[running]
    BY Zenon DEF ConstructorContext
  <2>1. running = BootThread
    BY Zenon DEF KernelInv, TypeOK, BootInv, Building
  <2>2. newproc[BootThread] # NoProc
    BY <2>1, Zenon DEF KernelInv, ProcInv
  <2> QED BY <2>1, <2>2, Zenon DEF InContext, CurrProc
<1> QED BY <1>1, <1>2, KernelInvariant, InContextNext, PTL DEF Spec
=============================================================================
