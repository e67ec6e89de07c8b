----------------------------- MODULE Scheduler -----------------------------
(***************************************************************************)
(* The preemptive round-robin scheduler of the kernel (sched/kthread),     *)
(* with the code that runs on top of it and shares its state: the timer    *)
(* interrupt (isr_pit), the Process constructor, jump_to_userspace and     *)
(* Process::exit.                                                          *)
(*                                                                         *)
(* The machine has one CPU.  mutex_lock()/mutex_unlock() are cli/sti, so   *)
(* schedule() is one atomic step from its cli to the sti that ends         *)
(* post_context_switch_bookkeeping() (executed by the thread switched to,  *)
(* be it resumed in schedule() or started in .Linit_thread).  Everything   *)
(* else runs with interrupts enabled: exceptions and syscalls enter        *)
(* through trap gates.  A tick can therefore fall between any two of the   *)
(* other steps, and every function that is not under the mutex is cut      *)
(* into the steps at which the scheduler's state is read or written.       *)
(*                                                                         *)
(* An operation of the run queue or of tid_map is one step, and so is the  *)
(* loop of assign_next_tid() that probes the map for a free key; module    *)
(* RunQueue is about a tick inside push_back().                            *)
(*                                                                         *)
(* kfree() is a no-op, so the address of a KernelThread is never handed    *)
(* out twice: Thread is the set of all objects ever allocated.             *)
(***************************************************************************)
EXTENDS Naturals, Sequences, FiniteSets, ListOps

CONSTANTS
  Thread,       \* KernelThread objects
  BootThread,   \* the thread that calls bootstrap() and becomes the idle task
  NoThread,     \* nullptr (a KernelThread *)
  NoEntry,      \* no entry for this key in tid_map
  Proc,         \* Process objects
  NoProc,       \* nullptr (a Process *)
  KernelPD,     \* the page directory set up by the boot loader
  BootProc,     \* values KernelThread::proc may hold when never assigned
  MaxTID,       \* numeric_limits<ThreadID>::max(), 65535 in the code
  Creators,     \* threads whose code calls new_thread() or constructs a Process
  Killers       \* threads whose code calls destroy_thread() on another thread

ASSUME ThreadAssumption == BootThread \in Thread /\ NoThread \notin Thread
                             /\ NoEntry \notin Thread \cup {NoThread}
ASSUME ProcAssumption == NoProc \notin Proc /\ KernelPD \notin Proc
                           /\ NoProc \in BootProc
                           /\ BootProc \cap Proc = {} /\ KernelPD \notin BootProc
ASSUME TIDAssumption == MaxTID \in Nat \ {0}

VARIABLES
  used,               \* objects allocated so far
  alive,              \* objects allocated and not deleted
  tid,                \* KernelThread::tid
  is_runnable,        \* KernelThread::runnable
  proc,               \* KernelThread::proc
  running,            \* Scheduler::running
  runnable,           \* Scheduler::runnable, the list as a sequence
  pending_deletion,   \* Scheduler::pending_deletion
  tid_counter,        \* Scheduler::tid_counter
  tid_map,            \* Scheduler::tid_map
  curr_proc_override, \* Scheduler::curr_proc_override
  cr3,                \* the page directory in use
  esp0,               \* owner of the kernel stack in the TSS
  ptid,               \* Process::tid
  spawned,            \* processes whose constructor has begun
  pc,                 \* where each thread is in its own code
  obj,                \* local KernelThread * of new_thread/destroy_thread
  newproc,            \* local: the Process this thread is constructing
  prev_pd,            \* ScopedEnterProcContext::prev_pd
  panic               \* the ASSERT that halted the machine, or "none"

threadVars == <<used, alive, tid, is_runnable, proc>>
schedVars  == <<running, runnable, pending_deletion>>
tidVars    == <<tid_counter, tid_map>>
spaceVars  == <<curr_proc_override, cr3>>
procVars   == <<esp0, ptid, spawned>>
localVars  == <<pc, obj, newproc, prev_pd>>
vars == <<threadVars, schedVars, tidVars, spaceVars, procVars, localVars, panic>>

----------------------------------------------------------------------------
TID == 0..MaxTID
InvalidTID == MaxTID

\* Unsigned arithmetic of the width of ThreadID.
Inc(i) == IF i = MaxTID THEN 0 ELSE i + 1
Dec(i) == IF i = 0 THEN MaxTID ELSE i - 1

PageDirectory == Proc \cup {KernelPD} \cup (BootProc \ {NoProc})

Label == {"code",                             \* a kernel thread's own code
          "ctx", "ctor", "unctx",             \* Process::Process
          "spawn", "tid", "push", "ret",      \* new_thread
          "start", "user",                    \* a process's thread
          "destroy", "dying", "leave",        \* destroy_thread, of itself
          "erased", "dropped"}                \* delete_task, of another thread
Assertion == {"running", "new_task", "pending", "tid_full", "exit_tid",
              "no_thread", "override", "init"}

TypeOK ==
  /\ used \subseteq Thread /\ alive \subseteq used
  /\ tid \in [Thread -> TID]
  /\ is_runnable \in [Thread -> BOOLEAN]
  /\ proc \in [Thread -> Proc \cup BootProc]
  /\ running \in Thread \cup {NoThread}
  /\ runnable \in Seq(Thread)
  /\ pending_deletion \in Thread \cup {NoThread}
  /\ tid_counter \in TID
  /\ tid_map \in [TID -> Thread \cup {NoThread, NoEntry}]
  /\ curr_proc_override \in Proc \cup {NoProc}
  /\ cr3 \in PageDirectory
  /\ esp0 \in Thread \cup {NoThread}
  /\ ptid \in [Proc -> TID]
  /\ spawned \subseteq Proc
  /\ pc \in [Thread -> Label]
  /\ obj \in [Thread -> Thread \cup {NoThread}]
  /\ newproc \in [Thread -> Proc \cup {NoProc}]
  /\ prev_pd \in [Thread -> PageDirectory]
  /\ panic \in Assertion \cup {"none"}

\* entry() has stored ::scheduler, interrupts are on, bootstrap() has not run.
Init ==
  /\ used = {} /\ alive = {}
  /\ tid = [t \in Thread |-> InvalidTID]
  /\ is_runnable = [t \in Thread |-> TRUE]
  /\ proc = [t \in Thread |-> NoProc]
  /\ running = NoThread
  /\ runnable = << >>
  /\ pending_deletion = NoThread
  /\ tid_counter = 0
  /\ tid_map = [i \in TID |-> IF i = InvalidTID THEN NoThread ELSE NoEntry]
  /\ curr_proc_override = NoProc
  /\ cr3 = KernelPD
  /\ esp0 = NoThread
  /\ ptid = [p \in Proc |-> InvalidTID]
  /\ spawned = {}
  /\ pc = [t \in Thread |-> "code"]
  /\ obj = [t \in Thread |-> NoThread]
  /\ newproc = [t \in Thread |-> NoProc]
  /\ prev_pd = [t \in Thread |-> KernelPD]
  /\ panic = "none"

----------------------------------------------------------------------------
\* push_back(), and the faulty variant that inserts at the front.
Enqueue_Front(q, x) == <<x>> \o q
Enqueue(q, x) == Append(q, x)

\* The state a thread is in: the CPU is executing it and it is at label l.
At(t, l) == panic = "none" /\ running = t /\ pc[t] = l

Goto(t, l) == pc' = [pc EXCEPT ![t] = l]

Panic(a) ==
  /\ panic' = a
  /\ UNCHANGED <<threadVars, schedVars, tidVars, spaceVars, procVars, localVars>>

CurrProc ==
  IF curr_proc_override # NoProc THEN curr_proc_override
  ELSE IF running # NoThread THEN proc[running] ELSE NoProc

\* Faulty variants: the node is not unlinked; nothing is.
DeleteTask_Nop(x, q) == runnable' = q /\ UNCHANGED <<tid_map, alive>>
DeleteTask_NoErase(x, q) ==
  /\ runnable' = q
  /\ tid_map' = [tid_map EXCEPT ![tid[x]] = NoEntry]
  /\ alive' = alive \ {x}

\* delete_task(x) under the mutex, on the queue q: unlink, drop the TID, free.
DeleteTask(x, q) ==
  /\ runnable' = Erase(q, x)
  /\ tid_map' = [tid_map EXCEPT ![tid[x]] = NoEntry]
  /\ alive' = alive \ {x}

----------------------------------------------------------------------------
\* schedule(), from cli to sti, and the bookkeeping done by the next thread.
\* The switch counter and the statistics printed from it are left out.
\* Faulty variants: CR3 is never loaded; CR3 is reset for a kernel thread.
EnterNext_Never(new) == UNCHANGED cr3
EnterNext_KernelPD(new) ==
  cr3' = IF proc[new] # NoProc THEN proc[new] ELSE KernelPD

EnterNext(new) ==
  cr3' = IF proc[new] # NoProc THEN proc[new] ELSE cr3

ClearPending_Keep == UNCHANGED pending_deletion
ClearPending == pending_deletion' = NoThread

Switch(new, q) ==
  /\ running' = new
  /\ EnterNext(new)
  /\ ClearPending
  /\ IF pending_deletion # NoThread
     THEN DeleteTask(pending_deletion, q)
     ELSE runnable' = q /\ UNCHANGED <<tid_map, alive>>
  /\ UNCHANGED <<used, tid, is_runnable, proc, tid_counter, curr_proc_override,
                 procVars, localVars, panic>>

NoSwitch ==
  IF running = NoThread THEN Panic("running")
  ELSE IF is_runnable[running] THEN UNCHANGED vars
  ELSE Panic("new_task")

Schedule ==
  IF running # NoThread /\ runnable # << >>
  THEN Switch(Head(runnable), Enqueue(Tail(runnable), running))
  ELSE NoSwitch

\* isr_pit -> do_schedule, at any point where interrupts are enabled.
Tick == panic = "none" /\ Schedule

----------------------------------------------------------------------------
\* bootstrap(): the running code becomes a KernelThread; proc is not assigned.
Bootstrap ==
  /\ panic = "none" /\ running = NoThread
  /\ running' = BootThread
  /\ used' = {BootThread} /\ alive' = {BootThread}
  /\ \E p \in BootProc : proc' = [proc EXCEPT ![BootThread] = p]
  /\ tid' = [tid EXCEPT ![BootThread] = tid_counter]
  /\ tid_map' = [tid_map EXCEPT ![tid_counter] = BootThread]
  /\ tid_counter' = Inc(tid_counter)
  /\ UNCHANGED <<is_runnable, runnable, pending_deletion, spaceVars, procVars,
                 localVars, panic>>

----------------------------------------------------------------------------
\* Process::Process.  ScopedEnterProcContext sets the override, then CR3; the
\* ELF image is loaded in that context; its destructor undoes both in the
\* opposite order; then the process's thread is created.
OverrideCurrProc(t, p) ==
  /\ At(t, "code") /\ t \in Creators /\ p \notin spawned
  /\ IF curr_proc_override # NoProc
     THEN Panic("override")
     ELSE
        /\ curr_proc_override' = p
        /\ prev_pd' = [prev_pd EXCEPT ![t] = cr3]
        /\ newproc' = [newproc EXCEPT ![t] = p]
        /\ spawned' = spawned \cup {p}
        /\ Goto(t, "ctx")
        /\ UNCHANGED <<threadVars, schedVars, tidVars, cr3, esp0, ptid, obj, panic>>

EnterContext(t) ==
  /\ At(t, "ctx")
  /\ cr3' = newproc[t]
  /\ Goto(t, "ctor")
  /\ UNCHANGED <<threadVars, schedVars, tidVars, curr_proc_override, procVars,
                 obj, newproc, prev_pd, panic>>

LeaveContext(t) ==
  /\ At(t, "ctor")
  /\ cr3' = prev_pd[t]
  /\ Goto(t, "unctx")
  /\ UNCHANGED <<threadVars, schedVars, tidVars, curr_proc_override, procVars,
                 obj, newproc, prev_pd, panic>>

\* map_elf_segments() may have failed: the constructor returns early and
\* entry() asserts on the result.
ResetOverride(t, loaded) ==
  /\ At(t, "unctx")
  /\ curr_proc_override' = NoProc
  /\ Goto(t, IF loaded THEN "spawn" ELSE "unctx")
  /\ panic' = IF loaded THEN "none" ELSE "init"
  /\ UNCHANGED <<threadVars, schedVars, tidVars, cr3, procVars, obj, newproc,
                 prev_pd>>

----------------------------------------------------------------------------
\* new_thread().  assign_next_tid() asserts on the size of the map, then takes
\* the first free key at or after tid_counter, and computes the thread's TID
\* from the counter afterwards.
FreeTID == {i \in TID : tid_map[i] = NoEntry}
Ahead(i) == (i + MaxTID + 1 - tid_counter) % (MaxTID + 1)
\* Faulty variant: the key is overwritten instead of probed for.
IsNextTID_NoProbe(i) == i = tid_counter
IsNextTID(i) == i \in FreeTID /\ \A j \in FreeTID : Ahead(i) <= Ahead(j)
TidMapFull == Cardinality(TID \ FreeTID) = MaxTID

EmplaceTid(t, u) ==
  /\ At(t, "spawn") \/ (At(t, "code") /\ t \in Creators)
  /\ u \notin used
  /\ IF TidMapFull
     THEN Panic("tid_full")
     ELSE
        /\ \E i \in TID :
             /\ IsNextTID(i)
             /\ tid_map' = [tid_map EXCEPT ![i] = u]
             /\ tid_counter' = Inc(i)
        /\ used' = used \cup {u} /\ alive' = alive \cup {u}
        /\ is_runnable' = [is_runnable EXCEPT ![u] = TRUE]
        /\ obj' = [obj EXCEPT ![t] = u]
        /\ Goto(t, "tid")
        /\ UNCHANGED <<tid, proc, schedVars, spaceVars, procVars, newproc,
                       prev_pd, panic>>

NewTid == Dec(tid_counter)

AssignTid(t) ==
  /\ At(t, "tid")
  /\ tid' = [tid EXCEPT ![obj[t]] = NewTid]
  /\ Goto(t, "push")
  /\ UNCHANGED <<used, alive, is_runnable, proc, schedVars, tidVars, spaceVars,
                 procVars, obj, newproc, prev_pd, panic>>

PushBack(t) ==
  /\ At(t, "push")
  /\ proc' = [proc EXCEPT ![obj[t]] = newproc[t]]
  /\ runnable' = Enqueue(runnable, obj[t])
  /\ pc' = [pc EXCEPT ![t] = "ret",
                      ![obj[t]] = IF newproc[t] = NoProc THEN "code" ELSE "start"]
  /\ UNCHANGED <<used, alive, tid, is_runnable, running, pending_deletion,
                 tidVars, spaceVars, procVars, obj, newproc, prev_pd, panic>>

\* new_thread() returns; the Process constructor stores the TID.
StoreTid(t) ==
  /\ At(t, "ret")
  /\ ptid' = IF newproc[t] = NoProc THEN ptid
             ELSE [ptid EXCEPT ![newproc[t]] = tid[obj[t]]]
  /\ newproc' = [newproc EXCEPT ![t] = NoProc]
  /\ obj' = [obj EXCEPT ![t] = NoThread]
  /\ Goto(t, "code")
  /\ UNCHANGED <<threadVars, schedVars, tidVars, spaceVars, esp0, spawned,
                 prev_pd, panic>>

----------------------------------------------------------------------------
\* jump_to_userspace(): the first thing a process's thread does.
JumpToUserspace(t) ==
  /\ At(t, "start")
  /\ esp0' = t
  /\ Goto(t, "user")
  /\ UNCHANGED <<threadVars, schedVars, tidVars, spaceVars, ptid, spawned, obj,
                 newproc, prev_pd, panic>>

----------------------------------------------------------------------------
\* destroy_thread(tid): look the TID up, then destroy_thread(thread).
LookupThread(t, i) ==
  IF tid_map[i] \notin Thread
  THEN Panic("no_thread")
  ELSE
     /\ obj' = [obj EXCEPT ![t] = tid_map[i]]
     /\ Goto(t, "destroy")
     /\ UNCHANGED <<threadVars, schedVars, tidVars, spaceVars, procVars, newproc,
                    prev_pd, panic>>

\* A kernel thread passes its own TID, or one new_thread() has returned; the
\* idle task is never destroyed (entry() loops for ever).
DestroyThread(t, x) ==
  /\ At(t, "code") /\ x # BootThread
  /\ x = t \/ (t \in Killers /\ x \in Range1(runnable))
  /\ LookupThread(t, tid[x])

\* Process::exit(), from the exit syscall or the page-fault handler.
Exit(t) ==
  /\ At(t, "user")
  /\ IF CurrProc \in Proc /\ ptid[CurrProc] # InvalidTID
     THEN LookupThread(t, ptid[CurrProc])
     ELSE Panic("exit_tid")

DestroyCurrent(t) ==
  /\ At(t, "destroy") /\ obj[t] = t
  /\ is_runnable' = [is_runnable EXCEPT ![t] = FALSE]
  /\ Goto(t, "dying")
  /\ UNCHANGED <<used, alive, tid, proc, schedVars, tidVars, spaceVars, procVars,
                 obj, newproc, prev_pd, panic>>

\* delete_task() of another thread, which runs without the mutex: a tick can fall
\* after erase(), after tid_map.erase() and after the two deletes.
DestroyOther(t) ==
  /\ At(t, "destroy") /\ obj[t] # t
  /\ runnable' = Erase(runnable, obj[t])
  /\ Goto(t, "erased")
  /\ UNCHANGED <<threadVars, running, pending_deletion, tidVars, spaceVars, procVars,
                 obj, newproc, prev_pd, panic>>

\* Faulty variant: the entry is left in the map.
DropTid_Not(t) ==
  /\ At(t, "erased")
  /\ Goto(t, "dropped")
  /\ UNCHANGED <<threadVars, schedVars, tidVars, spaceVars, procVars, obj, newproc,
                 prev_pd, panic>>

DropTid(t) ==
  /\ At(t, "erased")
  /\ tid_map' = [tid_map EXCEPT ![tid[obj[t]]] = NoEntry]
  /\ Goto(t, "dropped")
  /\ UNCHANGED <<threadVars, schedVars, tid_counter, spaceVars, procVars, obj, newproc,
                 prev_pd, panic>>

FreeTask(t) ==
  /\ At(t, "dropped")
  /\ alive' = alive \ {obj[t]}
  /\ Goto(t, IF proc[t] \in Proc THEN "user" ELSE "code")
  /\ UNCHANGED <<used, tid, is_runnable, proc, schedVars, tidVars, spaceVars, procVars,
                 obj, newproc, prev_pd, panic>>

MarkPending(t) ==
  /\ At(t, "dying")
  /\ IF pending_deletion # NoThread
     THEN Panic("pending")
     ELSE
        /\ pending_deletion' = t
        /\ Goto(t, "leave")
        /\ UNCHANGED <<threadVars, running, runnable, tidVars, spaceVars, procVars,
                       obj, newproc, prev_pd, panic>>

ScheduleAway(t) == At(t, "leave") /\ Schedule

----------------------------------------------------------------------------
NewThreadStep(t) ==
  \/ \E u \in Thread : EmplaceTid(t, u)
  \/ AssignTid(t)
  \/ PushBack(t)
  \/ StoreTid(t)

ConstructorStep(t) ==
  \/ \E p \in Proc : OverrideCurrProc(t, p)
  \/ EnterContext(t)
  \/ LeaveContext(t)
  \/ \E loaded \in BOOLEAN : ResetOverride(t, loaded)

DestroyStep(t) ==
  \/ \E x \in Thread : DestroyThread(t, x)
  \/ Exit(t)
  \/ DestroyCurrent(t)
  \/ DestroyOther(t) \/ DropTid(t) \/ FreeTask(t)
  \/ MarkPending(t)
  \/ ScheduleAway(t)

ThreadStep(t) ==
  \/ ConstructorStep(t)
  \/ NewThreadStep(t)
  \/ JumpToUserspace(t)
  \/ DestroyStep(t)

Next == Bootstrap \/ Tick \/ \E t \in Thread : ThreadStep(t)

Spec == Init /\ [][Next]_vars

\* The timer keeps ticking, and the time slice is longer than the few
\* instructions that finish an exit: a thread that is given the CPU again and
\* again gets through them.
FinishExit(t) == DestroyCurrent(t) \/ MarkPending(t) \/ ScheduleAway(t)
FairSpec == Spec /\ WF_vars(Tick) /\ \A t \in Thread : SF_vars(FinishExit(t))

----------------------------------------------------------------------------
\* Objects that new_thread() has not yet put on the queue, or that delete_task()
\* has taken off it; and those that do not carry their TID yet, or whose entry
\* delete_task() has dropped.
Unlisted == {obj[t] : t \in {u \in Thread : pc[u] \in {"tid", "push", "erased", "dropped"}}}
Unnamed == {obj[t] : t \in {u \in Thread : pc[u] \in {"tid", "dropped"}}}
Current == {running} \ {NoThread}

\* Every live thread that new_thread() or bootstrap() has published is either
\* the running one or on the run queue exactly once, and no deleted thread is
\* either, although schedule() re-queues the thread that is exiting and the
\* next thread deletes it (kthread.cc:106-108, 140-143, 182-194), and although a
\* thread that is deleted by another may run, or exit first, up to the moment its
\* node is unlinked (kthread.cc:161-166).
QueueExact ==
  /\ Distinct(runnable)
  /\ Current \cap Range1(runnable) = {}
  /\ Current \cup Range1(runnable) = alive \ Unlisted

\* "Thread ID; will be automatically assigned and unique over the lifetime of
\* thread" (kthread.h:62): tid_map leads from the TID of each live thread to
\* that thread, so TIDs are unique, also after the counter has wrapped; no entry
\* outlives its thread; the dummy entry at InvalidTID is never taken.
TidMapExact ==
  /\ \A t \in alive \ Unnamed : tid_map[tid[t]] = t
  /\ \A i \in TID : tid_map[i] \in Thread =>
       /\ tid_map[i] \in alive
       /\ tid_map[i] \in Unnamed \/ tid[tid_map[i]] = i
  /\ tid_map[InvalidTID] = NoThread

\* Once bootstrap() has run, no assertion of schedule() or destroy_thread() fails:
\* a thread is running (kthread.cc:88), there is always a task to switch to
\* ("there is a dummy (always-schedulable) task", kthread.cc:93) and never two
\* threads are pending deletion (kthread.cc:173), wherever ticks fall.  Before it
\* ASSERT(running) does fail, on a tick between the store of ::scheduler
\* (entry.cc:108) and bootstrap(): no thread exists yet.
ScheduleAssertsHold ==
  /\ panic \notin {"new_task", "pending"}
  /\ panic = "running" => used = {}

\* The assertions on TID lookup (kthread.h:112) and on the nesting of
\* override_curr_proc (kthread.h:126) never fail.
LookupAssertsHold == panic \notin {"no_thread", "override"}

\* A process's thread only ever executes in its own address space: schedule()
\* leaves CR3 alone when it switches to a kernel thread (kthread.cc:111), and
\* the Process constructor changes it, yet CR3 is right whenever it matters.
AddressSpaceMatches ==
  running # NoThread /\ proc[running] \in Proc => cr3 = proc[running]

\* While the Process constructor loads the ELF image it is in the new process's
\* context, "because the process of loading the ELF image may involve writing to
\* the userspace-mapped pages of the new process" (process.cc:96), even if it
\* has been preempted and resumed.
ConstructorContext ==
  running # NoThread /\ pc[running] = "ctor"
    => cr3 = newproc[running] /\ CurrProc = newproc[running]

\* A process that exits has been given its TID: ASSERT(tid != InvalidTID),
\* process.cc:278.
ExitHasTid == panic # "exit_tid"

\* schedule() loads only page directories of processes or the boot one: the
\* proc of a thread "can be nullptr if this is a purely kernel thread"
\* (kthread.h:66) and is never read unassigned.
KnownPageDirectory == cr3 \in Proc \cup {KernelPD}

----------------------------------------------------------------------------

\* Round robin: no step ever lets another thread overtake one that waits; in
\* particular new_thread() "gets added to the end of the round-robin order"
\* (test_kthread.cc:78) and the preempted thread goes to the back.
NoOvertaking ==
  [][\A t \in Range1(runnable) \cap Range1(runnable') :
        Position(runnable', t) <= Position(runnable, t)]_vars

\* Every thread on the run queue gets the CPU, or is destroyed, or the machine
\* has halted on an assertion.
EventuallyRuns ==
  \A t \in Thread :
    t \in Range1(runnable) ~> (running = t \/ t \notin alive \/ panic # "none")

\* A thread that has begun to destroy itself is reclaimed, wherever it was
\* preempted on the way.
ExitCompletes ==
  \A t \in Thread :
    (t \in alive /\ pc[t] = "dying") ~> (t \notin alive \/ panic # "none")

----------------------------------------------------------------------------
(***************************************************************************)
(* The inductive invariant behind QueueExact, TidMapExact, the assertions  *)
(* and AddressSpaceMatches, for the way entry() uses the scheduler: only   *)
(* the boot thread creates threads, no thread destroys another, and one    *)
(* process is created.                                                     *)
(***************************************************************************)
KernelConfig ==
  /\ Creators \subseteq {BootThread} /\ Killers = {}
  /\ \A p, q \in Proc : p = q

Building == {"ctx", "ctor", "unctx", "spawn", "tid", "push", "ret"}

\* Nothing exists before bootstrap().
BeforeBoot ==
  running = NoThread =>
    /\ used = {} /\ tid_counter = 0
    /\ \A i \in TID : tid_map[i] = IF i = InvalidTID THEN NoThread ELSE NoEntry
    /\ pc[BootThread] = "code"

\* The boot thread is the only creator, never exits and has no process; no thread
\* deletes another; the object the boot thread is building is live, is not
\* itself, and is entered in tid_map.
BootInv ==
  /\ \A t \in Thread : pc[t] \in Building => t = BootThread
  /\ \A t \in Thread : pc[t] \notin {"erased", "dropped"}
  /\ running # NoThread => BootThread \in alive
  /\ pc[BootThread] \in Building \cup {"code"}
  /\ is_runnable[BootThread]
  /\ proc[BootThread] \notin Proc
  /\ pc[BootThread] \in {"tid", "push"} =>
       obj[BootThread] \in alive /\ obj[BootThread] # BootThread
  /\ pc[BootThread] = "ret" => obj[BootThread] \in Thread
  /\ pc[BootThread] = "tid" =>
       \A i \in TID : tid_map[i] = obj[BootThread] <=> i = Dec(tid_counter)

\* A thread pending deletion is the running one, about to schedule away; a
\* thread in destroy_thread() destroys itself.
ExitInv ==
  /\ pending_deletion # NoThread =>
       pending_deletion = running /\ pc[running] = "leave"
  /\ \A t \in Thread : pc[t] = "destroy" => obj[t] = t

\* The one process: its constructor runs at most once, at most one thread
\* belongs to it, and Process::tid, once stored, is that thread's TID.
ProcInv ==
  /\ \A p \in Proc \ spawned :
       newproc[BootThread] = NoProc /\ curr_proc_override = NoProc
  /\ newproc[BootThread] # NoProc => pc[BootThread] \in Building
  /\ \A t \in Thread : proc[t] \in Proc => t \in used /\ t \notin Unlisted
  /\ \A t, u \in Thread : proc[t] \in Proc /\ proc[u] \in Proc => t = u
  /\ \A t \in Thread : proc[t] \in Proc => spawned = Proc
  /\ pc[BootThread] \in Building \ {"ret"} /\ newproc[BootThread] # NoProc =>
       \A t \in Thread : proc[t] \notin Proc
  /\ pc[BootThread] = "ret" => proc[obj[BootThread]] = newproc[BootThread]
  /\ pc[BootThread] \in {"ctx", "ctor", "unctx", "spawn"} =>
       newproc[BootThread] # NoProc
  /\ \A p \in Proc : ptid[p] # InvalidTID =>
       \A t \in Thread : proc[t] \in Proc => ptid[p] = tid[t]
  /\ \A p \in Proc : (\A t \in Thread : proc[t] \notin Proc) => ptid[p] = InvalidTID
  /\ \A t \in Thread : pc[t] \in {"start", "user"} => proc[t] \in Proc

KernelInv ==
  /\ TypeOK /\ QueueExact /\ TidMapExact
  /\ ScheduleAssertsHold /\ LookupAssertsHold /\ AddressSpaceMatches
  /\ BeforeBoot /\ BootInv /\ ExitInv /\ ProcInv
=============================================================================
