------------------------------- MODULE Traps --------------------------------
(***************************************************************************)
(* Interrupts and exceptions (arch/x86/isrs.cc, idt.cc, stack.S): what the *)
(* processor pushes, the stub of each vector, the handlers, and the way    *)
(* back.  A word on a kernel stack is a record [w, v].  Each thread has a  *)
(* kernel stack; an interrupt of user code begins at the top of the stack  *)
(* the TSS names.  The scheduler is reduced to its effect on a handler:    *)
(* isr_pit goes on later, with interrupts enabled (kthread.cc:150).        *)
(***************************************************************************)
EXTENDS Integers, Sequences

CONSTANTS TrapThread, UserThread, \* UserThread: the threads that enter user mode
          TrapIrq, Exception, \* the interrupt lines and exceptions that occur
          MaxWords         \* bound on a kernel stack

ASSUME TrapAssumption ==
  UserThread \subseteq TrapThread /\ TrapIrq \subseteq 0..15 /\ Exception \subseteq 0..31 /\ MaxWords \in Nat

VARIABLES on_cpu,
          ctx,             \* thread |-> [at, mode]: where it is, in its code or in a handler
          IF_,             \* the interrupt flag
          stk,             \* thread |-> its kernel stack, the top last
          tss_esp0,            \* the thread whose stack the TSS names
          irr, isr,        \* 8259: lines pending and in service
          off,             \* acpi::shutdown()
          saved            \* history: thread |-> its interrupted contexts: [here, if], the
                           \* vector v they were left for and the words under their frame

trapVars == <<on_cpu, ctx, IF_, stk, tss_esp0, irr, isr, off, saved>>

Place(p, v) == [p |-> p, v |-> v]
Code == Place("code", 0)
Word(w, v) == [w |-> w, v |-> v]
Context(at, mode) == [at |-> at, mode |-> mode]

-----------------------------------------------------------------------------
\* The table of ISRs, by the handler and whether the stub drops an error code.
\* The entries that end in isr_dumpregs shut the machine down.
Dump(err) == [fn |-> "isr_dumpregs", err |-> err]
\* Faulty variant: #PF is declared with ISR().
ISR_0x0E_NoErr == [fn |-> "isr_pf", err |-> FALSE]
ISR_0x0E == [fn |-> "isr_pf", err |-> TRUE]

ExceptionISR(v) ==
  IF v = 14 THEN ISR_0x0E ELSE Dump(v \in {7, 10, 11, 12, 13, 17, 19, 21})
IrqISR(v) == IF v = 32 THEN [fn |-> "isr_pit", err |-> FALSE] ELSE Dump(FALSE)
OtherISR(v) == IF v = 128 THEN [fn |-> "isr_syscall", err |-> FALSE] ELSE Dump(FALSE)

isrs(v) == IF v < 32 THEN ExceptionISR(v) ELSE IF v < 48 THEN IrqISR(v) ELSE OtherISR(v)

is_hw_interrupt(v) == v >= 32 /\ v < 48
idt(v) == [isr |-> isrs(v), interrupt_gate |-> is_hw_interrupt(v), dpl |-> IF v = 128 THEN 3 ELSE 0]

\* The vectors for which the processor pushes an error code.
PushesError == {8, 10, 11, 12, 13, 14, 17, 21}

-----------------------------------------------------------------------------
TrapInit ==
  /\ on_cpu \in TrapThread \ UserThread
  /\ ctx = [t \in TrapThread |-> Context(IF t = on_cpu THEN Code ELSE Place("start", 0), "kernel")]
  /\ IF_ = TRUE /\ stk = [t \in TrapThread |-> <<>>] /\ tss_esp0 = on_cpu
  /\ irr = {} /\ isr = {} /\ off = FALSE /\ saved = [t \in TrapThread |-> <<>>]

here == ctx[on_cpu]

\* The stack an interrupt of the running thread uses.
Stack == IF here.mode = "user" THEN tss_esp0 ELSE on_cpu
Under == IF here.mode = "user" THEN <<>> ELSE stk[on_cpu]

\* The 8259 delivers the pending line of highest priority that no line in
\* service blocks; the processor looks before every instruction.
Ready == {i \in irr : \A j \in isr : i < j}
Room == Len(Under) + 8 <= MaxWords
Deliverable == IF_ /\ Ready # {} /\ ~off /\ Room
Step == ~off /\ ~Deliverable

\* What the processor pushes: the stack pointer only from user mode, the error code
\* only for some exceptions.
Pushed(c, if, v, t) ==
  (IF c.mode = "user" THEN <<Word("esp3", t)>> ELSE <<>>)
    \o <<Word("eflags", if), Word("cs", c.mode), Word("eip", c.at)>>
    \o (IF v \in PushesError THEN <<Word("err", Place("err", v))>> ELSE <<>>)

Enter(v) ==
  /\ Room
  /\ stk' = [stk EXCEPT ![Stack] = Under \o Pushed(here, IF_, v, on_cpu)]
  /\ saved' = [saved EXCEPT ![on_cpu] = Append(@, [here |-> here, if |-> IF_, v |-> v, under |-> Len(Under)])]
  /\ IF_' = (IF_ /\ ~idt(v).interrupt_gate)
  /\ ctx' = [ctx EXCEPT ![on_cpu] = Context(Place("stub", v), "kernel")]

RaiseIrq(i) ==
  /\ ~off /\ i \notin irr /\ irr' = irr \cup {i}
  /\ UNCHANGED <<on_cpu, ctx, IF_, stk, tss_esp0, isr, off, saved>>

\* A hardware interrupt: line i is vector 0x20 + i (pic::init in idt::init).
Interrupt ==
  /\ Deliverable
  /\ \E i \in Ready : /\ \A j \in Ready : i <= j
                       /\ Enter(32 + i) /\ irr' = irr \ {i} /\ isr' = isr \cup {i}
  /\ UNCHANGED <<on_cpu, tss_esp0, off>>

\* An exception in a thread's code, or INT n in user code, which is a general
\* protection fault unless the gate is open to ring 3.
Trap(v) ==
  /\ Step /\ here.at = Code /\ Enter(v)
  /\ UNCHANGED <<on_cpu, tss_esp0, irr, isr, off>>
IntN(v) ==
  /\ here.mode = "user" /\ Trap(IF idt(v).dpl = 3 THEN v ELSE 13)

MoveTo(p) == ctx' = [ctx EXCEPT ![on_cpu] = Context(Place(p, here.at.v), here.mode)]

\* The stub: pusha, the vector, and the call of the handler.
Stub ==
  /\ Step /\ here.at.p = "stub"
  /\ LET v == here.at.v IN
     IF isrs(v).fn = "isr_dumpregs"
     THEN off' = TRUE /\ UNCHANGED <<stk, ctx>>
     ELSE /\ stk' = [stk EXCEPT ![on_cpu] = @ \o <<Word("regs", 0), Word("ivec", v)>>]
          /\ MoveTo(isrs(v).fn) /\ UNCHANGED off
  /\ UNCHANGED <<on_cpu, IF_, tss_esp0, irr, isr, saved>>

\* isr_pit: the end of interrupt, then the scheduler.  Faulty variant: no EOI.
pic_eoi_Never(i) == isr
pic_eoi(i) == isr \ {i}

isr_pit ==
  /\ Step /\ here.at.p = "isr_pit" /\ isr' = pic_eoi(0) /\ MoveTo("do_schedule")
  /\ UNCHANGED <<on_cpu, IF_, stk, tss_esp0, irr, off, saved>>

\* schedule() from the handler: t runs next, from where it left the processor,
\* and mutex_unlock() enables interrupts on the way out.
Resume(t) == IF ctx[t].at.p = "do_schedule" THEN Context(Place("tail", ctx[t].at.v), ctx[t].mode) ELSE ctx[t]
do_schedule(t) ==
  /\ Step /\ here.at.p = "do_schedule"
  /\ on_cpu' = t /\ IF_' = TRUE
  /\ ctx' = [ctx EXCEPT ![t] = Resume(t)]
  /\ UNCHANGED <<stk, tss_esp0, irr, isr, off, saved>>

\* A thread's first run; a user thread goes through jump_to_userspace(), which
\* has the TSS name its stack and leaves nothing on it.
enter_userspace ==
  /\ Step /\ here.at.p = "start"
  /\ IF on_cpu \in UserThread
     THEN /\ tss_esp0' = on_cpu /\ stk' = [stk EXCEPT ![on_cpu] = <<>>]
          /\ ctx' = [ctx EXCEPT ![on_cpu] = Context(Code, "user")]
     ELSE ctx' = [ctx EXCEPT ![on_cpu] = Context(Code, "kernel")] /\ UNCHANGED <<tss_esp0, stk>>
  /\ UNCHANGED <<on_cpu, IF_, irr, isr, off, saved>>

\* isr_pf: a page is mapped, or the process is not entitled to it; outside of a
\* process an ASSERT fails.  isr_syscall knows exit only.  exit() leaves the
\* processor to another thread; in this model the one that called it starts afresh,
\* as a new process would.
Leave(t) ==
  /\ on_cpu' = t /\ IF_' = TRUE
  /\ ctx' = [ctx EXCEPT ![on_cpu] = Context(Place("start", 0), "kernel"), ![t] = Resume(t)]
  /\ stk' = [stk EXCEPT ![on_cpu] = <<>>] /\ saved' = [saved EXCEPT ![on_cpu] = <<>>]

isr_pf(t) ==
  /\ Step /\ here.at.p = "isr_pf"
  /\ \/ on_cpu \in UserThread /\ MoveTo("tail") /\ UNCHANGED <<on_cpu, IF_, stk, saved, off>>
     \/ on_cpu \in UserThread \ {t} /\ Leave(t) /\ UNCHANGED off
     \/ on_cpu \notin UserThread /\ off' = TRUE /\ UNCHANGED <<on_cpu, IF_, stk, saved, ctx>>
  /\ UNCHANGED <<tss_esp0, irr, isr>>

isr_syscall(t) ==
  /\ Step /\ here.at.p = "isr_syscall"
  /\ \/ t # on_cpu /\ Leave(t) /\ UNCHANGED off
     \/ off' = TRUE /\ UNCHANGED <<on_cpu, IF_, stk, saved, ctx>>
  /\ UNCHANGED <<tss_esp0, irr, isr>>

\* The way out of the stub: the vector, popa, and the error code.
StubTail ==
  /\ Step /\ here.at.p = "tail"
  /\ LET n == IF isrs(here.at.v).err THEN 3 ELSE 2
     IN  stk' = [stk EXCEPT ![on_cpu] = SubSeq(@, 1, Len(@) - n)]
  /\ MoveTo("iret")
  /\ UNCHANGED <<on_cpu, IF_, tss_esp0, irr, isr, off, saved>>

\* iret takes whatever is on top of the stack.
iret ==
  /\ Step /\ here.at.p = "iret"
  /\ LET s == stk[on_cpu]
         top(k) == IF Len(s) >= k THEN s[Len(s) - k + 1] ELSE Word("none", 0)
         n == IF top(2).w = "cs" /\ top(2).v = "user" THEN 4 ELSE 3
     IN  /\ ctx' = [ctx EXCEPT ![on_cpu] = Context(top(1).v, top(2).v)]
         /\ IF_' = top(3).v
         /\ stk' = [stk EXCEPT ![on_cpu] = SubSeq(s, 1, Len(s) - n)]
  /\ saved' = [saved EXCEPT ![on_cpu] = SubSeq(@, 1, Len(@) - 1)]
  /\ UNCHANGED <<on_cpu, tss_esp0, irr, isr, off>>

TrapNext ==
  \/ \E i \in TrapIrq : RaiseIrq(i)
  \/ Interrupt
  \/ \E v \in Exception : Trap(v)
  \/ \E v \in {32, 128} : IntN(v)
  \/ Stub \/ isr_pit \/ enter_userspace \/ StubTail \/ iret
  \/ \E t \in TrapThread : do_schedule(t) \/ isr_pf(t) \/ isr_syscall(t)

TrapSpec == TrapInit /\ [][TrapNext]_trapVars /\ WF_trapVars(TrapNext)

-----------------------------------------------------------------------------
\* Every iret goes back to the interrupted instruction, mode and interrupt flag,
\* however interrupts nest and threads are switched in the handlers: the stubs
\* drop exactly what the processor and they pushed (isrs.cc:192).
ReturnsWhereInterrupted ==
  [][iret => LET last == saved[on_cpu][Len(saved[on_cpu])]
             IN  ctx'[on_cpu] = last.here /\ IF_' = last.if]_trapVars

\* A timer interrupt is taken, unless the machine is shut down: each handler
\* ends its interrupt, and no handler keeps interrupts disabled for ever.
TimerServed == (0 \in irr) ~> (0 \notin irr \/ off)

\* "Set esp0 upon a context switch" (gdt.h:115): when user code runs, the TSS
\* names the kernel stack of its own thread.
Esp0OfRunning == here.mode = "user" => tss_esp0 = on_cpu
=============================================================================
