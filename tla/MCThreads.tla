----------------------------- MODULE MCThreads ------------------------------
\* What runs under interrupts, side by side: the scheduler with its fairness, the
\* interrupt stubs and the interrupt controller.  unit says which part a behaviour is
\* about, and the others stay at their beginning.
\* Traps: a kernel thread and a user thread, the timer and a line of the second chip,
\* and an exception of each form.
EXTENDS MCScheduler, Pic, Traps

VARIABLE unit

all == <<unit, vars, picVars, trapVars>>

UnitInit ==
  /\ unit \in {"scheduler", "pic", "traps"}
  /\ unit = "pic" \/ firmware = <<0, 0>>
  /\ Init /\ PicInit /\ TrapInit

OnlyScheduler(Act) == unit = "scheduler" /\ Act /\ UNCHANGED <<unit, picVars, trapVars>>
OnlyTraps(Act) == unit = "traps" /\ Act /\ UNCHANGED <<unit, vars, picVars>>

UnitNext ==
  \/ OnlyScheduler(Next) \/ OnlyTraps(TrapNext)
  \/ unit = "pic" /\ PicNext /\ UNCHANGED <<unit, vars, trapVars>>

\* The fairness of the parts, as their modules state it.
UnitSpec ==
  /\ UnitInit /\ [][UnitNext]_all
  /\ WF_all(OnlyScheduler(Tick) \/ OnlyTraps(TrapNext))
  /\ \A t \in Thread : SF_all(OnlyScheduler(FinishExit(t)))

\* Every thread that is ready runs again, and one that has to go is reclaimed
\* (kthread.cc:99-183).
ThreadsProgress == EventuallyRuns /\ ExitCompletes
=============================================================================
