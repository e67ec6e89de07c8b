---------------------------- MODULE MCScheduler ----------------------------
(***************************************************************************)
(* Instances of Scheduler for TLC: a boot thread and a few kernel threads. *)
(***************************************************************************)
EXTENDS Scheduler, TLC

CONSTANTS boot, k1, k2, k3, k4, p1, none, noentry, noproc, kernelpd, wild

\* Interchangeable objects: every thread but the boot thread is alike when only
\* the boot thread creates or destroys others.
KernelThreads == Permutations(Thread \ {boot})
=============================================================================
