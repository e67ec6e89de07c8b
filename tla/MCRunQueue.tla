----------------------------- MODULE MCRunQueue -----------------------------
\* The boot thread and the threads it creates, on one run queue.
EXTENDS RunQueue

CONSTANTS boot, k1, k2
=============================================================================
