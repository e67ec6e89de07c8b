------------------------------ MODULE RunQueue ------------------------------
(***************************************************************************)
(* Scheduler::runnable as the pointers it is made of.  new_thread() links  *)
(* the new thread in with interrupts enabled, so a tick can fall between   *)
(* any two of the stores of its push_back() (each a statement, and with    *)
(* -O0 each statement reads prev() anew); schedule() itself runs with      *)
(* interrupts off and is one step.  Scheduler takes push_back() to be      *)
(* atomic; this module is about what that leaves out.                      *)
(***************************************************************************)
EXTENDS IntrusiveLinks

CONSTANTS Head,      \* the sentinel, Scheduler::runnable
          Thread, BootThread, None,
          Creators   \* threads that call new_thread()

VARIABLES next, prev, running,
          pc,        \* the statement of push_back() a thread is at
          thread,    \* the thread object it is linking in
          created,   \* objects handed to push_back() so far
          asserted   \* the debug assertion in empty() has held in every call

vars == <<next, prev, running, pc, thread, created, asserted>>
Node == Thread \cup {Head}

Init ==
  /\ next = [n \in Node |-> n] /\ prev = [n \in Node |-> n]
  /\ running = BootThread /\ created = {BootThread}
  /\ pc = [t \in Thread |-> "idle"] /\ thread = [t \in Thread |-> None]
  /\ asserted = TRUE

\* runnable.push_back(*thread): the erase() of a new object does nothing.
NewThread(t) ==
  /\ running = t /\ t \in Creators /\ pc[t] = "idle"
  /\ \E p \in Thread \ created :
       created' = created \cup {p} /\ thread' = [thread EXCEPT ![t] = p]
  /\ pc' = [pc EXCEPT ![t] = "p_prev"]
  /\ UNCHANGED <<next, prev, running, asserted>>

At(t, l, m) ==
  /\ running = t /\ pc[t] = l /\ pc' = [pc EXCEPT ![t] = m]
  /\ UNCHANGED <<running, thread, created, asserted>>

StorePPrev(t) ==
  /\ At(t, "p_prev", "p_next")
  /\ prev' = BackPPrev(prev, Head, thread[t]) /\ UNCHANGED next

StorePNext(t) ==
  /\ At(t, "p_next", "link")
  /\ next' = BackPNext(next, Head, thread[t]) /\ UNCHANGED prev

StoreLink(t) ==
  /\ At(t, "link", "prev")
  /\ next' = BackLink(next, prev, Head, thread[t]) /\ UNCHANGED prev

StorePrev(t) ==
  /\ At(t, "prev", "idle")
  /\ prev' = BackPrev(prev, Head, thread[t]) /\ UNCHANGED next

\* schedule(), from the timer interrupt: the first of the queue runs, the running
\* thread goes to its end.
Schedule ==
  LET new == IF Alone(next, Head) THEN running ELSE next[Head]
      f == EraseNext(next, prev, new)
      g == ErasePrev(next, prev, new)
  IN /\ asserted' = (asserted /\ EmptyAssert(next, prev, Head)
                       /\ (new # running => /\ EmptyAssert(next, prev, new)
                                            /\ EmptyAssert(f, g, running)))
     /\ IF new = running
        THEN UNCHANGED <<next, prev, running>>
        ELSE /\ next' = PushBackNext(f, g, Head, running)
             /\ prev' = PushBackPrev(f, g, Head, running)
             /\ running' = new
     /\ UNCHANGED <<pc, thread, created>>

Next ==
  \/ \E t \in Thread : NewThread(t) \/ StorePPrev(t) \/ StorePNext(t)
                         \/ StoreLink(t) \/ StorePrev(t)
  \/ Schedule

Spec == Init /\ [][Next]_vars

-----------------------------------------------------------------------------
\* "DEBUG_ASSERT(!((&next() == &parent()) ^ (&prev() == &parent())))"
\* (intrusive_list.h:201): whenever schedule() asks a node whether it is empty, its
\* two links agree about it.
EmptyAssertHolds == asserted
=============================================================================
