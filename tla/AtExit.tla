------------------------------- MODULE AtExit -------------------------------
(***************************************************************************)
(* The C++ runtime's destructors (crt/crti.cc): __cxa_atexit() enters      *)
(* them in a table, __cxa_finalize() calls them.  A destructor may itself  *)
(* register others while the loop runs.  Calls of __cxa_finalize() do not  *)
(* nest: the one in run_global_dtors() is the kernel's only one.           *)
(***************************************************************************)
EXTENDS Integers, Sequences

CONSTANTS Dtor, nullptr, atexit_max_funcs

ASSUME AtExitAssumption == nullptr \notin Dtor /\ atexit_max_funcs \in Nat

VARIABLES funcs,             \* the table: the destructor of each registration
          call,              \* the call of __cxa_finalize() in progress
          failed,            \* history: a registration was refused
          called             \* history: the registrations called, in order

atExitVars == <<funcs, call, failed, called>>

AtExitInit ==
  /\ funcs = <<>> /\ failed = FALSE /\ called = <<>>
  /\ call = [at |-> "none", f |-> nullptr, i |-> 0, n |-> 0]

__cxa_atexit(d) ==
  /\ IF Len(funcs) >= atexit_max_funcs
     THEN failed' = TRUE /\ UNCHANGED funcs
     ELSE funcs' = Append(funcs, d) /\ UNCHANGED failed
  /\ UNCHANGED <<call, called>>

\* Faulty variant: the last entry is passed over.
From_Below == IF funcs = <<>> THEN 0 ELSE Len(funcs) - 1
From == Len(funcs)

__cxa_finalize(f) ==
  /\ call.at = "none"
  /\ call' = [at |-> "loop", f |-> f, i |-> From, n |-> Len(funcs)]
  /\ UNCHANGED <<funcs, failed, called>>

\* One turn of the loop: entry i is called if it matches and is still there.
Matches(d) == (call.f = nullptr \/ d = call.f) /\ d # nullptr

FinalizeLoop ==
  /\ call.at = "loop"
  /\ \/ call.i = 0 /\ call' = [call EXCEPT !.at = "none"] /\ UNCHANGED called
     \/ /\ call.i # 0 /\ Matches(funcs[call.i])
        /\ call' = [call EXCEPT !.at = "dtor"] /\ called' = Append(called, call.i)
     \/ /\ call.i # 0 /\ ~Matches(funcs[call.i])
        /\ call' = [call EXCEPT !.i = @ - 1] /\ UNCHANGED called
  /\ UNCHANGED <<funcs, failed>>

\* The destructor returns and its entry is cleared.  Faulty variant: it is not.
Cleared_Not(i) == funcs
Cleared(i) == [funcs EXCEPT ![i] = nullptr]

DtorReturns ==
  /\ call.at = "dtor"
  /\ funcs' = Cleared(call.i)
  /\ call' = [call EXCEPT !.at = "loop", !.i = @ - 1]
  /\ UNCHANGED <<failed, called>>

AtExitNext ==
  \/ \E d \in Dtor : __cxa_atexit(d)
  \/ \E f \in Dtor \cup {nullptr} : __cxa_finalize(f)
  \/ FinalizeLoop \/ DtorReturns

AtExitSpec == AtExitInit /\ [][AtExitNext]_atExitVars

-----------------------------------------------------------------------------
\* "we should be careful not to call destructors more than once (unless they were
\* inserted more than once)" (crti.cc:75), also when destructors register others.
CalledOnce == \A i, j \in DOMAIN called : i # j => called[i] # called[j]

\* When a call of __cxa_finalize() ends, no destructor it was asked for and that
\* was registered before it is left.
FinalizeComplete ==
  [][call.at = "loop" /\ call'.at = "none" =>
       \A k \in 1..call.n : funcs[k] = nullptr \/ (call.f # nullptr /\ funcs[k] # call.f)]_atExitVars

\* __cxa_finalize() calls every destructor it was asked for, and none twice
\* (crti.cc:69-84), also when destructors register others.
FinalizeExact == []CalledOnce /\ FinalizeComplete
=============================================================================
