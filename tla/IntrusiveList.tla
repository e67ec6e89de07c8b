---------------------------- MODULE IntrusiveList ---------------------------
(***************************************************************************)
(* The circular intrusive list (util/intrusive_list.h), at the level of    *)
(* its pointers.  Sentinels and elements are nodes of the same kind; any   *)
(* node's methods may be called.  clear() is a loop, of which each         *)
(* iteration is a step; the list has no lock of its own, and this module   *)
(* is about one caller at a time (RunQueue is about more).                 *)
(***************************************************************************)
EXTENDS IntrusiveLinks

CONSTANTS Node, None

ASSUME NodeAssumption == None \notin Node

VARIABLES next, prev,   \* _next and _prev
          head,         \* the node whose clear() is running, or None
          it            \* the iterator of that loop

vars == <<next, prev, head, it>>

TypeOK ==
  /\ next \in [Node -> Node] /\ prev \in [Node -> Node]
  /\ head \in Node \cup {None} /\ it \in Node \cup {None}
  /\ head = None <=> it = None

Init ==
  /\ next = [n \in Node |-> n] /\ prev = [n \in Node |-> n]
  /\ head = None /\ it = None

\* Faulty variant: the node stays.
EraseNode_Nop(n) == UNCHANGED <<next, prev>>
EraseNode(n) == next' = EraseNext(next, prev, n) /\ prev' = ErasePrev(next, prev, n)

\* The iterator erase() returns: the following element (begin() of a node that is
\* alone is the node itself).  Faulty variant: read after the node is reset.
EraseResult_Late(n) == n
EraseResult(n) == next[n]

erase(n) ==
  /\ head = None
  /\ EraseNode(n) /\ UNCHANGED <<head, it>>

push_back(at, p) ==
  /\ head = None
  /\ next' = PushBackNext(next, prev, at, p)
  /\ prev' = PushBackPrev(next, prev, at, p)
  /\ UNCHANGED <<head, it>>

push_front(at, p) ==
  /\ head = None
  /\ next' = PushFrontNext(next, prev, at, p)
  /\ prev' = PushFrontPrev(next, prev, at, p)
  /\ UNCHANGED <<head, it>>

clear(n) ==
  /\ head = None /\ head' = n /\ it' = next[n]
  /\ UNCHANGED <<next, prev>>

\* !it->empty(); it = it->erase()
ClearOne ==
  /\ head # None /\ ~Alone(next, it)
  /\ EraseNode(it) /\ it' = EraseResult(it) /\ UNCHANGED head

ClearDone ==
  /\ head # None /\ Alone(next, it)
  /\ head' = None /\ it' = None /\ UNCHANGED <<next, prev>>

Next ==
  \/ \E n \in Node :
       \/ erase(n) \/ clear(n)
       \/ \E p \in Node : push_back(n, p) \/ push_front(n, p)
  \/ ClearOne \/ ClearDone

Spec == Init /\ [][Next]_vars
FairSpec == Spec /\ WF_vars(ClearOne \/ ClearDone)

-----------------------------------------------------------------------------
\* next and prev stay each other's inverse, whatever methods are called on
\* whatever nodes: on neighbours, on detached nodes, on a node itself.  It is what
\* makes the assertion of empty() (intrusive_list.h:201) hold.
LinksAgree == Linked(next, prev)

\* "Delete all elements from a list" (intrusive_list.h:249): when clear() returns
\* its list has no element left.
ClearEmpties == [][head # None /\ head' = None => Alone(next, head)]_vars

\* clear() returns, although it erases the node its iterator stands on.
ClearReturns == head # None ~> head = None
=============================================================================
