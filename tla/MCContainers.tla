---------------------------- MODULE MCContainers ----------------------------
\* The containers and the string functions side by side: unit says which one a
\* behaviour is about.  The intrusive list has two sentinels and three elements,
\* which make all shapes of two lists; the screen has two rows and scrolls three times.
EXTENDS IntrusiveList, Console, AtExit, SequencesExt

CONSTANTS l1, l2, n1, n2, n3, Dead

VARIABLES unit, dq, dqStd, dqIt, hm, hmStd, nl, nlStd, vec, vecStd, str, strStd, in

\* size(): the walk from n along _next, as far as there are nodes to meet.
Walk(n) ==
  LET w[k \in 0..Cardinality(Node)] ==
        IF k = 0 THEN <<n>>
        ELSE IF next[Last(w[k - 1])] = n THEN w[k - 1]
        ELSE Append(w[k - 1], next[Last(w[k - 1])])
  IN Tail(w[Cardinality(Node)])

\* The pointers implement the rings of CircularList: push_back() and push_front()
\* move a node from wherever it is to the chosen end, erase() takes it out, and the
\* order of all the other elements of all lists stays.
Rings == INSTANCE CircularList WITH ring <- [n \in Node |-> Walk(n)]
RingsSpec == Rings!Init /\ [][UNCHANGED <<next, prev>> \/ Rings!Next]_vars

-----------------------------------------------------------------------------
\* Blocks of two elements in an array of two: two doublings within MaxIdx.
D == INSTANCE Deque WITH this <- dq, std <- dqStd, it <- dqIt, nullptr <- None,
       Value <- {1, 2}, elems_per_block <- 2, min_block_count <- 2, SizeMod <- 2 ^ 16,
       MaxIdx <- 8, MaxLen <- 4

\* Five keys in two, four and five buckets.
H == INSTANCE NodeHashMap WITH map <- hm, std <- hmStd, none <- None,
       Key <- 0..4, Value <- {1, 2}, Hash <- [k \in 0..4 |-> k], Candidate <- <<2, 4, 5>>

L == INSTANCE NonstdList WITH heap <- nl, std <- nlStd, nullptr <- 0,
       Node <- 1..4, List <- {11, 12}, End <- [l \in {11, 12} |-> l]

V == INSTANCE Vector WITH v <- vec, std <- vecStd, Value <- {1, 2}, Default <- 0, MaxLen <- 4

S == INSTANCE NonstdString WITH s <- str, std <- strStd, nullptr <- None, Junk <- Dead,
       NUL <- "NUL", Char <- {"a", "b"}, MaxLen <- 4

\* Specifiers with their arguments: an int has four bits, a long eight, a short two.
Length == {<<>>, <<"h">>, <<"h", "h">>, <<"l">>, <<"l", "l">>}
SignedArgument(len) == CASE len \in {<<"l">>, <<"l", "l">>} -> {-128, 100}
                         [] len = <<>> -> {-8, 7}
                         [] OTHER -> {-2}
UnsignedArgument(len) == CASE len \in {<<"l">>, <<"l", "l">>} -> {255}
                           [] len = <<>> -> {12}
                           [] OTHER -> {3}
Piece(type, len, arg) == [type |-> type, len |-> len, c |-> "-", arg |-> arg]
Conversion ==
  UNION ({{Piece("d", len, n) : n \in SignedArgument(len)} : len \in Length}
    \cup {{Piece(t, len, n) : n \in UnsignedArgument(len)} : t \in {"u", "x", "o", "b"}, len \in Length}
    \cup {{Piece("s", len, <<"q", "r">>), Piece("c", len, "t")} : len \in {<<>>, <<"l">>}})
Plain == {Piece("%", <<>>, 0), [Piece("char", <<>>, 0) EXCEPT !.c = "a"]}

T == INSTANCE Libc WITH Width <- 8,
       Memory <- {[i \in 0..4 |-> i], [i \in 0..4 |-> i % 2]},
       Text <- UNION ({[1..n -> {"a", "/"}] : n \in 0..4} \cup {[1..n -> {"a", "NUL"}] : n \in 0..3}),
       Format <- UNION {[1..n -> Conversion \cup Plain] : n \in 0..2},
       Number <- -128..127

listVars == vars
runtime == <<consoleVars, atExitVars>>
others == <<dq, dqStd, dqIt, hm, hmStd, nl, nlStd, vec, vecStd, str, strStd, in, runtime>>

UnitInit ==
  /\ unit \in {"intrusive", "deque", "map", "list", "vector", "string", "libc",
              "console", "atexit"}
  /\ Init /\ D!Init /\ H!Init /\ L!Init /\ V!Init /\ ConsoleInit /\ AtExitInit
  /\ IF unit = "string" THEN S!Init ELSE str = S!Default /\ strStd = <<>>
  /\ IF unit = "libc" THEN T!Init ELSE in = [kind |-> "none"]

UnitNext ==
  /\ UNCHANGED <<unit, in>>
  /\ \/ /\ unit = "intrusive" /\ Next /\ UNCHANGED others
     \/ /\ UNCHANGED listVars
        /\ \/ /\ unit = "deque" /\ D!Next
              /\ UNCHANGED <<hm, hmStd, nl, nlStd, vec, vecStd, str, strStd, runtime>>
           \/ /\ unit = "map" /\ H!Next
              /\ UNCHANGED <<dq, dqStd, dqIt, nl, nlStd, vec, vecStd, str, strStd, runtime>>
           \/ /\ unit = "list" /\ L!Next
              /\ UNCHANGED <<dq, dqStd, dqIt, hm, hmStd, vec, vecStd, str, strStd, runtime>>
           \/ /\ unit = "vector" /\ V!Next
              /\ UNCHANGED <<dq, dqStd, dqIt, hm, hmStd, nl, nlStd, str, strStd, runtime>>
           \/ /\ unit = "string" /\ S!Next
              /\ UNCHANGED <<dq, dqStd, dqIt, hm, hmStd, nl, nlStd, vec, vecStd, runtime>>
           \/ /\ unit = "console" /\ ConsoleNext
              /\ UNCHANGED <<dq, dqStd, dqIt, hm, hmStd, nl, nlStd, vec, vecStd, str, strStd,
                            atExitVars>>
           \/ /\ unit = "atexit" /\ AtExitNext
              /\ UNCHANGED <<dq, dqStd, dqIt, hm, hmStd, nl, nlStd, vec, vecStd, str, strStd,
                            consoleVars>>

UnitSpec ==
  /\ UnitInit /\ [][UnitNext]_<<unit, listVars, others>>
  /\ WF_<<unit, listVars, others>>(unit = "intrusive" /\ (ClearOne \/ ClearDone) /\ UNCHANGED <<unit, others>>)

\* clear() of an intrusive list returns, and has emptied the list when it does
\* (intrusive_list.h:249).
ClearEnds == ClearEmpties /\ ClearReturns

\* The deque, the list, the vector and the string of nonstd are at every step the
\* sequences their standard namesakes would be; the deque's array of blocks is full
\* when it is doubled and empty when it is destroyed, as deque.h asserts, and its
\* iterators outlive pops of other elements (deque.h:229).
SequencesExact ==
  /\ D!DequeIsSequence /\ D!ReallocAssert /\ D!DestructorFrees /\ D!IteratorStable
  /\ L!ListIsSequence /\ V!VectorIsSequence /\ S!StringIsSequence

\* find() of the hash map finds exactly what was inserted and not erased, because
\* the nodes of each bucket stay together behind its iterator (node_hash_map.h).
MapExact == H!MapExact /\ H!BucketsExact

\* The functions on memory, views, numbers and formats in libc.cc and string_view.h
\* compute what their standard namesakes do, at the ends of their buffers too, but for
\* three things: == of views looks no further than a NUL, %hh is not understood, and
\* %l takes 64 bits.
LibcExact == T!MemoryExact /\ T!ViewExact /\ T!NumberExact /\ T!PrintExact
=============================================================================
