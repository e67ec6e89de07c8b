---------------------------- MODULE NonstdString ----------------------------
(***************************************************************************)
(* nonstd::string (nonstd/string.cc): a buffer of _capacity + 1 characters *)
(* that ends in NUL at index len, or no buffer at all.  kfree() does       *)
(* nothing, so a buffer that is given back can still be read.              *)
(***************************************************************************)
EXTENDS Integers, Sequences

CONSTANTS Char, NUL, nullptr, Junk,   \* Junk: memory not written yet
          MaxLen                      \* bound on the length

VARIABLES s,     \* [len, capacity, data]
          std    \* history: the sequence of characters it stands for

vars == <<s, std>>

BiggerOf(a, b) == IF a > b THEN a ELSE b

Default == [len |-> 0, capacity |-> 0, data |-> nullptr]

\* string(const char *, size_t) and string(size_t, char)
Make(t) ==
  [len |-> Len(t), capacity |-> Len(t),
   data |-> [i \in 0..Len(t) |-> IF i < Len(t) THEN t[i + 1] ELSE NUL]]

reserve(w, n) ==
  IF n <= w.capacity THEN w
  ELSE LET c == BiggerOf(n, 2 * w.capacity)
       IN [w EXCEPT !.capacity = c,
                    !.data = [i \in 0..c |-> IF i < w.len THEN w.data[i]
                                             ELSE IF i = w.len THEN NUL ELSE Junk]]

\* Faulty variant: without the terminator.
push_back_Open(w, c) ==
  LET r == reserve(w, w.len + 1) IN [r EXCEPT !.data[w.len] = c, !.len = w.len + 1]
push_back(w, c) ==
  LET r == reserve(w, w.len + 1)
  IN [r EXCEPT !.data[w.len] = c, !.data[w.len + 1] = NUL, !.len = w.len + 1]

\* resize(0) of a string without a buffer (also by clear() and by appending nothing)
\* stores its terminator through nullptr: at address 0, not in the string.
resize(w, n) ==
  LET r == reserve(w, n)
  IN IF r.data = nullptr THEN r ELSE
     [r EXCEPT !.len = n,
               !.data = [i \in DOMAIN @ |-> IF i \in w.len..n \/ i = n THEN NUL ELSE @[i]]]

\* append(size_t, char) and append(string_view): the characters are copied to the
\* end of the resized buffer, from wherever they are.
append(w, t) ==
  LET r == resize(w, w.len + Len(t))
  IN IF r.data = nullptr THEN r ELSE
     [r EXCEPT !.data = [i \in DOMAIN @ |-> IF i \in w.len..(r.len - 1)
                                            THEN t[i - w.len + 1] ELSE @[i]]]

\* What a string_view of positions i to j - 1 of w still shows once w is r: its
\* data is the old buffer, which is also the new one unless reserve() moved it.
View(w, r, i, j) ==
  [k \in 1..(j - i) |-> IF r.capacity = w.capacity THEN r.data[i + k - 1]
                        ELSE w.data[i + k - 1]]

\* append(view of the string itself): resize() comes before the copy.
append_self(w, i, j) ==
  LET r == resize(w, w.len + j - i)
  IN [r EXCEPT !.data = [k \in DOMAIN @ |-> IF k \in w.len..(r.len - 1)
                                            THEN View(w, r, i, j)[k - w.len + 1] ELSE @[k]]]

Texts == UNION {[1..n -> Char] : n \in 0..2}

Init == s \in {Default, Make(<<>>)} /\ std = <<>>

Room(n) == Len(std) + n <= MaxLen

PushBack(c) == Room(1) /\ s' = push_back(s, c) /\ std' = Append(std, c)
AppendText(t) == Room(Len(t)) /\ s' = append(s, t) /\ std' = std \o t
AppendSelf(i, j) ==
  /\ i < j /\ j <= s.len /\ Room(j - i)
  /\ s' = append_self(s, i, j) /\ std' = std \o SubSeq(std, i + 1, j)
Resize(n) ==
  /\ s' = resize(s, n)
  /\ std' = [i \in 1..n |-> IF i <= Len(std) THEN std[i] ELSE NUL]
Reserve(n) == s' = reserve(s, n) /\ UNCHANGED std
\* operator=, through a new string and swap(); operator+ is a copy and an append.
Assign(t) == s' = Make(t) /\ std' = t
Plus(t) == Room(Len(t)) /\ s' = append(Make(std), t) /\ std' = std \o t

Next ==
  \/ \E c \in Char : PushBack(c)
  \/ \E t \in Texts : AppendText(t) \/ Assign(t) \/ Plus(t)
  \/ \E i, j \in 0..MaxLen : AppendSelf(i, j)
  \/ \E n \in 0..MaxLen : Resize(n) \/ Reserve(n)

-----------------------------------------------------------------------------
\* The string is the sequence std::string would be and c_str() ends in NUL at its
\* length, whatever mix of shrinking, growing, reserving and appending (also of
\* parts of itself) led here; a string without a buffer is empty.
StringIsSequence ==
  /\ s.len <= s.capacity
  /\ s.data = nullptr => s.len = 0
  /\ s.data # nullptr => /\ DOMAIN s.data = 0..s.capacity /\ s.data[s.len] = NUL
                         /\ [i \in 1..s.len |-> s.data[i - 1]] = std
=============================================================================
