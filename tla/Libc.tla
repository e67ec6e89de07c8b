-------------------------------- MODULE Libc --------------------------------
(***************************************************************************)
(* The freestanding C library (common/libc_minimal.h, nonstd/libc.cc) and  *)
(* nonstd::string_view as pure functions, each next to what it is meant to *)
(* compute.  A string is a sequence of one-character strings.  The state   *)
(* is one input, chosen at the start.                                      *)
(***************************************************************************)
EXTENDS Integers, SequencesExt

CONSTANTS Width,      \* bits of a uint64_t; a uint32_t and a stack word have half of them
          Memory, Text, Format, Number   \* the inputs to check

VARIABLE in

NUL == "NUL"

-----------------------------------------------------------------------------
(* memcpy, memset, memmove, memcmp on a memory [0..n-1 -> byte] *)

\* The assignments of a loop over the indices is, in order.
Copy(m, dest, src, is) ==
  FoldLeft(LAMBDA a, i : [a EXCEPT ![dest + i] = a[src + i]], m, is)

Up(n) == [i \in 1..n |-> i - 1]
Down(n) == [i \in 1..n |-> n - i]

memcpy(m, dest, src, n) == Copy(m, dest, src, Up(n))
memset(m, s, c, n) == FoldLeft(LAMBDA a, i : [a EXCEPT ![s + i] = c], m, Up(n))

\* Faulty variant: always upwards.
memmove_Up(m, dest, src, n) == Copy(m, dest, src, Up(n))
memmove(m, dest, src, n) ==
  IF src > dest THEN Copy(m, dest, src, Up(n))
  ELSE IF src < dest THEN Copy(m, dest, src, Down(n)) ELSE m

\* The sign of the first difference.
memcmp(a, b, n) ==
  LET d == SelectSeq(Up(n), LAMBDA i : a[i] # b[i])
  IN IF d = <<>> THEN 0 ELSE IF a[d[1]] < b[d[1]] THEN -1 ELSE 1

-----------------------------------------------------------------------------
(* nonstd::string_view *)

\* The indices strncmp() compares: up to a difference, a NUL or n characters.
Differ(a, b, n) ==
  SelectSeq([i \in 1..n |-> i], LAMBDA i : a[i] # b[i] \/ a[i] = NUL \/ b[i] = NUL)
strncmp_equal(a, b, n) ==
  LET d == Differ(a, b, n) IN d = <<>> \/ a[d[1]] = b[d[1]]

Equal(a, b) == Len(a) = Len(b) /\ strncmp_equal(a, b, Len(a))

npos == 2 ^ Width - 1

\* substr(int32_t start, size_t count), cropped to the string.  start + count wraps.
substr(t, start0, count0) ==
  LET pos == IF start0 < 0 THEN 0 ELSE start0
      start == IF pos > Len(t) THEN Len(t) ELSE pos
      count == IF count0 = npos \/ ((start + count0) % 2 ^ Width) > Len(t)
               THEN Len(t) - start ELSE count0
  IN SubSeq(t, start + 1, start + count)

starts_with(t, needle) == Equal(substr(t, 0, Len(needle)), needle)

\* size() - needle.size() wraps, and becomes a negative int32_t.
ends_with(t, needle) == Equal(substr(t, Len(t) - Len(needle), npos), needle)

FirstOf(seq) == IF seq = <<>> THEN npos ELSE seq[1]

\* Faulty variant: the last position is left out.
find_Short(t, needle) ==
  FirstOf(SelectSeq(Up(Len(t) - Len(needle)), LAMBDA i : Equal(needle, SubSeq(t, i + 1, i + Len(needle)))))
find(t, needle) ==
  IF Len(t) < Len(needle) THEN npos
  ELSE FirstOf(SelectSeq(Up(Len(t) - Len(needle) + 1),
                         LAMBDA i : Equal(needle, SubSeq(t, i + 1, i + Len(needle)))))
rfind(t, c) == FirstOf(SelectSeq(Down(Len(t)), LAMBDA i : t[i + 1] = c))

\* util/pathutil.cc: {dirname, basename} and {first component, rest}
partition_path(t) ==
  LET sep == rfind(t, "/")
  IN IF sep # npos THEN <<substr(t, 0, sep), substr(t, sep + 1, npos)>> ELSE << <<>>, t >>
left_partition_path(t) ==
  LET sep == find(t, <<"/">>)
  IN IF sep # npos THEN <<substr(t, 0, sep), substr(t, sep + 1, npos)>> ELSE << t, <<>> >>

-----------------------------------------------------------------------------
(* printf *)

Digit == <<"0", "1", "2", "3", "4", "5", "6", "7", "8", "9", "a", "b", "c", "d", "e", "f">>

\* Digits by repeated division, last digit first, then reversed.
_utoa(val, radix) ==
  LET d[v \in 0..val] ==
        IF v = 0 THEN <<>> ELSE <<Digit[(v % radix) + 1]>> \o d[v \div radix]
  IN IF val = 0 THEN <<"0">> ELSE Reverse(d[val])

\* -(uint64_t)val.  Faulty variant: one's complement.
Negate_Ones(val) == (2 ^ Width - 1 - (val % 2 ^ Width)) % 2 ^ Width
Negate(val) == (2 ^ Width - (val % 2 ^ Width)) % 2 ^ Width

_itoa(val) == IF val < 0 THEN <<"-">> \o _utoa(Negate(val), 10) ELSE _utoa(val, 10)

\* console_printb/w/l/q(): the sz low bytes, the highest first.  A byte is two
\* nybbles of one bit here, so that Width bits are Width/2 bytes.
bswap(n) ==
  FoldLeft(LAMBDA v, i : v * 4 + ((n \div 4 ^ i) % 4), 0, Up(Width \div 2))
_console_format_byte(n) == <<Digit[((n \div 2) % 2) + 1], Digit[(n % 2) + 1]>>
_console_printn(n, sz) ==
  LET m == bswap(n) \div 4 ^ ((Width \div 2) - sz)
  IN  FlattenSeq([i \in 1..sz |-> _console_format_byte((m \div 4 ^ (i - 1)) % 4)])

\* The length specifier: up to two l; or one h, which is counted on top of FS_SHORT,
\* so that a second one is left to be the type, and is none.
Length(t) ==
  IF t[2] = "l" THEN IF Len(t) > 2 /\ t[3] = "l" THEN [chars |-> 2, length |-> "FS_LONG_LONG"]
                     ELSE [chars |-> 1, length |-> "FS_LONG"]
  ELSE IF t[2] = "h" THEN [chars |-> 1, length |-> "FS_SHORT_SHORT"]
  ELSE [chars |-> 0, length |-> "FS_NORMAL"]

FormatType == [c \in {"%", "c", "d", "u", "x", "o", "b", "s"} |-> c]

\* _parse_format_spec() of a text that begins with %: the number of characters, the
\* length and the type; or one character and no type.
_parse_format_spec(t) ==
  LET k == Length(t).chars
      c == IF Len(t) >= 2 + k THEN t[2 + k] ELSE NUL
  IN IF Len(t) = 1 \/ c \notin DOMAIN FormatType
     THEN [len |-> 1, length |-> "FS_NORMAL", type |-> "inval"]
     ELSE [len |-> 2 + k, length |-> Length(t).length, type |-> c]

Radix == [u |-> 10, x |-> 16, o |-> 8, b |-> 2]

\* va_arg() on va, the stack words not taken yet: an integer of FS_LONG or
\* FS_LONG_LONG is two of them, any other is one, FS_SHORT_SHORT too.  A character
\* or a string is a word of its own.  Faulty variant: only l is wide.
WordBits == Width \div 2
Wide_Long(length) == length = "FS_LONG"
Wide(length) == length \in {"FS_LONG", "FS_LONG_LONG"}
Unsigned(length, va) == IF Wide(length) THEN va[1] + 2 ^ WordBits * va[2] ELSE va[1]
Signed(length, va) ==
  LET u == Unsigned(length, va)
      bits == IF Wide(length) THEN Width ELSE WordBits
  IN IF u < 2 ^ (bits - 1) THEN u ELSE u - 2 ^ bits

\* The characters a specifier writes, and how many words it takes.
Converted(fs, va) ==
  CASE fs.type = "%" -> <<"%">>
    [] fs.type = "c" -> <<va[1]>>
    [] fs.type = "s" -> va[1]
    [] fs.type = "d" -> _itoa(Signed(fs.length, va))
    [] fs.type = "inval" -> <<>>
    [] OTHER -> _utoa(Unsigned(fs.length, va), Radix[fs.type])
Takes(fs) ==
  IF fs.type \in {"%", "inval"} THEN 0
  ELSE IF fs.type \notin {"c", "s"} /\ Wide(fs.length) THEN 2 ELSE 1

\* The loop of _vsnprintf(): all characters, as many as there would be room for.
Written(fmt, words) ==
  LET w[i \in 1..(Len(fmt) + 1), a \in 0..Len(words)] ==
        IF i > Len(fmt) THEN <<>>
        ELSE IF fmt[i] # "%" THEN <<fmt[i]>> \o w[i + 1, a]
        ELSE LET fs == _parse_format_spec(SubSeq(fmt, i, Len(fmt)))
             IN Converted(fs, SubSeq(words, a + 1, Len(words))) \o w[i + fs.len, a + Takes(fs)]
  IN w[1, 0]

\* _buf_writer(): what is in a buffer of n characters in the end.  Faulty variant:
\* the terminator of a text that is cut goes behind the buffer.
Terminator_AtEnd(j, n) == j
Terminator(j, n) == IF j < n THEN j ELSE n - 1
Buffer(chars, n) ==
  [i \in 0..(n - 1) |-> IF i = Terminator(Len(chars), n) THEN NUL
                        ELSE IF i < Len(chars) THEN chars[i + 1] ELSE "junk"]

-----------------------------------------------------------------------------
(* inputs and what the functions are for *)

MemInput == [kind : {"mem"}, m : Memory, dest : 0..3, src : 0..3, n : 0..3]
TextInput == [kind : {"text"}, t : Text, u : Text]
\* A format is a sequence of pieces: the character c, or a specifier with the length
\* len, the type and the argument arg it is meant for.
PrintInput == [kind : {"print"}, f : Format, n : 0..4]
NumInput == [kind : {"num"}, v : Number]

Init == in \in MemInput \cup TextInput \cup PrintInput \cup NumInput

InBounds == in.dest + in.n \in 0..Cardinality(DOMAIN in.m)
              /\ in.src + in.n \in 0..Cardinality(DOMAIN in.m)

\* memmove() copies the bytes that were at src, whichever way the two ranges
\* overlap; memcpy() does when dest is not inside the source; memset() and
\* memcmp() agree with their definitions byte by byte.
MemoryExact ==
  in.kind = "mem" /\ InBounds =>
    LET moved == [i \in DOMAIN in.m |-> IF i \in in.dest..(in.dest + in.n - 1)
                                        THEN in.m[i - in.dest + in.src] ELSE in.m[i]]
        tail(o) == [i \in 0..(in.n - 1) |-> in.m[o + i]]
    IN /\ memmove(in.m, in.dest, in.src, in.n) = moved
       /\ in.dest <= in.src \/ in.dest >= in.src + in.n =>
            memcpy(in.m, in.dest, in.src, in.n) = moved
       /\ memset(in.m, in.dest, 9, in.n) =
            [i \in DOMAIN in.m |-> IF i \in in.dest..(in.dest + in.n - 1) THEN 9 ELSE in.m[i]]
       /\ (memcmp(tail(in.dest), tail(in.src), in.n) = 0) <=> tail(in.dest) = tail(in.src)
       /\ memcmp(tail(in.dest), tail(in.src), in.n) = -memcmp(tail(in.src), tail(in.dest), in.n)

\* What == of two views compares: the sizes, and the characters before the first NUL
\* (unlike std::string_view, which compares those behind it too).
UpToNul(t) == IF NUL \in Range(t) THEN SubSeq(t, 1, SelectInSeq(t, LAMBDA c : c = NUL) - 1) ELSE t
Same(a, b) == Len(a) = Len(b) /\ UpToNul(a) = UpToNul(b)

\* The searches of string_view find what they are named for, at every boundary:
\* needles that are empty, longer than the text, or at its very end (where the
\* unsigned and signed differences of the sizes wrap); and a path is put together
\* again from its partition.  Texts are compared up to a NUL, where strncmp() stops
\* (string_view.h:204): of texts without one that is equality.
ViewExact ==
  in.kind = "text" =>
    LET t == in.t
        u == in.u
        hits == {i \in 0..(Len(t) - Len(u)) : Same(SubSeq(t, i + 1, i + Len(u)), u)}
        p == partition_path(t)
        q == left_partition_path(t)
    IN /\ Equal(t, u) <=> Same(t, u)
       /\ NUL \notin Range(t) => (Equal(t, u) <=> t = u)
       /\ starts_with(t, u) <=> 0 \in hits
       /\ ends_with(t, u) <=> Len(t) - Len(u) \in hits
       /\ find(t, u) = IF hits = {} THEN npos ELSE CHOOSE i \in hits : \A j \in hits : i <= j
       /\ t = (IF "/" \in Range(t) THEN p[1] \o <<"/">> \o p[2] ELSE p[1] \o p[2])
       /\ "/" \notin Range(p[2])
       /\ t = (IF "/" \in Range(t) THEN q[1] \o <<"/">> \o q[2] ELSE q[1] \o q[2])
       /\ "/" \notin Range(q[1])

\* The value of a digit string.
ValueOf(ds, radix) ==
  FoldLeft(LAMBDA v, c : v * radix + (CHOOSE i \in 1..16 : Digit[i] = c) - 1, 0, ds)

\* _utoa() and _itoa() print every number so that it reads back, without leading
\* zeros and within the scratch buffer of Width characters; also the least integer,
\* whose negation overflows (libc.cc:176).  The console's fixed-width digits read
\* back too (console.c:82).
NumberExact ==
  in.kind = "num" =>
    LET u == in.v % 2 ^ Width
        s == _itoa(in.v)
    IN /\ \A r \in {2, 8, 10, 16} :
            LET d == _utoa(u, r)
            IN ValueOf(d, r) = u /\ Len(d) <= Width /\ (d[1] = "0" => d = <<"0">>)
       /\ \A sz \in 1..(Width \div 2) :
            u < 4 ^ sz => /\ ValueOf(_console_printn(u, sz), 2) = u
                          /\ Len(_console_printn(u, sz)) = 2 * sz
       /\ in.v = IF s[1] = "-" THEN -ValueOf(Tail(s), 10) ELSE ValueOf(s, 10)

PieceText(p) == IF p.type = "char" THEN <<p.c>> ELSE <<"%">> \o p.len \o <<p.type>>
FormatText(f) == FlattenSeq([i \in 1..Len(f) |-> PieceText(f[i])])

\* The stack words of a call: an int, to which a short is promoted, is one, a long long
\* is two, the lower half first.  l is taken as ll is (libc.cc:264), so it is given a
\* long long here; with -m32 (Makefile:32) a long would be one word.
PieceWords(p) ==
  CASE p.type \in {"char", "%"} -> <<>>
    [] p.type \in {"c", "s"} -> <<p.arg>>
    [] OTHER -> LET lo == p.arg % 2 ^ WordBits
                    hi == (p.arg \div 2 ^ WordBits) % 2 ^ WordBits
                IN IF p.len \in {<<"l">>, <<"l", "l">>} THEN <<lo, hi>> ELSE <<lo>>
Words(f) == FlattenSeq([i \in 1..Len(f) |-> PieceWords(f[i])])

\* The numeral of v: as many digits as it has, each by its place.
Numeral(v, radix) ==
  LET n == CHOOSE k \in 1..Width : v < radix ^ k /\ (k = 1 \/ v >= radix ^ (k - 1))
  IN [i \in 1..n |-> Digit[((v \div radix ^ (n - i)) % radix) + 1]]

\* What a piece stands for.
Meaning(p) ==
  CASE p.type = "char" -> <<p.c>>
    [] p.type = "%" -> <<"%">>
    [] p.type = "c" -> <<p.arg>>
    [] p.type = "s" -> p.arg
    [] p.type = "d" -> IF p.arg < 0 THEN <<"-">> \o Numeral(-p.arg, 10) ELSE Numeral(p.arg, 10)
    [] OTHER -> Numeral(p.arg, Radix[p.type])
Expected(f) == FlattenSeq([i \in 1..Len(f) |-> Meaning(f[i])])

\* snprintf() writes the conversions of its arguments in order, each read with the
\* width of its length specifier (64 bits for l too), ends the text with NUL inside a
\* buffer of any size, cuts it where the buffer ends, leaves the rest alone, and knows
\* the length of the whole text (libc.cc:222).  hh is excepted: the comment at
\* libc.cc:64 lists it, but it is no specifier (libc.cc:96-101): its letters are
\* written, and its argument is left to the specifiers behind it, which is undefined
\* behaviour.
PrintExact ==
  in.kind = "print" =>
    LET hh == {i \in 1..Len(in.f) : in.f[i].len = <<"h", "h">>}
        upto == SubSeq(in.f, 1, CHOOSE i \in hh : \A j \in hh : i <= j)
        e == Expected(in.f)
        w == Written(FormatText(in.f), Words(in.f))
        k == IF Len(e) < in.n THEN Len(e) ELSE in.n - 1
        b == Buffer(w, in.n)
    IN IF hh # {}
       THEN Written(FormatText(upto), Words(upto)) =
              Expected(Front(upto)) \o <<"h", "h", Last(upto).type>>
       ELSE /\ Len(w) = Len(e)
            /\ in.n > 0 => /\ \A i \in 0..(k - 1) : b[i] = e[i + 1]
                           /\ b[k] = NUL /\ \A i \in (k + 1)..(in.n - 1) : b[i] = "junk"
=============================================================================
