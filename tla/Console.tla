------------------------------ MODULE Console -------------------------------
(***************************************************************************)
(* The text console (common/console.c): a buffer of CONSOLE_HEIGHT rows    *)
(* that is flushed to the screen after every string.                       *)
(***************************************************************************)
EXTENDS Integers, Sequences

CONSTANTS CONSOLE_WIDTH, CONSOLE_HEIGHT, Char,
          MaxRows           \* bound on the rows written

ASSUME ConsoleAssumption ==
  CONSOLE_WIDTH \in Nat \ {0} /\ CONSOLE_HEIGHT \in Nat \ {0} /\ MaxRows \in Nat

VARIABLES console_x, console_y, console_buf, vga_buf,
          sheet,            \* history: the rows an endless sheet would show
          col               \* history: the column of its last row

consoleVars == <<console_x, console_y, console_buf, vga_buf, sheet, col>>

Cell == 0..(CONSOLE_WIDTH * CONSOLE_HEIGHT - 1)
EmptyChar == " "
BlankRow == [c \in 0..(CONSOLE_WIDTH - 1) |-> EmptyChar]
Screen(b) == [i \in Cell |-> b[i]]

ConsoleInit ==
  /\ console_x = 0 /\ console_y = 0
  /\ console_buf = [i \in Cell |-> EmptyChar] /\ vga_buf = console_buf
  /\ sheet = <<BlankRow>> /\ col = 0

\* Faulty variant: the new last row keeps what was there.
LastRow_Kept(b, i) == b[i]
LastRow(b, i) == EmptyChar

\* The rows move up.
Scrolled(b) ==
  [i \in Cell |-> IF i + CONSOLE_WIDTH \in Cell THEN b[i + CONSOLE_WIDTH] ELSE LastRow(b, i)]

\* Next line with b in the buffer; the rows move up at the bottom.
cursor_down(b) ==
  \/ console_y + 1 < CONSOLE_HEIGHT /\ console_y' = console_y + 1 /\ console_buf' = b
  \/ console_y + 1 >= CONSOLE_HEIGHT /\ console_y' = console_y /\ console_buf' = Scrolled(b)

Wraps == console_x + 1 >= CONSOLE_WIDTH

Put(b, c) == [b EXCEPT ![CONSOLE_WIDTH * console_y + console_x] = c]
Written(s, c) == [s EXCEPT ![Len(s)] = [@ EXCEPT ![col] = c]]

newline ==
  /\ cursor_down(console_buf) /\ UNCHANGED console_x
  /\ sheet' = Append(sheet, BlankRow) /\ UNCHANGED col

carriage_return ==
  /\ console_x' = 0 /\ UNCHANGED <<console_y, console_buf>>
  /\ col' = 0 /\ UNCHANGED sheet

printed(c) ==
  /\ \/ Wraps /\ cursor_down(Put(console_buf, c)) /\ console_x' = 0
     \/ /\ ~Wraps /\ console_buf' = Put(console_buf, c)
        /\ console_x' = console_x + 1 /\ UNCHANGED console_y
  /\ IF col + 1 = CONSOLE_WIDTH
     THEN col' = 0 /\ sheet' = Append(Written(sheet, c), BlankRow)
     ELSE col' = col + 1 /\ sheet' = Written(sheet, c)

\* console_puts() of one character: it is put and the buffer flushed.
putchar(c) ==
  /\ Len(sheet) < MaxRows
  /\ \/ c = "\n" /\ newline
     \/ c = "\r" /\ carriage_return
     \/ c \notin {"\n", "\r"} /\ printed(c)
  /\ vga_buf' = Screen(console_buf')

ConsoleNext == \E c \in Char \cup {"\n", "\r"} : putchar(c)

ConsoleSpec == ConsoleInit /\ [][ConsoleNext]_consoleVars

\* The first row of s that the screen has room for, and row k, blank below the end.
Top(s) == IF Len(s) > CONSOLE_HEIGHT THEN Len(s) - CONSOLE_HEIGHT ELSE 0
Row(s, k) == IF k <= Len(s) THEN s[k] ELSE BlankRow
LastRows(s) == [i \in Cell |-> Row(s, Top(s) + (i \div CONSOLE_WIDTH) + 1)[i % CONSOLE_WIDTH]]

\* The screen shows the last rows of everything written, wherever lines wrap and
\* scroll, and the cursor is in the last of them (console.c:16-60).
ScreenIsTail ==
  /\ vga_buf = LastRows(sheet)
  /\ console_x = col /\ console_y = Len(sheet) - Top(sheet) - 1
=============================================================================
