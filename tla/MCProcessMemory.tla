-------------------------- MODULE MCProcessMemory ---------------------------
\* A program of one or two segments in a file of fifteen bytes, pages of four.
EXTENDS ProcessMemory

Segment(v, f, m, w) ==
  [load |-> TRUE, vaddr |-> v, offset |-> v - 4, filesz |-> f, memsz |-> m, prot |-> [r |-> TRUE, w |-> w]]
Images == {<<Segment(v, f, f + x, w)>> : v \in 4..7, f \in 1..9, x \in {0, 1, 4}, w \in BOOLEAN}
            \cup {<<Segment(4, 5, 6, FALSE), Segment(12, 3, 4, TRUE)>>}
FileBytes == [k \in 0..14 |-> k + 1]
=============================================================================
