---------------------------- MODULE MCSimplePFA -----------------------------
\* SimplePFA on page frame tables of up to MaxFrame frames.
EXTENDS SimplePFA

CONSTANT MaxFrame

Region(b, n) == [base |-> b, len |-> n]

\* Usable regions as PageFrameTable yields them: sorted, disjoint, page-aligned.
RegionMaps ==
  {<<Region(b, n)>> : b \in 0..1, n \in 1..MaxFrame}
    \cup {<<Region(a, n), Region(a + n + g, m)>> :
             a \in 0..1, n \in 1..2, g \in 0..2, m \in 1..3}

Limit(r) == r[Len(r)].base + r[Len(r)].len

\* entry(): one allocator for all of memory.
WholeMemory ==
  {[start |-> 0, end |-> Limit(r), regions |-> r] : r \in {q \in RegionMaps : Limit(q) <= MaxFrame}}

Frames == 0..(MaxFrame - 1)
=============================================================================
