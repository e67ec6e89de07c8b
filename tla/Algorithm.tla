----------------------------- MODULE Algorithm ------------------------------
\* The rounding of util/algorithm.h, to pages; PG_SZ is the bytes in one.
EXTENDS Integers

CONSTANT PG_SZ

ASSUME PageAssumption == PG_SZ \in Nat \ {0}

floor_pg(n) == n - (n % PG_SZ)
ceil_pg(n) == floor_pg(n + PG_SZ - 1)
=============================================================================
