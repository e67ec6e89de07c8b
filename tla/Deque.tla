------------------------------- MODULE Deque --------------------------------
(***************************************************************************)
(* nonstd::deque (nonstd/deque.h): a ring of pointers to blocks.  A block  *)
(* is nullptr or the elements in it; Dead is an element that was never     *)
(* constructed or is destroyed.  queue.h and stack.h are push_back() with  *)
(* pop_front() and pop_back().                                             *)
(***************************************************************************)
EXTENDS Integers, Sequences, FiniteSets

CONSTANTS Value, Dead, nullptr,
          elems_per_block, min_block_count,
          SizeMod,   \* size_t counts modulo this
          MaxIdx,    \* bound on start_idx + size, in elements
          MaxLen     \* bound on the number of elements

VARIABLES this,   \* the deque: [blocks, start_block, start_idx, size]
          std,    \* history: the sequence it stands for
          it      \* an iterator and what it points at, or nullptr

vars == <<this, std, it>>

block_count(d) == Cardinality(DOMAIN d.blocks)

get_block_elem_idx(d, idx) ==
  <<(d.start_block + idx \div elems_per_block) % block_count(d), idx % elems_per_block>>

\* operator[] and its use as a place to construct or destroy an element.
Place(d, pos) == get_block_elem_idx(d, d.start_idx + pos)
Get(d, pos) == LET p == Place(d, pos) IN d.blocks[p[1]][p[2]]
Set(d, pos, v) == LET p == Place(d, pos) IN [d EXCEPT !.blocks[p[1]][p[2]] = v]

NewBlock == [i \in 0..(elems_per_block - 1) |-> Dead]

Empty == [blocks |-> [i \in 0..(min_block_count - 1) |-> nullptr],
          start_block |-> 0, start_idx |-> 0, size |-> 0]

\* The block array is full.  Faulty variant: one block too early.
FullAtEnd_Early(d) == d.start_idx + d.size >= elems_per_block * (block_count(d) - 1)
FullAtEnd(d) == d.start_idx + d.size >= elems_per_block * block_count(d)

\* Faulty variant: a block too late.
FullAtStart_Late(d) == d.start_idx = 0 /\ d.size > elems_per_block * block_count(d)
FullAtStart(d) == d.start_idx = 0 /\ d.size > elems_per_block * (block_count(d) - 1)

\* The ring is unrolled into an array of twice the size.
realloc_blocks_array(d) ==
  LET n == block_count(d) IN
  [d EXCEPT !.blocks = [i \in 0..(2 * n - 1) |->
                          IF i < n THEN d.blocks[(d.start_block + i) % n] ELSE nullptr],
            !.start_block = 0]

allocate_start(d) ==
  LET r == IF FullAtStart(d) THEN realloc_blocks_array(d) ELSE d
      s == (r.start_block + block_count(r) - 1) % block_count(r)
  IN [r EXCEPT !.start_block = s, !.blocks[s] = NewBlock]

allocate_end(d) ==
  LET r == IF FullAtEnd(d) THEN realloc_blocks_array(d) ELSE d
      b == get_block_elem_idx(r, d.start_idx + d.size)[1]
  IN IF r.blocks[b] = nullptr THEN [r EXCEPT !.blocks[b] = NewBlock] ELSE r

\* emplace() at end() and at begin(); in an empty deque begin() is end().
emplace_end(d, v) ==
  LET r == IF (d.start_idx + d.size) % elems_per_block = 0 THEN allocate_end(d) ELSE d
  IN [Set(r, d.size, v) EXCEPT !.size = @ + 1]

emplace_begin(d, v) ==
  IF d.size = 0 THEN emplace_end(d, v)
  ELSE LET r == IF d.start_idx = 0
                THEN [allocate_start(d) EXCEPT !.start_idx = elems_per_block - 1]
                ELSE [d EXCEPT !.start_idx = @ - 1]
       IN [Set(r, 0, v) EXCEPT !.size = @ + 1]

\* erase(): the first element moves start_idx, also when it is the last as well.
\* Faulty variant: pop_back() leaves start_idx alone in a deque of one element.
erase_StayAtZero(d, pos) ==
  [Set(d, pos, Dead) EXCEPT !.start_idx = IF pos = 0 /\ d.size > 1 THEN @ + 1 ELSE @,
                            !.size = @ - 1]
erase(d, pos) ==
  [Set(d, pos, Dead) EXCEPT !.start_idx = IF pos = 0 THEN @ + 1 ELSE @, !.size = @ - 1]

\* op applied n times.
Times(op(_), d, n) ==
  LET f[k \in 0..n] == IF k = 0 THEN d ELSE op(f[k - 1]) IN f[n]

EraseFirst(d) == erase(d, 0)
EraseLast(d) == erase(d, d.size - 1)

\* erase(begin(), end())
clear(d) == Times(EraseFirst, d, d.size)

\* resize(count, value) and insert(end(), count, value).
resize(d, count, v) ==
  IF count < d.size THEN Times(EraseLast, d, d.size - count)
  ELSE Times(LAMBDA e : emplace_end(e, v), d, count - d.size)

\* The blocks freed at the end are counted in offsets from start_block: from the
\* one after the last element, up to the first that is nullptr.
shrink_to_fit(d) ==
  LET n == block_count(d)
      At(o) == (d.start_block + o) % n
      o0 == (((d.start_idx + d.size - 1 + SizeMod) % SizeMod) \div elems_per_block + 1) % n
      end == {o \in o0..(n - 1) : o0 # 0 /\ \A p \in o0..o : d.blocks[At(p)] # nullptr}
      front == d.start_idx \div elems_per_block
      freed == {At(o) : o \in end \cup 0..(front - 1)}
      s == At(front)
      gone == IF d.size = 0 THEN freed \cup {s} ELSE freed
  IN [d EXCEPT !.blocks = [b \in DOMAIN @ |-> IF b \in gone THEN nullptr ELSE @[b]],
               !.start_block = s,
               !.start_idx = IF d.size = 0 /\ s \notin freed /\ d.blocks[s] # nullptr
                             THEN 0 ELSE @ % elems_per_block]

Init == this = Empty /\ std = <<>> /\ it = nullptr

\* The operations; those that insert or shrink invalidate iterators.
Op(d, s) == this' = d /\ std' = s

Room(n) == /\ Len(std) + n <= MaxLen
           /\ this.start_idx + this.size + n <= MaxIdx

push_back(v) ==
  /\ Room(1) /\ Op(emplace_end(this, v), Append(std, v)) /\ it' = nullptr
push_front(v) ==
  /\ Room(1) /\ Op(emplace_begin(this, v), <<v>> \o std) /\ it' = nullptr
pop_back ==
  /\ std # <<>> /\ UNCHANGED it
  /\ Op(EraseLast(this), SubSeq(std, 1, Len(std) - 1))
pop_front ==
  /\ std # <<>> /\ Op(EraseFirst(this), Tail(std)) /\ UNCHANGED it
Clear == Op(clear(this), <<>>) /\ UNCHANGED it
Resize(n, v) ==
  /\ Room(n - Len(std)) /\ it' = nullptr
  /\ Op(resize(this, n, v),
        [i \in 1..n |-> IF i <= Len(std) THEN std[i] ELSE v])
ShrinkToFit == Op(shrink_to_fit(this), std) /\ it' = nullptr

\* operator=({v}): swap() with a deque just built, which is then destroyed.
assign(v) == Op(emplace_end(Empty, v), <<v>>) /\ it' = nullptr

\* begin() + i.  Faulty variant: the index does not include start_idx.
make_iterator_Relative(i) ==
  [idx |-> i, start_block |-> this.start_block, block_count |-> block_count(this)]
make_iterator(i) ==
  [idx |-> this.start_idx + i, start_block |-> this.start_block, block_count |-> block_count(this)]

\* An iterator is remembered with the element it stands for.
TakeIterator(i) ==
  /\ it = nullptr /\ i < this.size
  /\ it' = [at |-> make_iterator(i), value |-> Get(this, i)]
  /\ UNCHANGED <<this, std>>

\* operator*: through the fields of the iterator and the array of blocks.
Deref(i) ==
  LET b == (i.start_block + i.idx \div elems_per_block) % i.block_count
  IN this.blocks[b][i.idx % elems_per_block]

Next ==
  \/ \E v \in Value : push_back(v) \/ push_front(v) \/ assign(v) \/ \E n \in 0..MaxLen : Resize(n, v)
  \/ pop_back \/ pop_front \/ Clear \/ ShrinkToFit
  \/ \E i \in 0..(MaxLen - 1) : TakeIterator(i)

-----------------------------------------------------------------------------
Contents(d) == [i \in 1..d.size |-> Get(d, i - 1)]

\* A deque is the sequence std::deque would be, through wrapping of the ring,
\* growing of the block array, spare blocks and pops from both ends.
DequeIsSequence == Contents(this) = std

\* ASSERT(_blocks[from] != nullptr) at deque.h:468: whenever the array of blocks is
\* about to be doubled, all of its blocks are there.
ReallocAssert ==
  FullAtEnd(this) \/ FullAtStart(this) =>
     \A b \in DOMAIN this.blocks : this.blocks[b] # nullptr

\* "shrink_to_fit() necessary to reclaim the blocks, which should all be empty now"
\* (deque.h:50), and the loop that asserts it: the destructor frees every block.
DestructorFrees ==
  LET d == shrink_to_fit(clear(this))
  IN \A b \in DOMAIN d.blocks : d.blocks[b] = nullptr

\* "This can _not_ be invalidated on deque::erase() if erasing the first or last
\* element" (deque.h:229): an iterator still finds its element after any pops that
\* left the element in the deque.
IteratorStable ==
  it # nullptr /\ it.at.idx \in this.start_idx..(this.start_idx + this.size - 1) =>
     Deref(it.at) = it.value
=============================================================================
