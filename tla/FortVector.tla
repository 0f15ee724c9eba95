----------------------------- MODULE FortVector ------------------------------
(***************************************************************************)
(* The vectors of libfort (vector.c): a table is a vector of rows and one  *)
(* of separators, a row a vector of cells.  `data` is what lies below      *)
(* m_size, `cap` is m_capacity.  Whatever is put behind the end leaves a   *)
(* gap of memory nobody has written, Junk.  Positions count from 0.        *)
(***************************************************************************)
EXTENDS Integers, Sequences, Functions

CONSTANT Junk

create_vector(capacity) == [data |-> << >>, cap |-> capacity]

\* A vector that could not grow: m_data is null, whatever m_size and m_capacity
\* still say (vector_reallocate_).
Nowhere == [data |-> << >>, cap |-> 0]

vector_size(v) == Len(v.data)

vector_at(v, i) == v.data[i + 1]

VectorSet(v, i, x) == [v EXCEPT !.data[i + 1] = x]

Larger(m, n) == IF m > n THEN m ELSE n
Smaller(m, n) == IF m < n THEN m ELSE n

vector_push(v, x) ==
  [data |-> Append(v.data, x),
   cap  |-> IF vector_size(v) = v.cap THEN 2 * v.cap ELSE v.cap]

\* The first n items, or all of them and a gap up to n.
Before(v, n) == [k \in 1 .. n |-> IF k <= vector_size(v) THEN v.data[k] ELSE Junk]

From(v, n) == SubSeq(v.data, n + 1, vector_size(v))

\* mutant: room for the item, but not for those it pushes behind
InsertNoRoom(v, x, pos) ==
  [data |-> Before(v, pos) \o <<x>> \o From(v, pos), cap |-> Larger(v.cap, pos + 1)]

vector_insert(v, x, pos) ==
  [data |-> Before(v, pos) \o <<x>> \o From(v, pos),
   cap  |-> Larger(v.cap, Larger(pos, vector_size(v)) + 1)]

\* What stays, and the new vector, made to measure.
SplitHead(v, pos) == [v EXCEPT !.data = Before(v, pos)]
SplitTail(v, pos) == [data |-> From(v, pos), cap |-> Len(From(v, pos))]

\* The items of mv overwrite those of v from pos on; what they overwrite goes
\* to mv, which its caller destroys.
SwapRoom(v, mv, pos) == [v EXCEPT !.cap = Larger(@, pos + vector_size(mv))]

vector_swap(v, mv, pos) ==
  IF mv.data = << >> THEN v
  ELSE [SwapRoom(v, mv, pos) EXCEPT
          !.data = Before(v, pos) \o mv.data \o From(v, pos + vector_size(mv))]

vector_erase(v, i) == [v EXCEPT !.data = Before(v, i) \o From(v, i + 1)]

\* Items pushed until there are n of them, as every *_create_if_not_exists does.
PadTo(v, n, x) ==
  LET more == Larger(0, n - vector_size(v))
      Padded[k \in 0 .. more] == IF k = 0 THEN v ELSE vector_push(Padded[k - 1], x)
  IN  Padded[more]

\* A vector never holds more than its memory, and can always be doubled.
VectorFits(v) == vector_size(v) <= v.cap /\ v.cap > 0
=============================================================================
