--------------------------- MODULE FortTableProofs ---------------------------
(***************************************************************************)
(* Proofs about module FortTable for tables of any size and any sequence   *)
(* of calls.  First the vectors: what each operation makes of a vector     *)
(* that fits its memory.  Then the invariant: until the caller has put the *)
(* cursor behind the end of a row there is nothing unwritten in the table, *)
(* and the cursor stays where the next call may write; or a vector could   *)
(* not grow, and what is left is not used again.                           *)
(***************************************************************************)
EXTENDS FortTable, DataLemmas, FiniteSetTheorems

\* The vectors of members of S that fit their memory and can be doubled.
Vec(S) == {v \in [data: Seq(S), cap: Nat] : VectorFits(v)}

\* The cells with the texts written so far.
CellsUpTo(n) == [text: 0 .. n, type: CellTypes]

-----------------------------------------------------------------------------
(* Vectors *)

\* What is known of a vector.
LEMMA VecIs ==
  ASSUME NEW S, NEW v \in Vec(S)
  PROVE  /\ v = [data |-> v.data, cap |-> v.cap]
         /\ v.data \in Seq(S) /\ v.cap \in Nat \ {0}
         /\ Len(v.data) \in Nat /\ Len(v.data) <= v.cap
         /\ DOMAIN v.data = 1 .. Len(v.data)
         /\ \A k \in 1 .. Len(v.data) : v.data[k] \in S
         /\ vector_size(v) = Len(v.data)
  <1>1. /\ v.data \in Seq(S) /\ v.cap \in Nat /\ VectorFits(v)
        /\ v = [data |-> v.data, cap |-> v.cap]
    BY DEF Vec
  <1>2. vector_size(v) = Len(v.data)
    BY DEF vector_size
  <1> QED BY <1>1, <1>2, LenProperties, ElementOfSeq DEF VectorFits

\* What makes a vector.
LEMMA IsVec ==
  ASSUME NEW S, NEW d \in Seq(S), NEW c \in Nat, Len(d) <= c, c > 0
  PROVE  [data |-> d, cap |-> c] \in Vec(S)
BY DEF Vec, VectorFits, vector_size

\* A vector of some things is a vector of more things.
LEMMA VecMono ==
  ASSUME NEW S, NEW T, S \subseteq T
  PROVE  Vec(S) \subseteq Vec(T)
  <1> SUFFICES ASSUME NEW v \in Vec(S) PROVE v \in Vec(T)
    OBVIOUS
  <1>1. v.data \in Seq(T)
    BY VecIs, SeqMonotonic
  <1> QED BY <1>1, VecIs, IsVec

\* A function on the first numbers is a sequence.
LEMMA FunIsSeq ==
  ASSUME NEW S, NEW n \in Nat, NEW f \in [1 .. n -> S]
  PROVE  f \in Seq(S) /\ Len(f) = n
  <1>1. f \in Seq(S)
    BY SeqDef
  <1>2. Len(f) \in Nat /\ 1 .. Len(f) = 1 .. n
    BY <1>1, LenProperties
  <1> QED BY <1>1, <1>2

\* The first n items, and a gap if there are not so many.
LEMMA BeforeIs ==
  ASSUME NEW S, NEW v \in Vec(S), NEW n \in Nat, n <= Len(v.data) \/ Junk \in S
  PROVE  /\ Before(v, n) \in Seq(S) /\ Len(Before(v, n)) = n
         /\ \A k \in 1 .. n : Before(v, n)[k] = IF k <= Len(v.data) THEN v.data[k] ELSE Junk
  <1>1. vector_size(v) = Len(v.data) /\ Len(v.data) \in Nat
        /\ \A k \in 1 .. Len(v.data) : v.data[k] \in S
    BY VecIs
  <1>2. Before(v, n) \in [1 .. n -> S]
    BY <1>1 DEF Before
  <1>3. \A k \in 1 .. n : Before(v, n)[k] = IF k <= Len(v.data) THEN v.data[k] ELSE Junk
    BY <1>1 DEF Before
  <1> QED BY <1>2, <1>3, FunIsSeq

\* The items from n on.
LEMMA FromIs ==
  ASSUME NEW S, NEW v \in Vec(S), NEW n \in Nat
  PROVE  /\ From(v, n) \in Seq(S)
         /\ Len(From(v, n)) = IF n < Len(v.data) THEN Len(v.data) - n ELSE 0
         /\ \A k \in 1 .. Len(From(v, n)) :
              n + k \in 1 .. Len(v.data) /\ From(v, n)[k] = v.data[n + k]
  <1> DEFINE d == v.data  m == Len(v.data)
  <1>1. m \in Nat /\ d \in Seq(S) /\ \A k \in 1 .. m : d[k] \in S
    BY VecIs
  <1>2. From(v, n) = SubSeq(d, n + 1, m)
    BY VecIs DEF From
  <1> HIDE DEF d, m
  <1>3. \A k \in n + 1 .. m : d[k] \in S
    BY <1>1
  <1>4. /\ SubSeq(d, n + 1, m) \in Seq(S)
        /\ Len(SubSeq(d, n + 1, m)) = IF n + 1 <= m THEN m - (n + 1) + 1 ELSE 0
        /\ \A k \in 1 .. m - (n + 1) + 1 : SubSeq(d, n + 1, m)[k] = d[n + 1 + k - 1]
    BY <1>1, <1>3, SubSeqProperties, SMTT(30)
  <1>5. \A k \in 1 .. Len(From(v, n)) :
          k \in 1 .. m - (n + 1) + 1 /\ n + 1 + k - 1 = n + k /\ n + k \in 1 .. m
    BY <1>1, <1>2, <1>4
  <1>6. Len(From(v, n)) = IF n < m THEN m - n ELSE 0
    BY <1>1, <1>2, <1>4
  <1> QED BY <1>2, <1>4, <1>5, <1>6 DEF d, m

\* An item pushed is the last one; a full vector is doubled first.
LEMMA PushIs ==
  ASSUME NEW S, NEW v \in Vec(S), NEW x \in S
  PROVE  LET w == vector_push(v, x) IN
         /\ w \in Vec(S) /\ Len(w.data) = Len(v.data) + 1
         /\ \A k \in 1 .. Len(v.data) : w.data[k] = v.data[k]
         /\ w.data[Len(v.data) + 1] = x
  <1> DEFINE d == Append(v.data, x)
             c == IF vector_size(v) = v.cap THEN 2 * v.cap ELSE v.cap
  <1>1. /\ d \in Seq(S) /\ Len(d) = Len(v.data) + 1
        /\ \A k \in 1 .. Len(v.data) : d[k] = v.data[k]
        /\ d[Len(v.data) + 1] = x
    BY VecIs, AppendProperties
  <1>2. c \in Nat /\ c > 0 /\ Len(v.data) + 1 <= c
    BY VecIs
  <1>3. vector_push(v, x) = [data |-> d, cap |-> c]
    BY DEF vector_push
  <1> HIDE DEF d, c
  <1> QED BY <1>1, <1>2, <1>3, IsVec

\* An item inserted is at its place, and those from there on are behind it.
LEMMA InsertIs ==
  ASSUME NEW S, NEW v \in Vec(S), NEW x \in S, NEW pos \in Nat,
         pos <= Len(v.data) \/ Junk \in S
  PROVE  LET w == vector_insert(v, x, pos) IN
         /\ w \in Vec(S)
         /\ Len(w.data) = Larger(pos, Len(v.data)) + 1
         /\ \A k \in 1 .. Len(w.data) :
              w.data[k] = IF k <= pos
                          THEN IF k <= Len(v.data) THEN v.data[k] ELSE Junk
                          ELSE IF k = pos + 1 THEN x ELSE v.data[k - 1]
  <1> DEFINE b == Before(v, pos)  f == From(v, pos)  n == Len(v.data)
             c == Larger(v.cap, Larger(pos, vector_size(v)) + 1)
             d == b \o <<x>> \o f
  <1>1. /\ b \in Seq(S) /\ Len(b) = pos
        /\ \A k \in 1 .. pos : b[k] = IF k <= n THEN v.data[k] ELSE Junk
    BY BeforeIs
  <1>2. /\ f \in Seq(S) /\ Len(f) = IF pos < n THEN n - pos ELSE 0
        /\ \A k \in 1 .. Len(f) : f[k] = v.data[pos + k]
    BY FromIs
  <1>3. vector_insert(v, x, pos) = [data |-> d, cap |-> c]
    BY DEF vector_insert
  <1>4. n \in Nat /\ c \in Nat /\ c > 0 /\ Larger(pos, n) + 1 <= c
    BY VecIs DEF Larger
  <1> HIDE DEF b, f, n, c
  <1>5. /\ b \o <<x>> \in Seq(S) /\ Len(b \o <<x>>) = pos + 1
        /\ \A k \in 1 .. pos + 1 : (b \o <<x>>)[k] = IF k <= pos THEN b[k] ELSE x
    <2>1. <<x>> \in Seq(S) /\ Len(<<x>>) = 1 /\ <<x>>[1] = x
      OBVIOUS
    <2> QED BY <1>1, <2>1, ConcatProperties
  <1>6. /\ d \in Seq(S) /\ Len(d) = pos + 1 + Len(f)
        /\ \A k \in 1 .. pos + 1 + Len(f) :
             d[k] = IF k <= pos + 1 THEN (b \o <<x>>)[k] ELSE f[k - (pos + 1)]
    <2> DEFINE e == b \o <<x>>
    <2>1. e \in Seq(S) /\ Len(e) = pos + 1 /\ d = e \o f
      BY <1>5
    <2> HIDE DEF e, d
    <2>2. /\ d \in Seq(S) /\ Len(d) = Len(e) + Len(f)
          /\ \A k \in 1 .. Len(e) + Len(f) :
               d[k] = IF k <= Len(e) THEN e[k] ELSE f[k - Len(e)]
      BY <1>2, <2>1, ConcatProperties
    <2> QED BY <2>1, <2>2 DEF e
  <1> HIDE DEF d
  <1>7. Len(d) = Larger(pos, n) + 1
    BY <1>2, <1>4, <1>6 DEF Larger
  <1>8. ASSUME NEW k \in 1 .. Len(d)
        PROVE  d[k] = IF k <= pos
                      THEN IF k <= n THEN v.data[k] ELSE Junk
                      ELSE IF k = pos + 1 THEN x ELSE v.data[k - 1]
    <2>1. CASE k <= pos + 1
      <3>1. k \in 1 .. pos + 1 /\ k \in 1 .. pos + 1 + Len(f)
        BY <1>6, <1>8, <2>1
      <3>2. d[k] = IF k <= pos THEN b[k] ELSE x
        BY <1>5, <1>6, <2>1, <3>1
      <3>3. k <= pos => k \in 1 .. pos
        BY <3>1
      <3> QED BY <1>1, <2>1, <3>2, <3>3
    <2>2. CASE k > pos + 1
      <3>1. k - (pos + 1) \in 1 .. Len(f) /\ pos + (k - (pos + 1)) = k - 1
        BY <1>2, <1>4, <1>6, <2>2
      <3>2. d[k] = f[k - (pos + 1)] /\ f[k - (pos + 1)] = v.data[k - 1]
        BY <1>2, <1>6, <2>2, <3>1
      <3> QED BY <2>2, <3>2
    <2> QED BY <2>1, <2>2
  <1>9. vector_insert(v, x, pos) \in Vec(S)
    BY <1>3, <1>4, <1>6, <1>7, IsVec
  <1> QED BY <1>3, <1>7, <1>8, <1>9 DEF n

\* An item is replaced.
LEMMA SetIs ==
  ASSUME NEW S, NEW v \in Vec(S), NEW i \in Nat, i < Len(v.data), NEW x \in S
  PROVE  LET w == VectorSet(v, i, x) IN
         /\ w \in Vec(S) /\ Len(w.data) = Len(v.data)
         /\ \A k \in 1 .. Len(v.data) : w.data[k] = IF k = i + 1 THEN x ELSE v.data[k]
  <1> DEFINE d == [v.data EXCEPT ![i + 1] = x]
  <1>1. i + 1 \in 1 .. Len(v.data)
    BY VecIs
  <1>2. /\ d \in Seq(S) /\ Len(d) = Len(v.data)
        /\ \A k \in 1 .. Len(v.data) : d[k] = IF k = i + 1 THEN x ELSE v.data[k]
    BY <1>1, VecIs, ExceptSeq
  <1>3. VectorSet(v, i, x) = [data |-> d, cap |-> v.cap]
    <2>1. VectorSet(v, i, x) = [v EXCEPT !.data = d]
      BY DEF VectorSet
    <2>2. v = [data |-> v.data, cap |-> v.cap]
      BY VecIs
    <2> HIDE DEF d
    <2> QED BY <2>1, <2>2
  <1> HIDE DEF d
  <1> QED BY <1>2, <1>3, VecIs, IsVec

\* An item goes, and those behind it close up.
LEMMA EraseIs ==
  ASSUME NEW S, NEW v \in Vec(S), NEW i \in Nat, i < Len(v.data)
  PROVE  LET w == vector_erase(v, i) IN
         /\ w \in Vec(S) /\ Len(w.data) = Len(v.data) - 1
         /\ \A k \in 1 .. Len(w.data) : w.data[k] = IF k <= i THEN v.data[k] ELSE v.data[k + 1]
  <1> DEFINE b == Before(v, i)  f == From(v, i + 1)  n == Len(v.data)  d == b \o f
  <1>1. n \in Nat /\ i + 1 \in Nat /\ i < n /\ n <= v.cap /\ v.cap \in Nat /\ v.cap > 0
    BY VecIs
  <1>2. b \in Seq(S) /\ Len(b) = i /\ \A k \in 1 .. i : b[k] = IF k <= n THEN v.data[k] ELSE Junk
    BY <1>1, BeforeIs
  <1>3. /\ f \in Seq(S) /\ Len(f) = IF i + 1 < n THEN n - (i + 1) ELSE 0
        /\ \A k \in 1 .. Len(f) : f[k] = v.data[i + 1 + k]
    BY <1>1, FromIs
  <1>4. vector_erase(v, i) = [data |-> d, cap |-> v.cap]
    <2>1. v = [data |-> v.data, cap |-> v.cap] /\ vector_erase(v, i) = [v EXCEPT !.data = d]
      BY VecIs DEF vector_erase
    <2> HIDE DEF d
    <2> QED BY <2>1
  <1> HIDE DEF b, f, n
  <1>5. /\ d \in Seq(S) /\ Len(d) = i + Len(f)
        /\ \A k \in 1 .. i + Len(f) : d[k] = IF k <= i THEN b[k] ELSE f[k - i]
    <2>1. b \in Seq(S) /\ f \in Seq(S)
      BY <1>2, <1>3
    <2>2. /\ b \o f \in Seq(S) /\ Len(b \o f) = Len(b) + Len(f)
          /\ \A k \in 1 .. Len(b) + Len(f) :
               (b \o f)[k] = IF k <= Len(b) THEN b[k] ELSE f[k - Len(b)]
      BY <2>1, ConcatProperties
    <2> QED BY <1>2, <2>2
  <1>6. n - 1 \in Nat /\ i + Len(f) = n - 1 /\ Len(f) \in Nat
    BY <1>1, <1>3
  <1> HIDE DEF d
  <1>7. ASSUME NEW k \in 1 .. n - 1
        PROVE  d[k] = IF k <= i THEN v.data[k] ELSE v.data[k + 1]
    <2>1. CASE k <= i
      <3>1. k \in 1 .. i /\ k <= n /\ k \in 1 .. i + Len(f)
        BY <1>1, <1>6, <2>1
      <3>2. d[k] = b[k] /\ b[k] = v.data[k]
        BY <1>2, <1>5, <2>1, <3>1
      <3> QED BY <2>1, <3>2
    <2>2. CASE k > i
      <3>1. /\ k - i \in 1 .. Len(f) /\ i + 1 + (k - i) = k + 1
            /\ k \in 1 .. i + Len(f) /\ ~(k <= i)
        BY <1>1, <1>6, <2>2
      <3>2. d[k] = f[k - i] /\ f[k - i] = v.data[k + 1]
        BY <1>3, <1>5, <3>1
      <3> QED BY <3>1, <3>2
    <2>3. k <= i \/ k > i
      BY <1>1, <1>6
    <2> QED BY <2>1, <2>2, <2>3
  <1>8. vector_erase(v, i) \in Vec(S)
    BY <1>1, <1>4, <1>5, <1>6, IsVec
  <1> QED BY <1>4, <1>5, <1>6, <1>7, <1>8 DEF n

\* Items pushed until there are n of them: what was there stays, the rest is x.
LEMMA PadIs ==
  ASSUME NEW S, NEW v \in Vec(S), NEW n \in Nat, NEW x \in S
  PROVE  LET p == PadTo(v, n, x) IN
         /\ p \in Vec(S)
         /\ Len(p.data) = Larger(n, Len(v.data))
         /\ \A k \in 1 .. Len(p.data) :
              p.data[k] = IF k <= Len(v.data) THEN v.data[k] ELSE x
  <1> DEFINE m == Len(v.data)
             N == Larger(0, n - vector_size(v))
             V == Vec(S)
             step == [p \in (1 .. N) \X V |-> vector_push(p[2], x)]
             Is(E) == E = [k \in 0 .. N |-> IF k = 0 THEN v ELSE vector_push(E[k - 1], x)]
             P == CHOOSE E : Is(E)
             Padded(k, w) ==
               /\ w \in V /\ Len(w.data) = m + k
               /\ \A j \in 1 .. m + k : w.data[j] = IF j <= m THEN v.data[j] ELSE x
  <1>1. m \in Nat /\ N \in Nat /\ m + N = Larger(n, m)
    BY VecIs DEF Larger
  <1>2. PadTo(v, n, x) = P[N]
    BY DEF PadTo
  <1> HIDE DEF m, N, P
  <1>3. \A w \in V : vector_push(w, x) \in V
    BY PushIs
  <1>4. /\ step \in [(1 .. N) \X V -> V]
        /\ \A i \in 1 .. N, w \in V : step[<<i, w>>] = vector_push(w, x)
    BY <1>3
  <1> HIDE DEF step, V
  <1>5. PICK F : Recurs(N, V, v, step, F)
    BY <1>1, <1>4, Recursion DEF V
  <1>6. \A i \in 1 .. N : i - 1 \in 0 .. N /\ i \in 0 .. N /\ i # 0
    BY <1>1
  <1>7. \A i \in 1 .. N : F[i] = vector_push(F[i - 1], x)
    BY <1>4, <1>5, <1>6 DEF Recurs
  <1>8. Is(F)
    <2>1. F = [k \in 0 .. N |-> F[k]] /\ F[0] = v
      BY <1>5 DEF Recurs
    <2>2. \A k \in 0 .. N : k # 0 => k \in 1 .. N
      BY <1>1
    <2>3. \A k \in 0 .. N : F[k] = IF k = 0 THEN v ELSE vector_push(F[k - 1], x)
      BY <1>7, <2>1, <2>2
    <2> QED BY <2>1, <2>3
  <1>9. Is(P)
    <2> HIDE DEF Is
    <2> QED BY <1>8 DEF P
  <1>10. P[0] = v /\ \A k \in 1 .. N : P[k] = vector_push(P[k - 1], x)
    <2>1. 0 \in 0 .. N
      BY <1>1
    <2> QED BY <1>6, <1>9, <2>1
  <1> HIDE DEF Is
  <1> DEFINE G == {k \in 0 .. N : Padded(k, P[k])}
  <1>11. 0 \in G
    <2>1. Padded(0, v)
      BY <1>1, VecIs DEF V, m
    <2> HIDE DEF Padded
    <2> QED BY <1>1, <1>10, <2>1
  <1>12. ASSUME NEW k \in G, k < N PROVE k + 1 \in G
    <2>1. k \in Nat /\ k + 1 \in 1 .. N /\ k + 1 \in 0 .. N /\ k + 1 - 1 = k /\ Padded(k, P[k])
      BY <1>1, <1>12
    <2> DEFINE w == P[k]
    <2>2. P[k + 1] = vector_push(w, x)
      BY <1>10, <2>1
    <2>3. w \in Vec(S) /\ Len(w.data) = m + k
      BY <2>1 DEF V
    <2>4. \A j \in 1 .. m + k : w.data[j] = IF j <= m THEN v.data[j] ELSE x
      BY <2>1
    <2> HIDE DEF w
    <2> DEFINE u == vector_push(w, x)
    <2>5. /\ u \in Vec(S) /\ Len(u.data) = m + k + 1 /\ u.data[m + k + 1] = x
          /\ \A j \in 1 .. m + k : u.data[j] = w.data[j]
      BY <2>3, PushIs
    <2> HIDE DEF u
    <2>6. \A j \in 1 .. m + (k + 1) : j \in 1 .. m + k \/ (j = m + k + 1 /\ ~(j <= m))
      BY <1>1, <2>1
    <2>7. m + (k + 1) = m + k + 1
      BY <1>1, <2>1
    <2>8. Padded(k + 1, u)
      BY <2>4, <2>5, <2>6, <2>7 DEF V
    <2> QED BY <2>1, <2>2, <2>8 DEF u
  <1>13. G = 0 .. N
    <2>1. G \in SUBSET (0 .. N)
      OBVIOUS
    <2> HIDE DEF G
    <2> QED BY <1>1, <1>11, <1>12, <2>1, Climb
  <1>14. Padded(N, P[N])
    BY <1>1, <1>13
  <1> QED BY <1>1, <1>2, <1>14 DEF m, V

\* What stays of a vector that is split, and what is split off.
LEMMA SplitIs ==
  ASSUME NEW S, NEW v \in Vec(S), NEW pos \in Nat, pos < Len(v.data)
  PROVE  /\ SplitHead(v, pos) \in Vec(S) /\ SplitTail(v, pos) \in Vec(S)
         /\ Len(SplitHead(v, pos).data) = pos
         /\ Len(SplitTail(v, pos).data) = Len(v.data) - pos
         /\ \A k \in 1 .. pos : SplitHead(v, pos).data[k] = v.data[k]
         /\ \A k \in 1 .. Len(v.data) - pos : SplitTail(v, pos).data[k] = v.data[pos + k]
  <1> DEFINE b == Before(v, pos)  f == From(v, pos)
  <1>1. v = [data |-> v.data, cap |-> v.cap] /\ SplitHead(v, pos) = [v EXCEPT !.data = b]
        /\ SplitTail(v, pos) = [data |-> f, cap |-> Len(f)]
        /\ Len(v.data) \in Nat /\ v.cap \in Nat \ {0} /\ Len(v.data) <= v.cap
    BY VecIs DEF SplitHead, SplitTail
  <1>2. b \in Seq(S) /\ Len(b) = pos /\ \A k \in 1 .. pos :
          b[k] = IF k <= Len(v.data) THEN v.data[k] ELSE Junk
    BY <1>1, BeforeIs
  <1>3. /\ f \in Seq(S) /\ Len(f) = Len(v.data) - pos
        /\ \A k \in 1 .. Len(v.data) - pos : f[k] = v.data[pos + k]
    <2>1. /\ f \in Seq(S) /\ Len(f) = IF pos < Len(v.data) THEN Len(v.data) - pos ELSE 0
          /\ \A k \in 1 .. Len(f) : f[k] = v.data[pos + k]
      BY FromIs
    <2> HIDE DEF f
    <2> QED BY <2>1
  <1> HIDE DEF b, f
  <1>4. SplitHead(v, pos) = [data |-> b, cap |-> v.cap]
    BY <1>1
  <1>5. SplitHead(v, pos) \in Vec(S) /\ SplitTail(v, pos) \in Vec(S)
    BY <1>1, <1>2, <1>3, <1>4, IsVec, SMTT(30)
  <1>6. \A k \in 1 .. pos : k <= Len(v.data)
    BY <1>1
  <1> QED BY <1>1, <1>2, <1>3, <1>4, <1>5, <1>6

\* Room for the items of mv at pos.
LEMMA RoomIs ==
  ASSUME NEW S, NEW v \in Vec(S), NEW mv \in Vec(S), NEW pos \in Nat
  PROVE  LET w == SwapRoom(v, mv, pos) IN
         /\ w \in Vec(S) /\ w.data = v.data /\ pos + Len(mv.data) <= w.cap
  <1> DEFINE c == Larger(v.cap, pos + vector_size(mv))
  <1>1. v = [data |-> v.data, cap |-> v.cap] /\ SwapRoom(v, mv, pos) = [v EXCEPT !.cap = c]
    BY VecIs DEF SwapRoom
  <1>2. /\ c \in Nat /\ c > 0 /\ Len(v.data) <= c /\ pos + Len(mv.data) <= c
        /\ v.data \in Seq(S)
    BY VecIs DEF Larger
  <1> HIDE DEF c
  <1>3. SwapRoom(v, mv, pos) = [data |-> v.data, cap |-> c]
    BY <1>1
  <1> QED BY <1>2, <1>3, IsVec

\* The items of mv are at pos, and overwrite what was there.
LEMMA SwapIs ==
  ASSUME NEW S, NEW v \in Vec(S), NEW mv \in Vec(S), NEW pos \in Nat,
         pos <= Len(v.data) \/ Junk \in S, Len(mv.data) > 0
  PROVE  LET w == vector_swap(v, mv, pos)
             n == pos + Len(mv.data) IN
         /\ w \in Vec(S)
         /\ Len(w.data) = Larger(n, Len(v.data))
         /\ \A k \in 1 .. Len(w.data) :
              w.data[k] = IF k <= pos
                          THEN IF k <= Len(v.data) THEN v.data[k] ELSE Junk
                          ELSE IF k <= n THEN mv.data[k - pos] ELSE v.data[k]
  <1> DEFINE b == Before(v, pos)  n == pos + Len(mv.data)  f == From(v, n)
             m == Len(v.data)  u == SwapRoom(v, mv, pos)  d == b \o mv.data \o f
  <1>1. m \in Nat /\ n \in Nat /\ mv.data \in Seq(S) /\ Len(mv.data) \in Nat
    BY VecIs
  <1>2. /\ b \in Seq(S) /\ Len(b) = pos
        /\ \A k \in 1 .. pos : b[k] = IF k <= m THEN v.data[k] ELSE Junk
    BY BeforeIs
  <1>3. /\ f \in Seq(S) /\ Len(f) = IF n < m THEN m - n ELSE 0
        /\ \A k \in 1 .. Len(f) : f[k] = v.data[n + k]
    <2> HIDE DEF n
    <2> QED BY <1>1, FromIs
  <1>4. vector_swap(v, mv, pos) = [u EXCEPT !.data = d]
    <2>1. mv.data # << >> /\ vector_size(mv) = Len(mv.data)
      BY VecIs, EmptySeq
    <2> QED BY <2>1 DEF vector_swap
  <1>5. u \in Vec(S) /\ u.data = v.data /\ n <= u.cap
    BY RoomIs
  <1> HIDE DEF b, f, u
  <1>6. /\ u.cap \in Nat /\ u.cap > 0 /\ m <= u.cap
        /\ vector_swap(v, mv, pos) = [data |-> d, cap |-> u.cap]
    <2>1. u = [data |-> u.data, cap |-> u.cap] /\ u.cap \in Nat \ {0} /\ m <= u.cap
      BY <1>5, VecIs
    <2> HIDE DEF d, m
    <2> QED BY <1>4, <2>1
  <1> DEFINE e == b \o mv.data
  <1>7. /\ e \in Seq(S) /\ Len(e) = n
        /\ \A k \in 1 .. n : e[k] = IF k <= pos THEN b[k] ELSE mv.data[k - pos]
    BY <1>1, <1>2, ConcatProperties
  <1>8. d = e \o f
    OBVIOUS
  <1> HIDE DEF d, e, n, m
  <1>9. /\ d \in Seq(S) /\ Len(d) = n + Len(f)
        /\ \A k \in 1 .. n + Len(f) : d[k] = IF k <= n THEN e[k] ELSE f[k - n]
    <2>1. e \in Seq(S) /\ f \in Seq(S)
      BY <1>3, <1>7
    <2>2. /\ e \o f \in Seq(S) /\ Len(e \o f) = Len(e) + Len(f)
          /\ \A k \in 1 .. Len(e) + Len(f) :
               (e \o f)[k] = IF k <= Len(e) THEN e[k] ELSE f[k - Len(e)]
      BY <2>1, ConcatProperties
    <2> QED BY <1>7, <1>8, <2>2
  <1>10. Len(d) = Larger(n, m) /\ Len(d) <= u.cap
    BY <1>1, <1>3, <1>5, <1>6, <1>9 DEF Larger
  <1>11. ASSUME NEW k \in 1 .. Len(d)
         PROVE  d[k] = IF k <= pos
                       THEN IF k <= m THEN v.data[k] ELSE Junk
                       ELSE IF k <= n THEN mv.data[k - pos] ELSE v.data[k]
    <2>0. k \in Nat /\ pos <= n
      BY <1>1, <1>7, <1>9 DEF n
    <2>1. CASE k <= n
      <3>1. k \in 1 .. n /\ (k <= pos => k \in 1 .. pos)
        BY <1>1, <2>0, <2>1
      <3> QED BY <1>2, <1>7, <1>9, <2>1, <3>1
    <2>2. CASE k > n
      <3>1. k - n \in 1 .. Len(f) /\ n + (k - n) = k /\ ~(k <= pos) /\ ~(k <= n)
        BY <1>1, <1>3, <1>9, <2>0, <2>2
      <3> QED BY <1>3, <1>9, <3>1
    <2>3. k <= n \/ k > n
      BY <1>1, <2>0
    <2> QED BY <2>1, <2>2, <2>3
  <1>12. vector_swap(v, mv, pos) \in Vec(S)
    BY <1>6, <1>9, <1>10, IsVec
  <1> QED BY <1>6, <1>10, <1>11, <1>12 DEF n, m

-----------------------------------------------------------------------------
(* Cells and rows *)

\* A vector with other items.
LEMMA DataSet ==
  ASSUME NEW S, NEW v \in Vec(S), NEW d
  PROVE  [v EXCEPT !.data = d] = [data |-> d, cap |-> v.cap]
  <1>1. v = [data |-> v.data, cap |-> v.cap]
    BY VecIs
  <1> QED BY <1>1

\* The cells there are, the empty one among them; later texts make more of them.
LEMMA CellsAre ==
  ASSUME NEW n \in Nat
  PROVE  /\ create_cell \in CellsUpTo(n) /\ Cell(n) \in CellsUpTo(n)
         /\ \A m \in Nat : n <= m => CellsUpTo(n) \subseteq CellsUpTo(m)
         /\ Junk \notin CellsUpTo(n)
         /\ \A c \in CellsUpTo(n) : /\ c = [text |-> c.text, type |-> c.type]
                                    /\ c.text \in 0 .. n /\ c.type \in CellTypes
  <1>1. CellsUpTo(n) \subseteq [text: Nat, type: CellTypes]
    BY DEF CellsUpTo
  <1> QED BY <1>1, JunkAssumption DEF create_cell, Cell, CellsUpTo, CellTypes

\* A row filled up with empty cells.
LEMMA CellsToIs ==
  ASSUME NEW S, NEW row \in Vec(S), create_cell \in S, NEW n \in Nat
  PROVE  LET w == CellsTo(row, n) IN
         /\ w \in Vec(S) /\ Len(w.data) = Larger(n, Len(row.data))
         /\ \A k \in 1 .. Len(w.data) :
              w.data[k] = IF k <= Len(row.data) THEN row.data[k] ELSE create_cell
BY PadIs DEF CellsTo

\* A row is made empty.
LEMMA NewRowIs ==
  ASSUME NEW S
  PROVE  create_row \in Vec(S) /\ Len(create_row.data) = 0
  <1>1. << >> \in Seq(S) /\ Len(<< >>) = 0 /\ Capacity \in Nat /\ 0 <= Capacity /\ Capacity > 0
    BY FortAssumption, EmptySeq
  <1>2. create_row = [data |-> << >>, cap |-> Capacity]
    BY DEF create_row, create_vector
  <1>3. create_row \in Vec(S)
    BY <1>1, <1>2, IsVec
  <1> QED BY <1>1, <1>2, <1>3

\* A text written over a cell leaves all other cells, and its own type.
LEMMA PutReplaceIs ==
  ASSUME NEW n \in Nat, NEW row \in Vec(CellsUpTo(n)), NEW col \in Nat
  PROVE  LET w == PutReplace(row, col, n + 1)
             m == Len(row.data) IN
         /\ w \in Vec(CellsUpTo(n + 1))
         /\ Len(w.data) = Larger(col + 1, m)
         /\ \A k \in 1 .. Len(w.data) :
              w.data[k] = IF k = col + 1
                          THEN [text |-> n + 1,
                                type |-> IF k <= m THEN row.data[k].type ELSE "COMMON"]
                          ELSE IF k <= m THEN row.data[k] ELSE create_cell
  <1> DEFINE r == CellsTo(row, col + 1)  m == Len(row.data)
             c == [r.data[col + 1] EXCEPT !.text = n + 1]
             d == [r.data EXCEPT ![col + 1] = c]
  <1>1. /\ r \in Vec(CellsUpTo(n)) /\ Len(r.data) = Larger(col + 1, m)
        /\ \A k \in 1 .. Len(r.data) :
             r.data[k] = IF k <= m THEN row.data[k] ELSE create_cell
    <2>1. create_cell \in CellsUpTo(n) /\ col + 1 \in Nat
      BY CellsAre
    <2> QED BY <2>1, CellsToIs
  <1>2. m \in Nat /\ col + 1 \in 1 .. Len(r.data)
    BY <1>1, VecIs DEF Larger
  <1>3. PutReplace(row, col, n + 1) = [r EXCEPT !.data = d]
    BY DEF PutReplace
  <1> HIDE DEF r, m
  <1>4. r.data[col + 1] \in CellsUpTo(n)
    BY <1>1, <1>2, VecIs
  <1>5. /\ c = [text |-> n + 1, type |-> r.data[col + 1].type]
        /\ c \in CellsUpTo(n + 1)
    <2>1. /\ r.data[col + 1] = [text |-> r.data[col + 1].text, type |-> r.data[col + 1].type]
          /\ r.data[col + 1].type \in CellTypes
      BY <1>4, CellsAre
    <2> QED BY <2>1 DEF CellsUpTo
  <1>6. c.type = IF col + 1 <= m THEN row.data[col + 1].type ELSE "COMMON"
    BY <1>1, <1>2, <1>5 DEF create_cell, Cell
  <1> HIDE DEF c
  <1>7. r \in Vec(CellsUpTo(n + 1))
    <2>1. CellsUpTo(n) \subseteq CellsUpTo(n + 1)
      BY CellsAre
    <2> QED BY <1>1, <2>1, VecMono
  <1>8. r.data \in Seq(CellsUpTo(n + 1)) /\ r.cap \in Nat \ {0} /\ Len(r.data) <= r.cap
    BY <1>7, VecIs
  <1>9. /\ d \in Seq(CellsUpTo(n + 1)) /\ Len(d) = Len(r.data)
        /\ \A k \in 1 .. Len(r.data) : d[k] = IF k = col + 1 THEN c ELSE r.data[k]
    BY <1>2, <1>5, <1>8, ExceptSeq
  <1> HIDE DEF d
  <1>10. PutReplace(row, col, n + 1) = [data |-> d, cap |-> r.cap]
    BY <1>1, <1>3, DataSet
  <1>11. PutReplace(row, col, n + 1) \in Vec(CellsUpTo(n + 1))
    BY <1>8, <1>9, <1>10, IsVec
  <1>12. \A k \in 1 .. Len(d) : d[k] = IF k = col + 1
                     THEN [text |-> n + 1,
                           type |-> IF k <= m THEN row.data[k].type ELSE "COMMON"]
                     ELSE IF k <= m THEN row.data[k] ELSE create_cell
    BY <1>1, <1>5, <1>6, <1>9
  <1> QED BY <1>1, <1>9, <1>10, <1>11, <1>12 DEF m

\* A row with a master and its slaves; the texts stay, and the cells outside.
IsSpanned(row, w, col, span) ==
  LET Old(k) == IF k <= Len(row.data) THEN row.data[k] ELSE create_cell IN
  /\ Len(w.data) = Larger(col + span, Len(row.data))
  /\ \A k \in 1 .. Len(w.data) :
       /\ w.data[k].text = Old(k).text
       /\ w.data[k].type = IF k = col + 1 THEN "MASTER"
                           ELSE IF k \in col + 2 .. col + span THEN "SLAVE"
                           ELSE Old(k).type

\* A group is made in a row so.
LEMMA SpannedIs ==
  ASSUME NEW n \in Nat, NEW row \in Vec(CellsUpTo(n)), NEW col \in Nat, NEW span \in Nat \ {0}
  PROVE  /\ Spanned(row, col, span) \in Vec(CellsUpTo(n))
         /\ IsSpanned(row, Spanned(row, col, span), col, span)
  <1> DEFINE r == CellsTo(row, col + span)  m == Len(row.data)
             Old(k) == IF k <= m THEN row.data[k] ELSE create_cell
             d == [k \in DOMAIN r.data |->
                     IF k = col + 1 THEN [r.data[k] EXCEPT !.type = "MASTER"]
                     ELSE IF k \in col + 2 .. col + span THEN [r.data[k] EXCEPT !.type = "SLAVE"]
                     ELSE r.data[k]]
  <1>1. /\ r \in Vec(CellsUpTo(n)) /\ Len(r.data) = Larger(col + span, m)
        /\ \A k \in 1 .. Len(r.data) : r.data[k] = Old(k)
    <2>1. create_cell \in CellsUpTo(n) /\ col + span \in Nat
      BY CellsAre
    <2> QED BY <2>1, CellsToIs
  <1>2. Spanned(row, col, span) = [r EXCEPT !.data = d]
    BY DEF Spanned
  <1> HIDE DEF r, m
  <1>3. /\ DOMAIN r.data = 1 .. Len(r.data) /\ Len(r.data) \in Nat
        /\ \A k \in 1 .. Len(r.data) : r.data[k] \in CellsUpTo(n)
        /\ r.cap \in Nat \ {0} /\ Len(r.data) <= r.cap
    BY <1>1, VecIs
  <1>4. ASSUME NEW k \in 1 .. Len(r.data)
        PROVE  /\ d[k] \in CellsUpTo(n) /\ d[k].text = r.data[k].text
               /\ d[k].type = IF k = col + 1 THEN "MASTER"
                              ELSE IF k \in col + 2 .. col + span THEN "SLAVE"
                              ELSE r.data[k].type
    <2>1. /\ r.data[k] \in CellsUpTo(n) /\ r.data[k].text \in 0 .. n
          /\ r.data[k] = [text |-> r.data[k].text, type |-> r.data[k].type]
      BY <1>3, CellsAre
    <2>2. d[k] = IF k = col + 1 THEN [r.data[k] EXCEPT !.type = "MASTER"]
                 ELSE IF k \in col + 2 .. col + span THEN [r.data[k] EXCEPT !.type = "SLAVE"]
                 ELSE r.data[k]
      BY <1>3
    <2> HIDE DEF d
    <2> QED BY <2>1, <2>2 DEF CellsUpTo, CellTypes
  <1>5. d \in [1 .. Len(r.data) -> CellsUpTo(n)]
    BY <1>3, <1>4
  <1> HIDE DEF d
  <1>6. d \in Seq(CellsUpTo(n)) /\ Len(d) = Len(r.data)
    BY <1>3, <1>5, FunIsSeq
  <1>7. Spanned(row, col, span) = [data |-> d, cap |-> r.cap]
    BY <1>1, <1>2, DataSet
  <1>8. Spanned(row, col, span) \in Vec(CellsUpTo(n))
    BY <1>3, <1>6, <1>7, IsVec
  <1>9. \A k \in 1 .. Len(r.data) : r.data[k] = Old(k)
    BY <1>1
  <1> HIDE DEF Old
  <1>10. \A k \in 1 .. Len(d) : /\ d[k].text = Old(k).text
              /\ d[k].type = IF k = col + 1 THEN "MASTER"
                             ELSE IF k \in col + 2 .. col + span THEN "SLAVE"
                             ELSE Old(k).type
    BY <1>4, <1>6, <1>9
  <1> QED BY <1>1, <1>6, <1>7, <1>8, <1>10 DEF m, Old, IsSpanned

\* A row whose cells between left and right went, those right of them closing up.
IsClosed(row, w, left, right) ==
  /\ Len(w.data) = left + (IF right + 1 < Len(row.data) THEN Len(row.data) - (right + 1) ELSE 0)
  /\ \A k \in 1 .. Len(w.data) :
       w.data[k] = IF k <= left THEN row.data[k] ELSE row.data[right + 1 + (k - left)]

\* The cells of a row are erased so.
LEMMA EraseCellsIs ==
  ASSUME NEW S, NEW row \in Vec(S), NEW left \in Nat, NEW right \in Nat,
         left <= right, left <= Len(row.data)
  PROVE  /\ EraseCells(row, left, right) \in Vec(S)
         /\ IsClosed(row, EraseCells(row, left, right), left, right)
  <1> DEFINE b == Before(row, left)  f == From(row, right + 1)  m == Len(row.data)
             d == b \o f
  <1>1. /\ m \in Nat /\ right + 1 \in Nat /\ left <= m
        /\ row.cap \in Nat \ {0} /\ m <= row.cap
    BY VecIs
  <1>2. /\ b \in Seq(S) /\ Len(b) = left
        /\ \A k \in 1 .. left : b[k] = IF k <= m THEN row.data[k] ELSE Junk
    BY BeforeIs
  <1>3. /\ f \in Seq(S) /\ Len(f) = IF right + 1 < m THEN m - (right + 1) ELSE 0
        /\ \A k \in 1 .. Len(f) : f[k] = row.data[right + 1 + k]
    BY <1>1, FromIs
  <1>4. EraseCells(row, left, right) = [data |-> d, cap |-> row.cap]
    BY DataSet DEF EraseCells
  <1> HIDE DEF b, f, m
  <1>5. /\ d \in Seq(S) /\ Len(d) = left + Len(f)
        /\ \A k \in 1 .. left + Len(f) : d[k] = IF k <= left THEN b[k] ELSE f[k - left]
    <2>1. /\ b \o f \in Seq(S) /\ Len(b \o f) = Len(b) + Len(f)
          /\ \A k \in 1 .. Len(b) + Len(f) :
               (b \o f)[k] = IF k <= Len(b) THEN b[k] ELSE f[k - Len(b)]
      <3>1. b \in Seq(S) /\ f \in Seq(S)
        BY <1>2, <1>3
      <3> QED BY <3>1, ConcatProperties
    <2> QED BY <1>2, <2>1
  <1> HIDE DEF d
  <1>6. Len(d) <= row.cap
    BY <1>1, <1>3, <1>5
  <1>7. ASSUME NEW k \in 1 .. Len(d)
        PROVE  d[k] = IF k <= left THEN row.data[k] ELSE row.data[right + 1 + (k - left)]
    <2>0. k \in Nat /\ (k <= left => k \in 1 .. left /\ k <= m)
          /\ (~(k <= left) => k - left \in 1 .. Len(f))
      BY <1>1, <1>3, <1>5
    <2> QED BY <1>2, <1>3, <1>5, <2>0
  <1>8. EraseCells(row, left, right) \in Vec(S)
    BY <1>1, <1>4, <1>5, <1>6, IsVec
  <1> QED BY <1>3, <1>4, <1>5, <1>7, <1>8 DEF m, IsClosed

\* A row of n cells with new texts.
LEMMA FmtRowIs ==
  ASSUME last \in Nat, NEW n \in Nat \ {0}
  PROVE  /\ FmtRow(n) \in Vec(CellsUpTo(last + n)) /\ Len(FmtRow(n).data) = n
         /\ \A k \in 1 .. n : FmtRow(n).data[k] = Cell(last + k)
  <1> DEFINE r == NewRow(n)  d == [k \in 1 .. n |-> Cell(last + k)]
  <1>1. r \in Vec(CellsUpTo(last + n)) /\ Len(r.data) = n
    <2>1. create_cell \in CellsUpTo(last + n) /\ n \in Nat
      BY CellsAre
    <2>2. create_row \in Vec(CellsUpTo(last + n)) /\ Len(create_row.data) = 0
      BY NewRowIs
    <2>3. r \in Vec(CellsUpTo(last + n)) /\ Len(r.data) = Larger(n, 0)
      BY <2>1, <2>2, CellsToIs DEF NewRow
    <2> QED BY <2>3 DEF Larger
  <1>2. FmtRow(n) = [data |-> d, cap |-> r.cap]
    BY <1>1, DataSet DEF FmtRow
  <1>3. d \in [1 .. n -> CellsUpTo(last + n)]
    BY DEF Cell, CellsUpTo, CellTypes
  <1>4. \A k \in 1 .. n : d[k] = Cell(last + k)
    OBVIOUS
  <1> HIDE DEF r, d
  <1>5. d \in Seq(CellsUpTo(last + n)) /\ Len(d) = n
    BY <1>3, FunIsSeq
  <1> QED BY <1>1, <1>2, <1>4, <1>5, VecIs, IsVec

\* The cells of one row inserted at the cursor, each behind the one before it.
LEMMA InsertRowIs ==
  ASSUME NEW S, create_cell \in S, NEW row \in Vec(S), NEW ins \in Vec(S), cur_col \in Nat
  PROVE  LET w == insert_row(row, ins)
             m == Len(row.data)
             n == Len(ins.data) IN
         /\ w \in Vec(S)
         /\ Len(w.data) = Larger(cur_col, m) + n
         /\ \A j \in 1 .. Len(w.data) :
              w.data[j] = IF j <= cur_col THEN IF j <= m THEN row.data[j] ELSE create_cell
                          ELSE IF j <= cur_col + n THEN ins.data[j - cur_col]
                          ELSE row.data[j - n]
  <1> DEFINE m == Len(row.data)  n == Len(ins.data)  r == CellsTo(row, cur_col)
             c == Larger(cur_col, m)
             V == Vec(S \cup {Junk})
             Put(k, w) == vector_insert(w, ins.data[k], cur_col + k - 1)
             step == [p \in (1 .. n) \X V |-> Put(p[1], p[2])]
             Is(E) == E = [k \in 0 .. n |-> IF k = 0 THEN r ELSE Put(k, E[k - 1])]
             P == CHOOSE E : Is(E)
             Inserted(k, w) ==
               /\ w \in Vec(S) /\ Len(w.data) = c + k
               /\ \A j \in 1 .. c + k :
                    w.data[j] = IF j <= cur_col THEN r.data[j]
                                ELSE IF j <= cur_col + k THEN ins.data[j - cur_col]
                                ELSE r.data[j - k]
  <1>1. /\ r \in Vec(S) /\ Len(r.data) = c
        /\ \A k \in 1 .. c : r.data[k] = IF k <= m THEN row.data[k] ELSE create_cell
    BY CellsToIs
  <1>2. /\ m \in Nat /\ n \in Nat /\ \A k \in 1 .. n : ins.data[k] \in S
    BY VecIs
  <1>3. c \in Nat /\ cur_col <= c /\ (c > m => c = cur_col)
    BY <1>2 DEF Larger
  <1>4. insert_row(row, ins) = P[n]
    <2>1. columns_in_row(ins) = n
      BY VecIs DEF columns_in_row
    <2> QED BY <2>1 DEF insert_row
  <1> HIDE DEF P, m, n, c, r
  <1>5. \A k \in 1 .. n, w \in V : Put(k, w) \in V
    <2>1. \A k \in 1 .. n : ins.data[k] \in S \cup {Junk} /\ cur_col + k - 1 \in Nat
      BY <1>2
    <2> QED BY <2>1, InsertIs
  <1>6. /\ step \in [(1 .. n) \X V -> V]
        /\ \A i \in 1 .. n, w \in V : step[<<i, w>>] = Put(i, w)
    BY <1>5
  <1>7. r \in V
    BY <1>1, VecMono
  <1> HIDE DEF step, V, Put
  <1>8. PICK F : Recurs(n, V, r, step, F)
    BY <1>2, <1>6, <1>7, Recursion
  <1>9. \A i \in 1 .. n : i - 1 \in 0 .. n /\ i \in 0 .. n /\ i # 0
    BY <1>2
  <1>10. \A i \in 1 .. n : F[i] = Put(i, F[i - 1])
    BY <1>6, <1>8, <1>9 DEF Recurs
  <1>11. Is(F)
    <2>1. F = [k \in 0 .. n |-> F[k]] /\ F[0] = r
      BY <1>8 DEF Recurs
    <2>2. \A k \in 0 .. n : k # 0 => k \in 1 .. n
      BY <1>2
    <2>3. \A k \in 0 .. n : F[k] = IF k = 0 THEN r ELSE Put(k, F[k - 1])
      BY <1>10, <2>1, <2>2
    <2> QED BY <2>1, <2>3
  <1>12. Is(P)
    <2>1. P = CHOOSE E : Is(E)
      BY DEF P, Put
    <2> HIDE DEF Is
    <2> QED BY <1>11, <2>1
  <1>13. P[0] = r /\ \A k \in 1 .. n : P[k] = Put(k, P[k - 1])
    <2>1. 0 \in 0 .. n
      BY <1>2
    <2> QED BY <1>9, <1>12, <2>1
  <1> HIDE DEF Is
  <1> DEFINE G == {k \in 0 .. n : Inserted(k, P[k])}
  <1>14. 0 \in G
    <2>1. Inserted(0, r)
      BY <1>1, <1>3
    <2> HIDE DEF Inserted
    <2> QED BY <1>2, <1>13, <2>1
  <1>15. ASSUME NEW k \in G, k < n PROVE k + 1 \in G
    <2>1. /\ k \in Nat /\ k + 1 \in 1 .. n /\ k + 1 \in 0 .. n /\ k + 1 - 1 = k
          /\ Inserted(k, P[k])
      BY <1>2, <1>15
    <2> DEFINE w == P[k]  x == ins.data[k + 1]  pos == cur_col + k
    <2>2. P[k + 1] = vector_insert(w, x, pos)
      <3>1. P[k + 1] = Put(k + 1, w)
        BY <1>13, <2>1
      <3>2. cur_col + (k + 1) - 1 = pos
        BY <2>1
      <3> HIDE DEF pos, w
      <3> QED BY <3>1, <3>2 DEF Put
    <2>3. w \in Vec(S) /\ Len(w.data) = c + k /\ x \in S
      BY <1>2, <2>1
    <2>4. \A j \in 1 .. c + k :
                    w.data[j] = IF j <= cur_col THEN r.data[j]
                                ELSE IF j <= cur_col + k THEN ins.data[j - cur_col]
                                ELSE r.data[j - k]
      BY <2>1
    <2>5. pos \in Nat /\ pos <= c + k /\ Larger(pos, c + k) + 1 = c + k + 1
      BY <1>3, <2>1 DEF Larger
    <2> HIDE DEF w
    <2> DEFINE u == vector_insert(w, x, pos)
    <2>6. /\ u \in Vec(S) /\ Len(u.data) = c + k + 1
          /\ \A j \in 1 .. c + k + 1 :
              u.data[j] = IF j <= pos
                          THEN IF j <= c + k THEN w.data[j] ELSE Junk
                          ELSE IF j = pos + 1 THEN x ELSE w.data[j - 1]
      <3> HIDE DEF x, pos
      <3>1. /\ u \in Vec(S) /\ Len(u.data) = Larger(pos, Len(w.data)) + 1
            /\ \A j \in 1 .. Len(u.data) :
                u.data[j] = IF j <= pos
                            THEN IF j <= Len(w.data) THEN w.data[j] ELSE Junk
                            ELSE IF j = pos + 1 THEN x ELSE w.data[j - 1]
        BY <2>3, <2>5, InsertIs
      <3> QED BY <2>3, <2>5, <3>1
    <2> HIDE DEF u
    <2>7. ASSUME NEW j \in 1 .. c + (k + 1)
          PROVE  u.data[j] = IF j <= cur_col THEN r.data[j]
                             ELSE IF j <= cur_col + (k + 1) THEN ins.data[j - cur_col]
                             ELSE r.data[j - (k + 1)]
      <3>0. j \in Nat /\ j >= 1 /\ j <= c + k + 1 /\ j \in 1 .. c + k + 1
        BY <1>3, <2>1
      <3>1. CASE j <= pos
        <4>1. j \in 1 .. c + k /\ j <= c + k /\ (j > cur_col => j <= cur_col + (k + 1))
          BY <1>3, <2>1, <2>5, <3>0, <3>1
        <4>2. u.data[j] = w.data[j]
          BY <2>6, <3>0, <3>1, <4>1
        <4> QED BY <2>1, <2>4, <3>0, <3>1, <4>1, <4>2
      <3>2. CASE j = pos + 1
        <4>1. u.data[j] = x /\ j - cur_col = k + 1 /\ ~(j <= cur_col) /\ j <= cur_col + (k + 1)
          BY <2>1, <2>5, <2>6, <3>0, <3>2
        <4> QED BY <4>1
      <3>3. CASE j > pos + 1
        <4>1. j - 1 \in 1 .. c + k /\ j - 1 - k = j - (k + 1) /\ ~(j - 1 <= cur_col)
              /\ ~(j - 1 <= cur_col + k) /\ ~(j <= cur_col) /\ ~(j <= cur_col + (k + 1))
              /\ ~(j <= pos) /\ j # pos + 1
          BY <1>3, <2>1, <2>5, <3>0, <3>3
        <4>2. u.data[j] = w.data[j - 1]
          BY <2>6, <3>0, <4>1
        <4> QED BY <2>4, <4>1, <4>2
      <3>4. j <= pos \/ j = pos + 1 \/ j > pos + 1
        BY <2>5, <3>0
      <3> QED BY <3>1, <3>2, <3>3, <3>4
    <2>8. Inserted(k + 1, u)
      <3>1. c + (k + 1) = c + k + 1
        BY <1>3, <2>1
      <3> QED BY <2>6, <2>7, <3>1
    <2> HIDE DEF Inserted
    <2> QED BY <2>1, <2>2, <2>8 DEF u
  <1>16. G = 0 .. n
    <2>1. G \in SUBSET (0 .. n)
      OBVIOUS
    <2> HIDE DEF G
    <2> QED BY <1>2, <1>14, <1>15, <2>1, Climb
  <1>17. Inserted(n, P[n])
    BY <1>2, <1>16
  <1>18. ASSUME NEW j \in 1 .. c + n
         PROVE  P[n].data[j] = IF j <= cur_col
                               THEN IF j <= m THEN row.data[j] ELSE create_cell
                               ELSE IF j <= cur_col + n THEN ins.data[j - cur_col]
                               ELSE row.data[j - n]
    <2>1. j \in Nat /\ (j <= cur_col => j \in 1 .. c)
          /\ (~(j <= cur_col) /\ ~(j <= cur_col + n) => j - n \in 1 .. c /\ j - n <= m)
      BY <1>2, <1>3
    <2> QED BY <1>1, <1>17, <2>1
  <1> QED BY <1>4, <1>17, <1>18 DEF m, n, c

\* The cells of one row put over those of another at the cursor.
LEMMA SwapRowIs ==
  ASSUME NEW S, NEW row \in Vec(S), NEW ins \in Vec(S), Len(ins.data) > 0,
         cur_col \in Nat, cur_col <= Len(row.data) \/ Junk \in S
  PROVE  LET w == swap_row(row, ins)
             m == Len(row.data)
             n == cur_col + Len(ins.data) IN
         /\ w \in Vec(S)
         /\ Len(w.data) = Larger(n, m)
         /\ \A k \in 1 .. Len(w.data) :
              w.data[k] = IF k <= cur_col
                          THEN IF k <= m THEN row.data[k] ELSE Junk
                          ELSE IF k <= n THEN ins.data[k - cur_col] ELSE row.data[k]
  <1>1. columns_in_row(row) = Len(row.data) /\ Len(row.data) \in Nat /\ Len(ins.data) \in Nat
    BY VecIs DEF columns_in_row
  <1>2. CASE Len(row.data) = 0 /\ cur_col = 0
    <2>1. swap_row(row, ins) = ins /\ Larger(cur_col + Len(ins.data), Len(row.data)) = Len(ins.data)
      BY <1>1, <1>2 DEF swap_row, Larger
    <2>2. \A k \in 1 .. Len(ins.data) :
            ~(k <= cur_col) /\ k <= cur_col + Len(ins.data) /\ k - cur_col = k
      BY <1>1, <1>2
    <2> QED BY <2>1, <2>2
  <1>3. CASE ~(Len(row.data) = 0 /\ cur_col = 0)
    <2>1. swap_row(row, ins) = vector_swap(row, ins, cur_col)
      BY <1>1, <1>3 DEF swap_row
    <2> QED BY <2>1, SwapIs
  <1> QED BY <1>2, <1>3

-----------------------------------------------------------------------------
(* The rows of the table *)

\* The first n rows exist, those there were as they were.
LEMMA RowsToIs ==
  ASSUME NEW S, rows \in Vec(Vec(S)), NEW n \in Nat
  PROVE  /\ RowsTo(n) \in Vec(Vec(S)) /\ Len(RowsTo(n).data) = Larger(n, Len(rows.data))
         /\ \A k \in 1 .. Len(RowsTo(n).data) :
              RowsTo(n).data[k] = IF k <= Len(rows.data) THEN rows.data[k] ELSE create_row
  <1>1. create_row \in Vec(S)
    BY NewRowIs
  <1> QED BY <1>1, PadIs DEF RowsTo

\* The row r that is to be changed: the one there is, or an empty one.
LEMMA RowAtIs ==
  ASSUME NEW S, rows \in Vec(Vec(S)), NEW r \in Nat
  PROVE  /\ vector_at(RowsTo(r + 1), r) \in Vec(S)
         /\ vector_at(RowsTo(r + 1), r) =
              IF r + 1 <= Len(rows.data) THEN rows.data[r + 1] ELSE create_row
  <1>1. /\ RowsTo(r + 1) \in Vec(Vec(S))
        /\ Len(RowsTo(r + 1).data) = Larger(r + 1, Len(rows.data))
        /\ \A k \in 1 .. Len(RowsTo(r + 1).data) : RowsTo(r + 1).data[k] =
             IF k <= Len(rows.data) THEN rows.data[k] ELSE create_row
    BY RowsToIs
  <1>2. r + 1 \in 1 .. Len(RowsTo(r + 1).data)
    <2>1. Len(rows.data) \in Nat
      BY VecIs
    <2> QED BY <1>1, <2>1 DEF Larger
  <1>3. RowsTo(r + 1).data[r + 1] \in Vec(S)
    BY <1>1, <1>2, VecIs
  <1> QED BY <1>1, <1>2, <1>3 DEF vector_at

\* Row r becomes another one.
LEMMA WithRowIs ==
  ASSUME NEW S, rows \in Vec(Vec(S)), NEW T, S \subseteq T, NEW r \in Nat, NEW row \in Vec(T)
  PROVE  /\ WithRow(r, row) \in Vec(Vec(T))
         /\ Len(WithRow(r, row).data) = Larger(r + 1, Len(rows.data))
         /\ \A k \in 1 .. Len(WithRow(r, row).data) :
              WithRow(r, row).data[k] =
                IF k = r + 1 THEN row
                ELSE IF k <= Len(rows.data) THEN rows.data[k] ELSE create_row
  <1> DEFINE w == RowsTo(r + 1)
  <1>1. rows \in Vec(Vec(T))
    BY VecMono
  <1>2. /\ w \in Vec(Vec(T)) /\ Len(w.data) = Larger(r + 1, Len(rows.data))
        /\ \A k \in 1 .. Len(w.data) :
             w.data[k] = IF k <= Len(rows.data) THEN rows.data[k] ELSE create_row
    BY <1>1, RowsToIs
  <1>3. r < Len(w.data)
    BY <1>1, <1>2, VecIs DEF Larger
  <1> HIDE DEF w
  <1>4. LET u == VectorSet(w, r, row) IN
        /\ u \in Vec(Vec(T)) /\ Len(u.data) = Len(w.data)
        /\ \A k \in 1 .. Len(w.data) : u.data[k] = IF k = r + 1 THEN row ELSE w.data[k]
    BY <1>2, <1>3, SetIs
  <1>5. WithRow(r, row) = VectorSet(w, r, row)
    BY DEF WithRow, w
  <1> QED BY <1>2, <1>4, <1>5

\* The cursor is in row r, or at its end.
InRowOrEnd(rs, r, c) == c = 0 \/ (r + 1 <= Len(rs.data) /\ c <= Len(rs.data[r + 1].data))

\* The cursor is in its row, or at its end, when it is not behind it.
LEMMA BehindEndIs ==
  ASSUME NEW S, NEW rs \in Vec(Vec(S)), NEW r \in Nat, NEW c \in Nat
  PROVE  ~BehindEnd(rs, r, c) <=> InRowOrEnd(rs, r, c)
  <1>1. vector_size(rs) = Len(rs.data) /\ Len(rs.data) \in Nat
    BY VecIs
  <1>2. CASE r + 1 <= Len(rs.data)
    <2>1. rs.data[r + 1] \in Vec(S)
      BY <1>1, <1>2, VecIs
    <2>2. /\ vector_at(rs, r) = rs.data[r + 1] /\ Len(rs.data[r + 1].data) \in Nat
          /\ columns_in_row(vector_at(rs, r)) = Len(rs.data[r + 1].data)
      BY <2>1, VecIs DEF vector_at, columns_in_row
    <2>3. r < vector_size(rs)
      BY <1>1, <1>2
    <2> QED BY <1>2, <2>2, <2>3 DEF BehindEnd, InRowOrEnd
  <1>3. CASE ~(r + 1 <= Len(rs.data))
    <2>1. ~(r < vector_size(rs))
      BY <1>1, <1>3
    <2> QED BY <1>3, <2>1 DEF BehindEnd, InRowOrEnd
  <1> QED BY <1>2, <1>3

\* One turn of the loop that removes rows, at row i.
RemoveOne(w) ==
  IF columns_in_row(vector_at(w.rs, w.i)) > 0 THEN [w EXCEPT !.i = @ + 1] ELSE EraseRow(w)

Loop(S) == [i: Nat, rs: Vec(Vec(S)), sep: Vec(BOOLEAN)]

\* A row with cells is passed by, one without goes.
LEMMA RemoveOneIs ==
  ASSUME NEW S, NEW w \in Loop(S), w.i < Len(w.rs.data)
  PROVE  LET u == RemoveOne(w) IN
         /\ u \in Loop(S)
         /\ \/ u.i = w.i + 1 /\ Len(u.rs.data) = Len(w.rs.data)
            \/ u.i = w.i /\ Len(u.rs.data) = Len(w.rs.data) - 1
         /\ \/ u.rs = w.rs /\ u.sep = w.sep
            \/ /\ Len(w.rs.data[w.i + 1].data) = 0
               /\ u.rs = vector_erase(w.rs, w.i)
               /\ u.sep = IF w.i < Len(w.sep.data) THEN vector_erase(w.sep, w.i) ELSE w.sep
  <1>1. /\ w = [i |-> w.i, rs |-> w.rs, sep |-> w.sep]
        /\ w.i \in Nat /\ w.rs \in Vec(Vec(S)) /\ w.sep \in Vec(BOOLEAN)
    BY DEF Loop
  <1>2. w.rs.data[w.i + 1] \in Vec(S)
    <2>1. w.i + 1 \in 1 .. Len(w.rs.data)
      BY <1>1, VecIs, SMTT(30)
    <2> QED BY <1>1, <2>1, VecIs
  <1>3. /\ columns_in_row(vector_at(w.rs, w.i)) = Len(w.rs.data[w.i + 1].data)
        /\ Len(w.rs.data[w.i + 1].data) \in Nat /\ vector_size(w.sep) = Len(w.sep.data)
    BY <1>1, <1>2, VecIs, SMTT(30) DEF columns_in_row, vector_at
  <1>4. CASE Len(w.rs.data[w.i + 1].data) > 0
    <2>1. RemoveOne(w) = [i |-> w.i + 1, rs |-> w.rs, sep |-> w.sep]
      BY <1>1, <1>3, <1>4 DEF RemoveOne
    <2> QED BY <1>1, <2>1 DEF Loop
  <1>5. CASE ~(Len(w.rs.data[w.i + 1].data) > 0)
    <2> DEFINE rs == vector_erase(w.rs, w.i)
               sep == IF w.i < Len(w.sep.data) THEN vector_erase(w.sep, w.i) ELSE w.sep
    <2>1. rs \in Vec(Vec(S)) /\ Len(rs.data) = Len(w.rs.data) - 1
      BY <1>1, EraseIs
    <2>2. sep \in Vec(BOOLEAN)
      BY <1>1, EraseIs
    <2>3. RemoveOne(w) = [w EXCEPT !.rs = rs, !.sep = sep]
      BY <1>3, <1>5 DEF RemoveOne, EraseRow
    <2>4. Len(w.rs.data[w.i + 1].data) = 0
      BY <1>3, <1>5
    <2> DEFINE u == RemoveOne(w)
    <2> HIDE DEF rs, sep
    <2>5. u = [i |-> w.i, rs |-> rs, sep |-> sep]
      BY <1>1, <2>3
    <2> HIDE DEF u
    <2>6. u \in Loop(S) /\ u.i = w.i /\ u.rs = rs /\ u.sep = sep
      BY <1>1, <2>1, <2>2, <2>5 DEF Loop
    <2> QED BY <2>1, <2>4, <2>6 DEF u, rs, sep
  <1> QED BY <1>4, <1>5

\* The row under w.i was row Was(rs, w), counted from 0, before the loop.
Was(rs, w) == w.i + (Len(rs.data) - Len(w.rs.data))

\* What is so before the loop and stays so in each turn is so behind it.
LEMMA RemoveRule ==
  ASSUME NEW S, NEW rs \in Vec(Vec(S)), separators \in Vec(BOOLEAN),
         NEW top \in Nat, NEW n \in Nat, top + n <= Len(rs.data),
         NEW I \in SUBSET Loop(S), [i |-> top, rs |-> rs, sep |-> separators] \in I,
         \A w \in I : w.i < Len(w.rs.data) /\ Was(rs, w) < top + n => RemoveOne(w) \in I,
         RemoveRows(rs, top, n)
  PROVE  \E w \in I : rows' = w.rs /\ separators' = w.sep
  <1> DEFINE base == [i |-> top, rs |-> rs, sep |-> separators]
             Turn(w) == IF w.i < Len(w.rs.data) /\ Was(rs, w) < top + n THEN RemoveOne(w) ELSE w
             step == [p \in (1 .. n) \X I |-> Turn(p[2])]
             Is(E) == E = [j \in 0 .. n |->
                             IF j = 0 THEN base
                             ELSE IF columns_in_row(vector_at(E[j - 1].rs, E[j - 1].i)) > 0
                             THEN [E[j - 1] EXCEPT !.i = @ + 1]
                             ELSE EraseRow(E[j - 1])]
             K == CHOOSE E : Is(E)
             Room(j, w) == w \in I /\ Was(rs, w) = top + j
  <1>1. rows' = K[n].rs /\ separators' = K[n].sep
    BY DEF RemoveRows
  <1>0. Len(rs.data) \in Nat
    BY VecIs
  <1> HIDE DEF K, base
  <1>2. base \in I /\ Room(0, base)
    BY <1>0 DEF base, Was
  <1>3. ASSUME NEW j \in 0 .. n, j < n, NEW w, Room(j, w)
        PROVE  w.i < Len(w.rs.data) /\ Was(rs, w) < top + n /\ Room(j + 1, RemoveOne(w))
    <2>1. w \in Loop(S) /\ w.i \in Nat /\ Len(w.rs.data) \in Nat /\ j \in Nat
      <3>1. w \in Loop(S)
        BY <1>3
      <3>2. w.i \in Nat /\ w.rs \in Vec(Vec(S))
        BY <3>1 DEF Loop
      <3> QED BY <3>1, <3>2, VecIs
    <2>2. w.i < Len(w.rs.data) /\ Was(rs, w) < top + n
      <3> DEFINE a == w.i  p == Len(rs.data)  q == Len(w.rs.data)
      <3>1. a + (p - q) = top + j /\ Was(rs, w) = a + (p - q)
        BY <1>3 DEF Was
      <3>2. a \in Nat /\ p \in Nat /\ q \in Nat /\ j \in Nat /\ j < n /\ top + n <= p
        BY <1>0, <1>3, <2>1
      <3> HIDE DEF a, p, q
      <3>3. a < q /\ a + (p - q) < top + n
        BY <3>1, <3>2
      <3> QED BY <3>1, <3>3 DEF a, q
    <2> DEFINE u == RemoveOne(w)
    <2>3. u \in I
      BY <1>3, <2>2
    <2>4. \/ u.i = w.i + 1 /\ Len(u.rs.data) = Len(w.rs.data)
          \/ u.i = w.i /\ Len(u.rs.data) = Len(w.rs.data) - 1
      BY <2>1, <2>2, RemoveOneIs
    <2> HIDE DEF u
    <2>5. Was(rs, u) = top + (j + 1)
      <3> DEFINE a == w.i  p == Len(rs.data)  q == Len(w.rs.data)  b == u.i  r == Len(u.rs.data)
      <3>1. a + (p - q) = top + j /\ Was(rs, u) = b + (p - r)
        BY <1>3 DEF Was
      <3>2. a \in Nat /\ p \in Nat /\ q \in Nat /\ j \in Nat
        BY <1>0, <2>1
      <3>3. (b = a + 1 /\ r = q) \/ (b = a /\ r = q - 1)
        BY <2>4
      <3> HIDE DEF a, p, q, b, r
      <3>4. b + (p - r) = top + (j + 1)
        BY <3>1, <3>2, <3>3
      <3> QED BY <3>1, <3>4
    <2> QED BY <2>2, <2>3, <2>5 DEF u
  <1>4. /\ step \in [(1 .. n) \X I -> I]
        /\ \A i \in 1 .. n, w \in I : step[<<i, w>>] = Turn(w)
    OBVIOUS
  <1> HIDE DEF step
  <1>5. PICK F : Recurs(n, I, base, step, F)
    BY <1>2, <1>4, Recursion
  <1>6. \A i \in 1 .. n : i - 1 \in 0 .. n /\ i \in 0 .. n /\ i # 0
    OBVIOUS
  <1>7. F[0] = base /\ \A i \in 1 .. n : F[i] = Turn(F[i - 1])
    BY <1>4, <1>5, <1>6 DEF Recurs
  <1> DEFINE G == {j \in 0 .. n : Room(j, F[j])}
  <1>8. G = 0 .. n
    <2>1. 0 \in G
      BY <1>2, <1>7
    <2>2. ASSUME NEW j \in G, j < n PROVE j + 1 \in G
      <3>1. j + 1 \in 1 .. n /\ j + 1 \in 0 .. n /\ j + 1 - 1 = j /\ Room(j, F[j])
        BY <2>2
      <3>2. F[j + 1] = Turn(F[j])
        BY <1>7, <3>1
      <3> HIDE DEF Room
      <3>3. Room(j + 1, F[j + 1])
        BY <1>3, <2>2, <3>1, <3>2
      <3> QED BY <3>1, <3>3
    <2>3. G \in SUBSET (0 .. n)
      OBVIOUS
    <2> HIDE DEF G
    <2> QED BY <2>1, <2>2, <2>3, Climb
  <1>9. \A i \in 1 .. n : F[i] = RemoveOne(F[i - 1])
    <2> SUFFICES ASSUME NEW i \in 1 .. n PROVE F[i] = RemoveOne(F[i - 1])
      OBVIOUS
    <2>1. i - 1 \in 0 .. n /\ i - 1 < n
      OBVIOUS
    <2>2. Room(i - 1, F[i - 1])
      BY <1>8, <2>1
    <2> HIDE DEF Room
    <2>3. F[i - 1].i < Len(F[i - 1].rs.data) /\ Was(rs, F[i - 1]) < top + n
      BY <1>3, <2>1, <2>2
    <2> QED BY <1>7, <2>3
  <1>10. Is(F)
    <2>1. F = [j \in 0 .. n |-> F[j]]
      BY <1>5 DEF Recurs
    <2>2. \A j \in 0 .. n : j # 0 => j \in 1 .. n
      OBVIOUS
    <2>3. \A j \in 0 .. n : F[j] = IF j = 0 THEN base
                             ELSE IF columns_in_row(vector_at(F[j - 1].rs, F[j - 1].i)) > 0
                             THEN [F[j - 1] EXCEPT !.i = @ + 1]
                             ELSE EraseRow(F[j - 1])
      BY <1>7, <1>9, <2>2 DEF RemoveOne
    <2> QED BY <2>1, <2>3
  <1>11. Is(K)
    <2> HIDE DEF Is
    <2> QED BY <1>10 DEF K, base
  <1>12. K[0] = base /\ \A i \in 1 .. n : K[i] = RemoveOne(K[i - 1])
    <2>1. 0 \in 0 .. n
      OBVIOUS
    <2> QED BY <1>6, <1>11, <2>1 DEF RemoveOne
  <1> HIDE DEF Is, G
  <1> DEFINE H == {j \in 0 .. n : Room(j, K[j])}
  <1>13. H = 0 .. n
    <2>1. 0 \in H
      BY <1>2, <1>12
    <2>2. ASSUME NEW j \in H, j < n PROVE j + 1 \in H
      <3>1. j + 1 \in 1 .. n /\ j + 1 \in 0 .. n /\ j + 1 - 1 = j /\ Room(j, K[j])
        BY <2>2
      <3>2. K[j + 1] = RemoveOne(K[j])
        BY <1>12, <3>1
      <3> HIDE DEF Room
      <3>3. Room(j + 1, K[j + 1])
        BY <1>3, <2>2, <3>1, <3>2
      <3> QED BY <3>1, <3>3
    <2>3. H \in SUBSET (0 .. n)
      OBVIOUS
    <2> HIDE DEF H
    <2> QED BY <2>1, <2>2, <2>3, Climb
  <1> QED BY <1>1, <1>13

-----------------------------------------------------------------------------
(* The invariant *)

\* What a cell may be: an unwritten one only if the caller has strayed.
HeldOf(n, s) == CellsUpTo(n) \cup (IF s THEN {Junk} ELSE {})

\* As long as the caller keeps the cursor in its row, all cells are written.
IInv ==
  /\ last \in Nat /\ strayed \in BOOLEAN
  /\ rows \in Vec(Vec(HeldOf(last, strayed))) /\ separators \in Vec(BOOLEAN)
  /\ cur_row \in 0 .. MaxRows - 1 /\ cur_col \in 0 .. MaxCols
  /\ strayed \/ ~BehindEnd(rows, cur_row, cur_col)

\* The invariant where a call may begin: there is no gap.
Whole == IInv /\ rows \in Vec(Vec(CellsUpTo(last)))

\* A vector is one of whatever all its items are.
LEMMA VecOf ==
  ASSUME NEW S, NEW v \in Vec(S), NEW T, \A k \in 1 .. Len(v.data) : v.data[k] \in T
  PROVE  v \in Vec(T)
  <1>1. /\ v = [data |-> v.data, cap |-> v.cap] /\ v.data \in Seq(S)
        /\ Len(v.data) \in Nat /\ v.cap \in Nat \ {0} /\ Len(v.data) <= v.cap
    BY VecIs
  <1>2. v.data \in [1 .. Len(v.data) -> T]
    BY <1>1, LenProperties
  <1>3. v.data \in Seq(T)
    BY <1>1, <1>2, FunIsSeq
  <1> QED BY <1>1, <1>3, IsVec

\* A table with no gap holds only cells.
LEMMA NoGap == IInv /\ ~Gap => Whole
  <1> SUFFICES ASSUME IInv, ~Gap PROVE rows \in Vec(Vec(CellsUpTo(last)))
    BY DEF Whole
  <1> DEFINE H == HeldOf(last, strayed)
  <1>1. rows \in Vec(Vec(H))
    BY DEF IInv
  <1>2. ASSUME NEW k \in 1 .. Len(rows.data) PROVE rows.data[k] \in Vec(CellsUpTo(last))
    <2>1. rows.data[k] \in Vec(H) /\ k \in DOMAIN rows.data
      BY <1>1, VecIs
    <2>2. ASSUME NEW j \in 1 .. Len(rows.data[k].data)
          PROVE  rows.data[k].data[j] \in CellsUpTo(last)
      <3>1. rows.data[k].data[j] \in H /\ j \in DOMAIN rows.data[k].data
        BY <2>1, VecIs
      <3>2. rows.data[k].data[j] \in Cells
        BY <2>1, <3>1 DEF Cells, Range
      <3>3. rows.data[k].data[j] # Junk
        BY <3>2 DEF Gap
      <3> QED BY <3>1, <3>3 DEF HeldOf
    <2> QED BY <2>1, <2>2, VecOf
  <1> QED BY <1>1, <1>2, VecOf

\* What has to be shown of a step.
LEMMA Conclude ==
  ASSUME last' \in Nat, strayed' \in BOOLEAN,
         NEW S, S \subseteq HeldOf(last', strayed'), rows' \in Vec(Vec(S)),
         separators' \in Vec(BOOLEAN),
         cur_row' \in 0 .. MaxRows - 1, cur_col' \in 0 .. MaxCols,
         strayed' \/ InRowOrEnd(rows', cur_row', cur_col')
  PROVE  IInv'
  <1>1. rows' \in Vec(Vec(HeldOf(last', strayed')))
    <2>1. Vec(S) \subseteq Vec(HeldOf(last', strayed'))
      BY VecMono
    <2> QED BY <2>1, VecMono
  <1>2. cur_row' \in Nat /\ cur_col' \in Nat
    BY FortAssumption
  <1>3. strayed' \/ ~BehindEnd(rows', cur_row', cur_col')
    BY <1>1, <1>2, BehindEndIs
  <1> QED BY <1>1, <1>3 DEF IInv

\* The row the next call writes to, and where in it.
LEMMA RowToWriteIs ==
  ASSUME Whole
  PROVE  /\ cur_row \in Nat /\ cur_col \in Nat /\ last \in Nat /\ strayed \in BOOLEAN
         /\ RowToWrite \in Vec(CellsUpTo(last))
         /\ RowToWrite = IF cur_row + 1 <= Len(rows.data) THEN rows.data[cur_row + 1]
                         ELSE create_row
         /\ strayed \/ cur_col <= Len(RowToWrite.data)
  <1>1. cur_row \in Nat /\ cur_col \in Nat /\ last \in Nat /\ strayed \in BOOLEAN
    BY FortAssumption DEF Whole, IInv
  <1>2. /\ RowToWrite \in Vec(CellsUpTo(last))
        /\ RowToWrite = IF cur_row + 1 <= Len(rows.data) THEN rows.data[cur_row + 1]
                        ELSE create_row
    BY <1>1, RowAtIs DEF Whole, RowToWrite
  <1>3. strayed \/ InRowOrEnd(rows, cur_row, cur_col)
    BY <1>1, BehindEndIs DEF Whole, IInv
  <1>4. Len(RowToWrite.data) \in Nat
    BY <1>2, VecIs
  <1> QED BY <1>1, <1>2, <1>3, <1>4 DEF InRowOrEnd

\* What a call may be given, the row of the cursor too, names a place.
LEMMA ArgsAre ==
  ASSUME Whole
  PROVE  /\ RowArgs = 0 .. MaxRows - 1 /\ RowArgs \subseteq Nat
         /\ ColArgs \subseteq 0 .. MaxCols - 1 \cup 0 .. MaxRows - 1 /\ ColArgs \subseteq Nat
  <1>1. cur_row \in 0 .. MaxRows - 1
    BY DEF Whole, IInv
  <1> QED BY <1>1, FortAssumption DEF RowArgs, ColArgs

\* The rows with the row of the cursor replaced: the cursor may be anywhere in
\* the new one.
LEMMA RowWritten ==
  ASSUME Whole, NEW S, CellsUpTo(last) \subseteq S, NEW row \in Vec(S),
         NEW c \in Nat, c <= Len(row.data)
  PROVE  /\ WithRow(cur_row, row) \in Vec(Vec(S))
         /\ InRowOrEnd(WithRow(cur_row, row), cur_row, c)
  <1>1. cur_row \in Nat /\ Len(rows.data) \in Nat
    BY RowToWriteIs, VecIs DEF Whole
  <1>2. /\ WithRow(cur_row, row) \in Vec(Vec(S))
        /\ Len(WithRow(cur_row, row).data) = Larger(cur_row + 1, Len(rows.data))
        /\ \A k \in 1 .. Len(WithRow(cur_row, row).data) :
             k = cur_row + 1 => WithRow(cur_row, row).data[k] = row
    BY <1>1, WithRowIs DEF Whole
  <1>3. /\ cur_row + 1 \in 1 .. Len(WithRow(cur_row, row).data)
        /\ cur_row + 1 <= Len(WithRow(cur_row, row).data)
    BY <1>1, <1>2 DEF Larger
  <1> QED BY <1>2, <1>3 DEF InRowOrEnd

\* Rows that are made are empty and below the others: the cursor stays in its row.
LEMMA RowsMade ==
  ASSUME Whole, NEW n \in Nat
  PROVE  /\ RowsTo(n) \in Vec(Vec(CellsUpTo(last)))
         /\ strayed \/ InRowOrEnd(RowsTo(n), cur_row, cur_col)
  <1>1. cur_row \in Nat /\ cur_col \in Nat /\ Len(rows.data) \in Nat
    BY RowToWriteIs, VecIs DEF Whole
  <1>2. /\ RowsTo(n) \in Vec(Vec(CellsUpTo(last)))
        /\ Len(RowsTo(n).data) = Larger(n, Len(rows.data))
        /\ \A k \in 1 .. Len(RowsTo(n).data) :
             RowsTo(n).data[k] = IF k <= Len(rows.data) THEN rows.data[k] ELSE create_row
    BY RowsToIs DEF Whole
  <1>3. strayed \/ InRowOrEnd(rows, cur_row, cur_col)
    BY <1>1, BehindEndIs DEF Whole, IInv
  <1>4. ASSUME cur_row + 1 <= Len(rows.data)
        PROVE  /\ cur_row + 1 \in 1 .. Len(RowsTo(n).data)
               /\ cur_row + 1 <= Len(RowsTo(n).data)
    BY <1>1, <1>2, <1>4 DEF Larger
  <1> QED BY <1>2, <1>3, <1>4 DEF InRowOrEnd

\* A row that only gets longer leaves the cursor where it may be.
LEMMA RowGrown ==
  ASSUME Whole, NEW S, CellsUpTo(last) \subseteq S, NEW r \in Nat, NEW row \in Vec(S),
         Len(vector_at(RowsTo(r + 1), r).data) <= Len(row.data)
  PROVE  /\ WithRow(r, row) \in Vec(Vec(S))
         /\ strayed \/ InRowOrEnd(WithRow(r, row), cur_row, cur_col)
  <1> DEFINE w == WithRow(r, row)  old == vector_at(RowsTo(r + 1), r)
  <1>1. /\ cur_row \in Nat /\ cur_col \in Nat /\ Len(rows.data) \in Nat /\ Len(row.data) \in Nat
        /\ rows \in Vec(Vec(CellsUpTo(last)))
    BY RowToWriteIs, VecIs DEF Whole
  <1>2. /\ w \in Vec(Vec(S)) /\ Len(w.data) = Larger(r + 1, Len(rows.data))
        /\ \A k \in 1 .. Len(w.data) :
             w.data[k] = IF k = r + 1 THEN row
                         ELSE IF k <= Len(rows.data) THEN rows.data[k] ELSE create_row
    BY <1>1, WithRowIs
  <1>3. /\ old \in Vec(CellsUpTo(last))
        /\ old = IF r + 1 <= Len(rows.data) THEN rows.data[r + 1] ELSE create_row
    BY <1>1, RowAtIs
  <1>4. strayed \/ InRowOrEnd(rows, cur_row, cur_col)
    BY <1>1, BehindEndIs DEF Whole, IInv
  <1>5. Len(old.data) \in Nat
    BY <1>3, VecIs
  <1> HIDE DEF w
  <1>6. ASSUME cur_row + 1 <= Len(rows.data), cur_col <= Len(rows.data[cur_row + 1].data)
        PROVE  InRowOrEnd(w, cur_row, cur_col)
    <2>1. cur_row + 1 \in 1 .. Len(w.data) /\ cur_row + 1 <= Len(w.data)
      BY <1>1, <1>2, <1>6 DEF Larger
    <2>2. CASE cur_row = r
      <3>1. w.data[cur_row + 1] = row /\ old = rows.data[cur_row + 1]
        BY <1>2, <1>3, <1>6, <2>1, <2>2
      <3>2. cur_col <= Len(row.data)
        BY <1>1, <1>5, <1>6, <3>1
      <3> QED BY <2>1, <3>1, <3>2 DEF InRowOrEnd
    <2>3. CASE cur_row # r
      <3>1. w.data[cur_row + 1] = rows.data[cur_row + 1]
        BY <1>1, <1>2, <1>6, <2>1, <2>3, SMTT(30)
      <3>2. cur_col <= Len(w.data[cur_row + 1].data)
        BY <1>6, <3>1
      <3> QED BY <2>1, <3>2 DEF InRowOrEnd
    <2> QED BY <2>2, <2>3
  <1>7. cur_col = 0 => InRowOrEnd(w, cur_row, cur_col)
    BY DEF InRowOrEnd
  <1> QED BY <1>2, <1>4, <1>6, <1>7 DEF InRowOrEnd, w

\* One cell is written, or an allocation fails on the way.
LEMMA WriteStep ==
  ASSUME Whole, ft_write
  PROVE  IInv'
  <1> DEFINE C == CellsUpTo(last)  J == IF strayed THEN {Junk} ELSE {}
             row == RowToWrite  m == Len(row.data)
  <1>1. /\ cur_row \in Nat /\ cur_col \in Nat /\ last \in Nat /\ strayed \in BOOLEAN
        /\ row \in Vec(C) /\ m \in Nat /\ (strayed \/ cur_col <= m)
    BY RowToWriteIs, VecIs
  <1>2. /\ cur_row' = cur_row /\ strayed' = strayed /\ cur_col < MaxCols
        /\ cur_row \in 0 .. MaxRows - 1 /\ cur_col \in 0 .. MaxCols
        /\ separators' \in Vec(BOOLEAN)
    BY DEF ft_write, Whole, IInv
  <1>3. create_cell \in C /\ C \subseteq CellsUpTo(last + 1) /\ Cell(last + 1) \in CellsUpTo(last + 1)
    <2>1. last + 1 \in Nat /\ last <= last + 1
      BY <1>1
    <2>2. Cell(last + 1) \in CellsUpTo(last + 1)
      BY <2>1, CellsAre
    <2> QED BY <1>1, <2>1, <2>2, CellsAre
  <1>4. CASE Write
    <2> DEFINE S == CellsUpTo(last + 1) \cup J  new == PutCell(row, last + 1)
    <2>1. /\ rows' = WithRow(cur_row, new) /\ last' = last + 1 /\ cur_col' = cur_col + 1
      BY <1>4 DEF Write
    <2>2. new \in Vec(S) /\ cur_col + 1 <= Len(new.data)
      <3>1. CASE add_strategy = "INSERT"
        <4>1. new = vector_insert(row, Cell(last + 1), cur_col)
          BY <3>1 DEF PutCell
        <4>2. row \in Vec(S) /\ Cell(last + 1) \in S /\ (cur_col <= m \/ Junk \in S)
          <5>1. Vec(C) \subseteq Vec(S)
            BY <1>3, VecMono
          <5> QED BY <1>1, <1>3, <5>1
        <4> HIDE DEF S, row, new
        <4>3. new \in Vec(S) /\ Len(new.data) = Larger(cur_col, m) + 1
          BY <1>1, <4>1, <4>2, InsertIs
        <4> QED BY <1>1, <4>3 DEF Larger
      <3>2. CASE add_strategy # "INSERT"
        <4>1. new = PutReplace(row, cur_col, last + 1)
          BY <3>2 DEF PutCell
        <4> HIDE DEF row, new
        <4>2. /\ new \in Vec(CellsUpTo(last + 1))
              /\ Len(new.data) = Larger(cur_col + 1, m)
          BY <1>1, <4>1, PutReplaceIs
        <4>3. new \in Vec(S)
          <5>1. Vec(CellsUpTo(last + 1)) \subseteq Vec(S)
            BY VecMono
          <5> QED BY <4>2, <5>1
        <4> QED BY <1>1, <4>2, <4>3 DEF Larger
      <3> QED BY <3>1, <3>2
    <2>3. C \subseteq S /\ cur_col + 1 \in Nat
      BY <1>1, <1>3
    <2> HIDE DEF new, S
    <2>4. rows' \in Vec(Vec(S)) /\ InRowOrEnd(rows', cur_row, cur_col + 1)
      BY <2>1, <2>2, <2>3, RowWritten
    <2>5. S \subseteq HeldOf(last', strayed')
      BY <1>2, <2>1 DEF S, HeldOf
    <2>6. last + 1 \in Nat /\ cur_col + 1 \in 0 .. MaxCols
      BY <1>1, <1>2, FortAssumption
    <2> QED BY <1>1, <1>2, <2>1, <2>4, <2>5, <2>6, Conclude
  <1>5. CASE WriteFails
    <2>1. last' = last /\ cur_col' = cur_col
      BY <1>5 DEF WriteFails
    <2>2. C \cup J = HeldOf(last', strayed')
      BY <1>2, <2>1 DEF HeldOf
    <2>3. ASSUME NEW n \in ft_row_count .. cur_row, rows' = RowsTo(n) PROVE IInv'
      <3>1. n \in Nat
        BY VecIs DEF Whole, ft_row_count
      <3>2. rows' \in Vec(Vec(C)) /\ (strayed \/ InRowOrEnd(rows', cur_row, cur_col))
        BY <2>3, <3>1, RowsMade
      <3> QED BY <1>1, <1>2, <2>1, <2>2, <3>2, Conclude
    <2>4. ASSUME NEW r \in HalfWritten(row), rows' = WithRow(cur_row, r) PROVE IInv'
      <3>1. row \in Vec(C \cup J)
        BY <1>1, VecMono
      <3>2. r \in Vec(C \cup J) /\ m <= Len(r.data)
        <4>1. CASE r = row
          BY <1>1, <3>1, <4>1
        <4>2. CASE r = vector_insert(row, create_cell, cur_col)
          <5> DEFINE S == C \cup J
          <5>1. create_cell \in S /\ (cur_col <= m \/ Junk \in S) /\ row \in Vec(S)
            BY <1>1, <1>3, <3>1
          <5> HIDE DEF row, S
          <5>2. r \in Vec(S) /\ Len(r.data) = Larger(cur_col, m) + 1
            BY <1>1, <4>2, <5>1, InsertIs
          <5> QED BY <1>1, <5>2 DEF Larger, S
        <4>3. ASSUME NEW n \in columns_in_row(row) .. cur_col + 1, r = CellsTo(row, n)
              PROVE  r \in Vec(C \cup J) /\ m <= Len(r.data)
          <5>1. n \in Nat
            BY <1>1, VecIs DEF columns_in_row
          <5>2. create_cell \in C \cup J
            BY <1>3
          <5> HIDE DEF row, C, J
          <5>3. r \in Vec(C \cup J) /\ Len(r.data) = Larger(n, m)
            BY <3>1, <4>3, <5>1, <5>2, CellsToIs
          <5> QED BY <1>1, <5>1, <5>3 DEF Larger
        <4> QED BY <2>4, <4>1, <4>2, <4>3 DEF HalfWritten
      <3>3. /\ rows' \in Vec(Vec(C \cup J))
            /\ strayed \/ InRowOrEnd(rows', cur_row, cur_col)
        BY <1>1, <2>4, <3>2, RowGrown DEF RowToWrite
      <3> QED BY <1>1, <1>2, <2>1, <2>2, <3>3, Conclude
    <2> QED BY <1>5, <2>3, <2>4 DEF WriteFails
  <1> QED BY <1>4, <1>5 DEF ft_write

\* A formatted row is inserted or put over what is there, or is not.
LEMMA PrintfStep ==
  ASSUME Whole, ft_printf
  PROVE  IInv'
  <1> DEFINE C == CellsUpTo(last)  J == IF strayed THEN {Junk} ELSE {}
             row == RowToWrite  m == Len(row.data)
  <1>1. /\ cur_row \in Nat /\ cur_col \in Nat /\ last \in Nat /\ strayed \in BOOLEAN
        /\ row \in Vec(C) /\ m \in Nat /\ (strayed \/ cur_col <= m)
    BY RowToWriteIs, VecIs
  <1>2. PICK n \in 1 .. MaxCols : cur_col + n <= MaxCols /\ (Printf(n) \/ PrintfFails(n))
    BY DEF ft_printf
  <1>3. /\ cur_row' = cur_row /\ strayed' = strayed /\ n \in Nat \ {0}
        /\ cur_row \in 0 .. MaxRows - 1 /\ cur_col \in 0 .. MaxCols
        /\ separators' \in Vec(BOOLEAN)
    BY DEF ft_printf, Whole, IInv
  <1> DEFINE ins == FmtRow(n)
  <1>4. ins \in Vec(CellsUpTo(last + n)) /\ Len(ins.data) = n
    BY <1>1, <1>3, FmtRowIs
  <1>5. C \subseteq CellsUpTo(last + n) /\ create_cell \in C
    <2>1. last + n \in Nat /\ last <= last + n
      BY <1>1, <1>3
    <2> QED BY <1>1, <2>1, CellsAre
  <1>6. CASE Printf(n)
    <2> DEFINE S == CellsUpTo(last + n) \cup J
               new == IF add_strategy = "INSERT" THEN insert_row(row, ins) ELSE swap_row(row, ins)
    <2>1. rows' = WithRow(cur_row, new) /\ last' = last + n /\ cur_col' = cur_col + n
      BY <1>6 DEF Printf
    <2>2. row \in Vec(S) /\ ins \in Vec(S) /\ create_cell \in S /\ (cur_col <= m \/ Junk \in S)
      <3>1. Vec(C) \subseteq Vec(S) /\ Vec(CellsUpTo(last + n)) \subseteq Vec(S)
        BY <1>5, VecMono
      <3> QED BY <1>1, <1>4, <1>5, <3>1
    <2>3. C \subseteq S
      BY <1>5
    <2>4. S = HeldOf(last', strayed')
      BY <1>3, <2>1 DEF HeldOf
    <2> HIDE DEF S, row, ins
    <2>5. new \in Vec(S) /\ cur_col + n <= Len(new.data)
      <3>1. CASE add_strategy = "INSERT"
        <4>1. insert_row(row, ins) \in Vec(S)
              /\ Len(insert_row(row, ins).data) = Larger(cur_col, m) + n
          BY <1>1, <1>4, <2>2, InsertRowIs
        <4> QED BY <1>1, <1>3, <3>1, <4>1 DEF Larger
      <3>2. CASE add_strategy # "INSERT"
        <4>0. Len(ins.data) = n /\ Len(ins.data) > 0
          BY <1>3, <1>4
        <4> HIDE DEF m
        <4>1. swap_row(row, ins) \in Vec(S)
              /\ Len(swap_row(row, ins).data) = Larger(cur_col + Len(ins.data), Len(row.data))
          <5>1. cur_col \in Nat /\ (cur_col <= Len(row.data) \/ Junk \in S)
            BY <1>1, <2>2 DEF m
          <5> QED BY <2>2, <4>0, <5>1, SwapRowIs
        <4> QED BY <1>1, <1>3, <3>2, <4>0, <4>1 DEF Larger, m
      <3> QED BY <3>1, <3>2
    <2> HIDE DEF new
    <2>6. cur_col + n \in Nat /\ last + n \in Nat /\ cur_col + n \in 0 .. MaxCols
      BY <1>1, <1>2, <1>3, FortAssumption
    <2>7. rows' \in Vec(Vec(S)) /\ InRowOrEnd(rows', cur_row, cur_col + n)
      BY <2>1, <2>3, <2>5, <2>6, RowWritten
    <2> QED BY <1>1, <1>3, <2>1, <2>4, <2>6, <2>7, Conclude
  <1>7. CASE PrintfFails(n)
    <2>1. last' = last /\ cur_col' = cur_col
      BY <1>7 DEF PrintfFails
    <2>2. C \subseteq HeldOf(last', strayed')
      BY <1>3, <2>1 DEF HeldOf
    <2>3. ASSUME rows' = rows PROVE IInv'
      <3>1. rows' \in Vec(Vec(C)) /\ (strayed \/ InRowOrEnd(rows', cur_row, cur_col))
        BY <1>1, <2>3, BehindEndIs DEF Whole, IInv
      <3> QED BY <1>1, <1>3, <2>1, <2>2, <3>1, Conclude
    <2>4. ASSUME NEW k \in ft_row_count .. cur_row + 1, rows' = RowsTo(k) PROVE IInv'
      <3>1. k \in Nat
        BY VecIs DEF Whole, ft_row_count
      <3>2. rows' \in Vec(Vec(C)) /\ (strayed \/ InRowOrEnd(rows', cur_row, cur_col))
        BY <2>4, <3>1, RowsMade
      <3> QED BY <1>1, <1>3, <2>1, <2>2, <3>2, Conclude
    <2>5. ASSUME NEW r \in HalfPrinted(row, n), rows' = WithRow(cur_row, r) PROVE IInv'
      <3>1. r \in Vec(C) /\ m <= Len(r.data)
        <4>1. ASSUME NEW k \in columns_in_row(row) .. cur_col - 1, r = CellsTo(row, k)
              PROVE  r \in Vec(C) /\ m <= Len(r.data)
          <5>1. k \in Nat
            BY <1>1, VecIs DEF columns_in_row
          <5> HIDE DEF row, C
          <5>2. r \in Vec(C) /\ Len(r.data) = Larger(k, m)
            BY <1>1, <1>5, <4>1, <5>1, CellsToIs
          <5> QED BY <1>1, <5>1, <5>2 DEF Larger
        <4>2. ASSUME r = SwapRoom(row, ins, cur_col) PROVE r \in Vec(C) /\ m <= Len(r.data)
          <5>1. r = [row EXCEPT !.cap = Larger(@, cur_col + n)]
            BY <1>4, <4>2, VecIs DEF SwapRoom
          <5> HIDE DEF row, C
          <5>2. row = [data |-> row.data, cap |-> row.cap] /\ row.data \in Seq(C)
                /\ row.cap \in Nat \ {0} /\ m <= row.cap
            BY <1>1, VecIs
          <5> DEFINE c == Larger(row.cap, cur_col + n)
          <5>3. c \in Nat /\ c > 0 /\ m <= c
            BY <1>1, <1>3, <5>2 DEF Larger
          <5> HIDE DEF c
          <5>4. r = [data |-> row.data, cap |-> c]
            BY <5>1, <5>2 DEF c
          <5> QED BY <1>1, <5>2, <5>3, <5>4, IsVec
        <4> QED BY <2>5, <4>1, <4>2 DEF HalfPrinted
      <3>2. /\ rows' \in Vec(Vec(C))
            /\ strayed \/ InRowOrEnd(rows', cur_row, cur_col)
        BY <1>1, <2>5, <3>1, RowGrown DEF RowToWrite
      <3> QED BY <1>1, <1>3, <2>1, <2>2, <3>2, Conclude
    <2> QED BY <1>7, <2>3, <2>4, <2>5 DEF PrintfFails
  <1> QED BY <1>2, <1>6, <1>7

\* A row is split, or only the cursor moves on, or the cells split off are lost.
LEMMA LnStep ==
  ASSUME Whole, ft_ln
  PROVE  IInv'
  <1> DEFINE C == CellsUpTo(last)  row == vector_at(rows, cur_row)  m == Len(rows.data)
             head == SplitHead(row, cur_col)  tail == SplitTail(row, cur_col)
             cut == VectorSet(rows, cur_row, head)
  <1>1. /\ cur_row \in Nat /\ cur_col \in Nat /\ last \in Nat /\ strayed \in BOOLEAN
        /\ rows \in Vec(Vec(C)) /\ m \in Nat
        /\ cur_row \in 0 .. MaxRows - 1 /\ cur_col \in 0 .. MaxCols
    BY RowToWriteIs, VecIs DEF Whole, IInv
  <1>2. /\ last' = last /\ strayed' = strayed /\ separators' \in Vec(BOOLEAN)
        /\ cur_row + 1 < MaxRows
    BY DEF ft_ln, Whole, IInv
  <1>3. C \subseteq HeldOf(last', strayed')
    BY <1>2 DEF HeldOf
  <1>4. ASSUME InRow
        PROVE  /\ cur_row < m /\ cur_row + 1 <= m /\ head \in Vec(C) /\ tail \in Vec(C)
               /\ Len(head.data) = cur_col
               /\ cut \in Vec(Vec(C)) /\ Len(cut.data) = m /\ cut.data[cur_row + 1] = head
    <2>1. cur_row < m /\ cur_col < columns_in_row(row) /\ row = rows.data[cur_row + 1]
          /\ cur_row + 1 \in 1 .. m
      BY <1>1, <1>4, VecIs DEF InRow, ft_row_count, vector_at
    <2>2. row \in Vec(C)
      BY <1>1, <2>1, VecIs
    <2>3. cur_col < Len(row.data)
      BY <2>1, <2>2, VecIs DEF columns_in_row
    <2> HIDE DEF row, m
    <2>4. head \in Vec(C) /\ tail \in Vec(C) /\ Len(head.data) = cur_col
      BY <1>1, <2>2, <2>3, SplitIs
    <2> HIDE DEF head, tail
    <2>5. cut \in Vec(Vec(C)) /\ Len(cut.data) = m /\ \A k \in 1 .. m :
            cut.data[k] = IF k = cur_row + 1 THEN head ELSE rows.data[k]
      BY <1>1, <2>1, <2>4, SetIs DEF m
    <2> QED BY <1>1, <2>1, <2>4, <2>5
  <1>5. CASE NextLine /\ UNCHANGED rows
    <2>1. cur_row' = cur_row + 1 /\ cur_col' = 0 /\ rows' \in Vec(Vec(C))
      BY <1>1, <1>5 DEF NextLine
    <2>2. cur_row' \in 0 .. MaxRows - 1 /\ cur_col' \in 0 .. MaxCols
      BY <1>1, <1>2, <2>1, FortAssumption
    <2> QED BY <1>1, <1>2, <1>3, <2>1, <2>2, Conclude DEF InRowOrEnd
  <1>6. CASE LnSplits
    <2>1. /\ InRow /\ rows' = vector_insert(cut, tail, cur_row + 1)
          /\ cur_row' = cur_row + 1 /\ cur_col' = 0
      BY <1>6 DEF LnSplits, SplitRow, NextLine
    <2>2. /\ cut \in Vec(Vec(C)) /\ tail \in Vec(C) /\ cur_row + 1 <= Len(cut.data)
          /\ cur_row + 1 \in Nat
      BY <1>1, <1>4, <2>1
    <2> HIDE DEF cut, tail
    <2>3. rows' \in Vec(Vec(C))
      BY <2>1, <2>2, InsertIs
    <2>4. cur_row' \in 0 .. MaxRows - 1 /\ cur_col' \in 0 .. MaxCols
      BY <1>1, <1>2, <2>1, FortAssumption
    <2> QED BY <1>1, <1>2, <1>3, <2>1, <2>3, <2>4, Conclude DEF InRowOrEnd
  <1>7. CASE LnFails
    <2>1. InRow /\ cur_row' = cur_row /\ cur_col' = cur_col /\ (rows' = rows \/ rows' = cut)
      BY <1>7 DEF LnFails, cursor
    <2>2. rows' \in Vec(Vec(C)) /\ (strayed \/ InRowOrEnd(rows', cur_row, cur_col))
      <3>1. CASE rows' = rows
        BY <1>1, <3>1, BehindEndIs DEF Whole, IInv
      <3>2. CASE rows' = cut
        <4>1. cut \in Vec(Vec(C)) /\ Len(cut.data) = m /\ cut.data[cur_row + 1] = head
              /\ cur_row + 1 <= m /\ Len(head.data) = cur_col
          BY <1>4, <2>1
        <4> HIDE DEF cut, head, m
        <4> QED BY <1>1, <3>2, <4>1 DEF InRowOrEnd
      <3> QED BY <2>1, <3>1, <3>2
    <2> QED BY <1>1, <1>2, <1>3, <2>1, <2>2, Conclude
  <1> QED BY <1>5, <1>6, <1>7 DEF ft_ln, LnMoves

\* A copy holds the same, in memory of its own.
LEMMA CopyIs ==
  ASSUME NEW S, NEW v \in Vec(S), NEW T, NEW d \in [1 .. Len(v.data) -> T]
  PROVE  LET w == [CopyOf(v) EXCEPT !.data = d] IN w \in Vec(T) /\ w.data = d
  <1> DEFINE c == CopyOf(v)  e == create_vector(Capacity)  n == Len(v.data)
  <1>1. n \in Nat /\ vector_size(v) = n
    BY VecIs
  <1>2. e \in Vec({Junk}) /\ Len(e.data) = 0
    BY NewRowIs DEF create_row
  <1>3. c = PadTo(e, n, Junk)
    BY <1>1 DEF CopyOf
  <1> HIDE DEF c, e, n
  <1>4. c \in Vec({Junk}) /\ Len(c.data) = n
    BY <1>1, <1>2, <1>3, PadIs DEF Larger
  <1>5. c.cap \in Nat \ {0} /\ n <= c.cap
    BY <1>4, VecIs
  <1>6. [c EXCEPT !.data = d] = [data |-> d, cap |-> c.cap]
    BY <1>4, DataSet
  <1>7. d \in Seq(T) /\ Len(d) = n
    BY <1>1, FunIsSeq DEF n
  <1> QED BY <1>5, <1>6, <1>7, IsVec DEF c

\* The table is copied row by row.
LEMMA CopyStep ==
  ASSUME Whole, ft_copy_table
  PROVE  /\ IInv' /\ rows' \in Vec(Vec(CellsUpTo(last))) /\ Len(rows'.data) = Len(rows.data)
         /\ \A k \in 1 .. Len(rows.data) : rows'.data[k].data = rows.data[k].data
         /\ separators'.data = separators.data
  <1> DEFINE C == CellsUpTo(last)  m == Len(rows.data)
             d == [k \in DOMAIN rows.data |-> copy_row(rows.data[k])]
  <1>1. /\ cur_row \in Nat /\ cur_col \in Nat /\ last \in Nat /\ strayed \in BOOLEAN
        /\ rows \in Vec(Vec(C)) /\ m \in Nat /\ separators \in Vec(BOOLEAN)
        /\ cur_row \in 0 .. MaxRows - 1 /\ cur_col \in 0 .. MaxCols
        /\ DOMAIN rows.data = 1 .. m
    BY RowToWriteIs, VecIs DEF Whole, IInv
  <1>2. /\ last' = last /\ strayed' = strayed /\ cur_row' = cur_row /\ cur_col' = cur_col
        /\ rows' = [CopyOf(rows) EXCEPT !.data = d]
        /\ separators' = [CopyOf(separators) EXCEPT !.data = separators.data]
    BY DEF ft_copy_table, cursor
  <1>3. ASSUME NEW k \in 1 .. m
        PROVE  copy_row(rows.data[k]) \in Vec(C) /\ copy_row(rows.data[k]).data = rows.data[k].data
    <2>1. rows.data[k] \in Vec(C)
      BY <1>1, VecIs
    <2>2. rows.data[k].data \in [1 .. Len(rows.data[k].data) -> C]
      BY <2>1, VecIs, LenProperties
    <2> QED BY <2>1, <2>2, CopyIs DEF copy_row
  <1>4. d \in [1 .. m -> Vec(C)] /\ \A k \in 1 .. m : d[k].data = rows.data[k].data
    BY <1>1, <1>3
  <1>5. rows' \in Vec(Vec(C)) /\ rows'.data = d
    <2> HIDE DEF d, C
    <2> QED BY <1>1, <1>2, <1>4, CopyIs
  <1>6. Len(rows'.data) = m /\ \A k \in 1 .. m : rows'.data[k].data = rows.data[k].data
    <2> HIDE DEF d, C, m
    <2> QED BY <1>1, <1>4, <1>5, FunIsSeq
  <1>7. separators' \in Vec(BOOLEAN) /\ separators'.data = separators.data
    <2>1. separators.data \in [1 .. Len(separators.data) -> BOOLEAN]
      BY <1>1, VecIs, LenProperties
    <2> QED BY <1>1, <1>2, <2>1, CopyIs
  <1>8. strayed \/ InRowOrEnd(rows', cur_row, cur_col)
    <2>1. strayed \/ InRowOrEnd(rows, cur_row, cur_col)
      BY <1>1, BehindEndIs DEF Whole, IInv
    <2>2. cur_row + 1 <= m => cur_row + 1 \in 1 .. m
      BY <1>1
    <2> QED BY <1>6, <2>1, <2>2 DEF InRowOrEnd
  <1>9. C \subseteq HeldOf(last', strayed')
    BY <1>2 DEF HeldOf
  <1>10. IInv'
    <2> HIDE DEF C
    <2> QED BY <1>1, <1>2, <1>5, <1>7, <1>8, <1>9, Conclude
  <1> QED BY <1>5, <1>6, <1>7, <1>10

\* A row as it was, or without its cells from left to right.
KeptOrErased(old, new, left, right) ==
  \/ new = old
  \/ left <= Len(old.data) /\ new = EraseCells(old, left, right)

\* The rows with the cells of a rectangle erased, each where it was.
LEMMA ErasedIs ==
  ASSUME NEW S, rows \in Vec(Vec(S)), NEW top \in Nat, NEW left \in Nat,
         NEW bottom \in Nat, NEW right \in Nat, left <= right
  PROVE  /\ Erased(top, left, bottom, right) \in Vec(Vec(S))
         /\ Len(Erased(top, left, bottom, right).data) = Len(rows.data)
         /\ \A k \in 1 .. Len(rows.data) :
              KeptOrErased(rows.data[k], Erased(top, left, bottom, right).data[k], left, right)
  <1> DEFINE m == Len(rows.data)
             New(k) == IF k - 1 \in top .. bottom /\ left <= columns_in_row(rows.data[k])
                       THEN EraseCells(rows.data[k], left, right) ELSE rows.data[k]
             d == [k \in DOMAIN rows.data |-> New(k)]
  <1>1. m \in Nat /\ DOMAIN rows.data = 1 .. m /\ rows.cap \in Nat \ {0} /\ m <= rows.cap
    BY VecIs
  <1>2. Erased(top, left, bottom, right) = [data |-> d, cap |-> rows.cap]
    BY DataSet DEF Erased
  <1>3. ASSUME NEW k \in 1 .. m
        PROVE  /\ New(k) \in Vec(S)
               /\ KeptOrErased(rows.data[k], New(k), left, right)
    <2>1. rows.data[k] \in Vec(S) /\ columns_in_row(rows.data[k]) = Len(rows.data[k].data)
      BY VecIs DEF columns_in_row
    <2>2. left <= Len(rows.data[k].data) => EraseCells(rows.data[k], left, right) \in Vec(S)
      BY <2>1, EraseCellsIs
    <2> QED BY <2>1, <2>2 DEF KeptOrErased
  <1>4. d \in [1 .. m -> Vec(S)] /\ \A k \in 1 .. m : d[k] = New(k)
    BY <1>1, <1>3
  <1> HIDE DEF d, m
  <1>5. d \in Seq(Vec(S)) /\ Len(d) = m
    BY <1>1, <1>4, FunIsSeq
  <1>6. Erased(top, left, bottom, right) \in Vec(Vec(S))
    BY <1>1, <1>2, <1>5, IsVec
  <1> HIDE DEF New
  <1> QED BY <1>2, <1>3, <1>4, <1>5, <1>6 DEF m

\* The rows the loop of ft_erase_range goes through are in the table.
LEMMA LoopInTable ==
  ASSUME Whole, NEW top \in Nat, NEW left \in Nat, NEW bottom \in Nat, top <= bottom,
         InTable(top, left, bottom)
  PROVE  LET n == Smaller(ft_row_count, bottom + 1) - top IN
         n \in Nat /\ top + n <= Len(rows.data)
  <1>1. ft_row_count = Len(rows.data) /\ Len(rows.data) \in Nat
    BY VecIs DEF Whole, ft_row_count
  <1> QED BY <1>1 DEF InTable, Smaller

\* Cells and rows go; where the cursor is then, behind the end or not, is noted.
LEMMA EraseStep ==
  ASSUME Whole, AnyErase
  PROVE  IInv'
  <1> DEFINE C == CellsUpTo(last)
  <1>1. PICK top \in RowArgs, bottom \in RowArgs, left \in ColArgs, right \in ColArgs :
               ft_erase_range(top, left, bottom, right)
    BY DEF AnyErase
  <1>2. /\ top \in Nat /\ bottom \in Nat /\ left \in Nat /\ right \in Nat
        /\ top <= bottom /\ left <= right
    BY <1>1, ArgsAre DEF ft_erase_range
  <1>3. /\ cur_row \in Nat /\ cur_col \in Nat /\ last \in Nat /\ strayed \in BOOLEAN
        /\ rows \in Vec(Vec(C)) /\ separators \in Vec(BOOLEAN)
        /\ cur_row \in 0 .. MaxRows - 1 /\ cur_col \in 0 .. MaxCols
    BY RowToWriteIs DEF Whole, IInv
  <1>4. /\ last' = last /\ cur_row' = cur_row /\ cur_col' = cur_col
        /\ strayed' = (strayed \/ BehindEnd(rows', cur_row, cur_col))
    BY <1>1 DEF ft_erase_range, cursor
  <1>5. rows' \in Vec(Vec(C)) /\ separators' \in Vec(BOOLEAN)
    <2>1. CASE ~InTable(top, left, bottom)
      <3>1. rows' = rows /\ separators' = separators
        BY <1>1, <2>1 DEF ft_erase_range
      <3> QED BY <1>3, <3>1
    <2>2. CASE InTable(top, left, bottom)
      <3> DEFINE rs == Erased(top, left, bottom, right)
                 n == Smaller(ft_row_count, bottom + 1) - top
                 base == [i |-> top, rs |-> rs, sep |-> separators]
      <3>1. RemoveRows(rs, top, n)
        BY <1>1, <2>2 DEF ft_erase_range
      <3>2. rs \in Vec(Vec(C)) /\ Len(rs.data) = Len(rows.data)
        <4>1. /\ rows \in Vec(Vec(C)) /\ left <= right
              /\ top \in Nat /\ bottom \in Nat /\ left \in Nat /\ right \in Nat
          BY <1>2, <1>3
        <4> HIDE DEF C
        <4>2. /\ Erased(top, left, bottom, right) \in Vec(Vec(C))
              /\ Len(Erased(top, left, bottom, right).data) = Len(rows.data)
          BY <4>1, ErasedIs
        <4> QED BY <4>2
      <3>3. n \in Nat /\ top + n <= Len(rs.data)
        BY <1>2, <2>2, <3>2, LoopInTable
      <3> HIDE DEF rs, n, C
      <3>4. base \in Loop(C)
        BY <1>2, <1>3, <3>2 DEF Loop
      <3>5. \A w \in Loop(C) : w.i < Len(w.rs.data) => RemoveOne(w) \in Loop(C)
        BY RemoveOneIs
      <3> DEFINE I == Loop(C)
      <3>6. I \in SUBSET Loop(C) /\ base \in I
            /\ \A w \in I : w.i < Len(w.rs.data) => RemoveOne(w) \in I
        BY <3>4, <3>5
      <3> HIDE DEF I
      <3>7. \E w \in I : rows' = w.rs /\ separators' = w.sep
        BY <1>2, <1>3, <3>1, <3>2, <3>3, <3>6, RemoveRule
      <3> QED BY <3>7 DEF I, Loop
    <2> QED BY <2>1, <2>2
  <1>6. strayed' \in BOOLEAN /\ C \subseteq HeldOf(last', strayed')
    BY <1>3, <1>4 DEF HeldOf, BehindEnd
  <1>7. strayed' \/ InRowOrEnd(rows', cur_row', cur_col')
    BY <1>3, <1>4, <1>5, BehindEndIs
  <1> HIDE DEF C
  <1> QED BY <1>3, <1>4, <1>5, <1>6, <1>7, Conclude

\* A group of cells is made, or an allocation fails on the way.
LEMMA SpanStep ==
  ASSUME Whole, AnySpan
  PROVE  IInv'
  <1> DEFINE C == CellsUpTo(last)
  <1>1. PICK r \in RowArgs, col \in 0 .. MaxCols - 2, span \in 2 .. MaxCols :
               ft_set_cell_span(r, col, span)
    BY DEF AnySpan
  <1>2. /\ cur_row \in Nat /\ cur_col \in Nat /\ last \in Nat /\ strayed \in BOOLEAN
        /\ rows \in Vec(Vec(C)) /\ separators \in Vec(BOOLEAN)
        /\ cur_row \in 0 .. MaxRows - 1 /\ cur_col \in 0 .. MaxCols
        /\ r \in Nat /\ col \in Nat
    BY RowToWriteIs, ArgsAre DEF Whole, IInv
  <1>3. /\ last' = last /\ cur_row' = cur_row /\ cur_col' = cur_col
        /\ strayed' = strayed /\ separators' = separators
    BY <1>1 DEF ft_set_cell_span, cursor
  <1> DEFINE row == vector_at(RowsTo(r + 1), r)  m == Len(row.data)
  <1>4. row \in Vec(C) /\ m \in Nat /\ columns_in_row(row) = m /\ create_cell \in C
    <2>1. create_cell \in C
      BY <1>2, CellsAre
    <2>2. rows \in Vec(Vec(C)) /\ r \in Nat
      BY <1>2
    <2> HIDE DEF C
    <2>3. row \in Vec(C)
      BY <2>2, RowAtIs
    <2> HIDE DEF row
    <2> QED BY <2>1, <2>3, VecIs DEF columns_in_row
  <1>5. rows' \in Vec(Vec(C)) /\ (strayed \/ InRowOrEnd(rows', cur_row, cur_col))
    <2>1. ASSUME NEW n \in ft_row_count .. r, rows' = RowsTo(n)
          PROVE  rows' \in Vec(Vec(C)) /\ (strayed \/ InRowOrEnd(rows', cur_row, cur_col))
      <3>1. n \in Nat
        BY VecIs DEF Whole, ft_row_count
      <3> QED BY <2>1, <3>1, RowsMade
    <2>2. ASSUME NEW w \in row_set_cell_span(row, col, span), rows' = WithRow(r, w)
          PROVE  rows' \in Vec(Vec(C)) /\ (strayed \/ InRowOrEnd(rows', cur_row, cur_col))
      <3>1. w \in Vec(C) /\ m <= Len(w.data)
        <4>1. ASSUME NEW n \in 1 .. span, w = Spanned(row, col, n)
              PROVE  w \in Vec(C) /\ m <= Len(w.data)
          <5>1. n \in Nat \ {0}
            OBVIOUS
          <5> HIDE DEF row
          <5>2. w \in Vec(C) /\ Len(w.data) = Larger(col + n, m)
            <6>1. last \in Nat /\ col \in Nat /\ row \in Vec(CellsUpTo(last)) /\ w = Spanned(row, col, n)
              BY <1>2, <1>4, <4>1
            <6>2. /\ Spanned(row, col, n) \in Vec(CellsUpTo(last))
                  /\ Len(Spanned(row, col, n).data) = Larger(col + n, Len(row.data))
              BY <5>1, <6>1, SpannedIs DEF IsSpanned
            <6> QED BY <6>1, <6>2
          <5> QED BY <1>2, <1>4, <5>1, <5>2 DEF Larger
        <4>2. ASSUME NEW n \in columns_in_row(row) .. col, w = CellsTo(row, n)
              PROVE  w \in Vec(C) /\ m <= Len(w.data)
          <5>1. n \in Nat
            BY <1>4
          <5> HIDE DEF row, C
          <5>2. w \in Vec(C) /\ Len(w.data) = Larger(n, m)
            BY <1>4, <4>2, <5>1, CellsToIs
          <5> QED BY <1>4, <5>1, <5>2 DEF Larger
        <4> QED BY <2>2, <4>1, <4>2 DEF row_set_cell_span
      <3> QED BY <1>2, <2>2, <3>1, RowGrown
    <2> QED BY <1>1, <2>1, <2>2 DEF ft_set_cell_span
  <1>6. C \subseteq HeldOf(last', strayed')
    BY <1>3 DEF HeldOf
  <1> HIDE DEF C
  <1> QED BY <1>2, <1>3, <1>5, <1>6, Conclude

\* A separator is put above the row of the cursor, or some are made.
LEMMA SeparatorStep ==
  ASSUME Whole, ft_add_separator
  PROVE  separators' \in Vec(BOOLEAN)
  <1>1. cur_row \in Nat /\ separators \in Vec(BOOLEAN) /\ FALSE \in BOOLEAN /\ TRUE \in BOOLEAN
    BY RowToWriteIs DEF Whole, IInv
  <1> DEFINE B == BOOLEAN  no == FALSE  p == PadTo(separators, cur_row + 1, no)
  <1>2. CASE separators' = VectorSet(p, cur_row, TRUE)
    <2>1. cur_row + 1 \in Nat /\ separators \in Vec(B) /\ no \in B
      BY <1>1
    <2>2. p \in Vec(B) /\ Len(p.data) = Larger(cur_row + 1, Len(separators.data))
      <3> HIDE DEF B, no
      <3> QED BY <2>1, PadIs
    <2> HIDE DEF p
    <2>3. cur_row < Len(p.data)
      BY <1>1, <2>2, VecIs DEF Larger
    <2> QED BY <1>1, <1>2, <2>2, <2>3, SetIs
  <1>3. ASSUME NEW n \in vector_size(separators) .. cur_row, separators' = PadTo(separators, n, FALSE)
        PROVE  separators' \in Vec(BOOLEAN)
    <2>1. n \in Nat /\ separators \in Vec(B) /\ no \in B /\ separators' = PadTo(separators, n, no)
      BY <1>1, <1>3, VecIs
    <2>2. separators' \in Vec(B)
      <3> HIDE DEF B, no
      <3> QED BY <2>1, PadIs
    <2> QED BY <2>2
  <1> QED BY <1>2, <1>3 DEF ft_add_separator

-----------------------------------------------------------------------------
(* A vector cannot grow *)

\* What is left of a table that has lost one.
Lost ==
  /\ spoiled /\ last \in Nat
  /\ rows \in Vec(Vec(CellsUpTo(last)) \cup {Nowhere}) \cup {Nowhere}
  /\ separators \in Vec(BOOLEAN) \cup {Nowhere}
  /\ cur_row \in 0 .. MaxRows - 1 /\ cur_col \in 0 .. MaxCols

\* All rows, those of one row, or nothing is lost.
LEMMA GrowthIs ==
  ASSUME Whole, GrowthFails
  PROVE  /\ spoiled' /\ UNCHANGED <<cur_row, cur_col, add_strategy, last, strayed>>
         /\ separators' \in {separators, Nowhere}
         /\ \/ rows' = rows \/ rows' = Nowhere
            \/ \E r \in 0 .. MaxRows - 1 : rows' = WithRow(r, Nowhere)
  <1>1. spoiled' /\ UNCHANGED <<cur_row, cur_col, add_strategy, last, strayed>>
    BY DEF GrowthFails, cursor
  <1>2. cur_row \in 0 .. MaxRows - 1
    BY DEF Whole, IInv
  <1> DEFINE Some == \/ rows' = rows \/ rows' = Nowhere
                     \/ \E r \in 0 .. MaxRows - 1 : rows' = WithRow(r, Nowhere)
  <1>3. ASSUME NEW r \in 0 .. MaxRows - 1, NEW n, RowLost(r, n) PROVE Some
    BY <1>3 DEF RowLost, RowsLost, CellsLost
  <1>4. ASSUME WriteLoses PROVE Some
    BY <1>2, <1>3, <1>4 DEF WriteLoses
  <1>5. ASSUME PrintfLoses PROVE Some
    BY <1>2, <1>3, <1>5 DEF PrintfLoses
  <1>6. ASSUME LnLoses PROVE Some
    BY <1>6 DEF LnLoses
  <1>7. ASSUME NEW r \in RowArgs, NEW c, NEW n, SpanLoses(r, c, n)
        PROVE  Some /\ separators' = separators
    <2>1. r \in 0 .. MaxRows - 1
      BY ArgsAre
    <2>2. \/ RowsLost(r) \/ CellsLost(r)
          \/ RowLost(r, c + n)
      BY <1>7 DEF SpanLoses
    <2> QED BY <1>3, <1>7, <2>1, <2>2 DEF SpanLoses, RowsLost, CellsLost
  <1>8. ASSUME SeparatorLoses \/ CopyLoses PROVE Some /\ separators' \in {separators, Nowhere}
    BY <1>8 DEF SeparatorLoses, CopyLoses
  <1>9. Some /\ separators' \in {separators, Nowhere}
    <2> HIDE DEF Some
    <2> QED BY <1>4, <1>5, <1>6, <1>7, <1>8 DEF GrowthFails
  <1> QED BY <1>1, <1>9

\* The rows with one of them lost.
LEMMA RowLostIs ==
  ASSUME Whole, NEW r \in Nat
  PROVE  LET w == WithRow(r, Nowhere) IN
         /\ w \in Vec(Vec(CellsUpTo(last)) \cup {Nowhere})
         /\ Len(w.data) = Larger(r + 1, Len(rows.data))
         /\ \A k \in 1 .. Len(w.data) :
              w.data[k] = IF k = r + 1 THEN Nowhere
                          ELSE IF k <= Len(rows.data) THEN rows.data[k] ELSE create_row
  <1> DEFINE C == CellsUpTo(last)  T == Vec(C) \cup {Nowhere}  w == RowsTo(r + 1)
  <1>1. /\ w \in Vec(Vec(C)) /\ Len(w.data) = Larger(r + 1, Len(rows.data))
        /\ \A k \in 1 .. Len(w.data) :
             w.data[k] = IF k <= Len(rows.data) THEN rows.data[k] ELSE create_row
    <2>1. rows \in Vec(Vec(C)) /\ r + 1 \in Nat
      BY DEF Whole
    <2> HIDE DEF C
    <2> QED BY <2>1, RowsToIs
  <1> HIDE DEF w
  <1>2. w \in Vec(T) /\ Nowhere \in T
    BY <1>1, VecMono
  <1>3. Len(rows.data) \in Nat
    BY VecIs DEF Whole
  <1>4. r < Len(w.data)
    BY <1>1, <1>3 DEF Larger
  <1> HIDE DEF T
  <1>5. LET u == VectorSet(w, r, Nowhere) IN
        /\ u \in Vec(T) /\ Len(u.data) = Len(w.data)
        /\ \A k \in 1 .. Len(w.data) : u.data[k] = IF k = r + 1 THEN Nowhere ELSE w.data[k]
    BY <1>2, <1>4, SetIs
  <1>6. WithRow(r, Nowhere) = VectorSet(w, r, Nowhere)
    BY DEF WithRow, w
  <1> QED BY <1>1, <1>5, <1>6 DEF T

\* A call that cannot make a vector grow leaves what is left.
LEMMA GrowthStep ==
  ASSUME Whole, GrowthFails
  PROVE  Lost'
  <1> DEFINE T == Vec(CellsUpTo(last)) \cup {Nowhere}
  <1>1. /\ spoiled' /\ UNCHANGED <<cur_row, cur_col, last>>
        /\ separators' \in {separators, Nowhere}
        /\ \/ rows' = rows \/ rows' = Nowhere
           \/ \E r \in 0 .. MaxRows - 1 : rows' = WithRow(r, Nowhere)
    BY GrowthIs
  <1>2. /\ last \in Nat /\ separators \in Vec(BOOLEAN)
        /\ cur_row \in 0 .. MaxRows - 1 /\ cur_col \in 0 .. MaxCols
    BY DEF Whole, IInv
  <1>3. rows \in Vec(T)
    <2>1. Vec(CellsUpTo(last)) \subseteq T
      OBVIOUS
    <2>2. rows \in Vec(Vec(CellsUpTo(last)))
      BY DEF Whole
    <2> HIDE DEF T
    <2> QED BY <2>1, <2>2, VecMono
  <1>4. ASSUME NEW r \in 0 .. MaxRows - 1 PROVE WithRow(r, Nowhere) \in Vec(T)
    <2>1. r \in Nat
      BY FortAssumption
    <2> QED BY <2>1, RowLostIs
  <1>5. rows' \in Vec(T) \cup {Nowhere}
    <2> HIDE DEF T
    <2> QED BY <1>1, <1>3, <1>4
  <1> QED BY <1>1, <1>2, <1>5 DEF Lost

\* The invariant, or what is left.
FInv == IInv \/ Lost

-----------------------------------------------------------------------------
(* The theorems *)

\* Every call keeps the invariant, whether or not its allocations succeed, as
\* long as the vectors grow.
LEMMA IInvStep == IInv /\ [Next]_vars /\ ~GrowthFails => IInv'
  <1> SUFFICES ASSUME IInv, [Next]_vars, ~GrowthFails PROVE IInv'
    OBVIOUS
  <1>1. CASE UNCHANGED vars
    BY <1>1 DEF vars, cursor, IInv
  <1>2. CASE Next
    <2>1. Whole
      BY <1>2, NoGap DEF Next
    <2>2. /\ cur_row \in Nat /\ cur_col \in Nat /\ last \in Nat /\ strayed \in BOOLEAN
          /\ rows \in Vec(Vec(CellsUpTo(last))) /\ separators \in Vec(BOOLEAN)
      BY <2>1, RowToWriteIs DEF Whole, IInv
    <2>3. CASE Call \/ ft_set_tbl_prop
      <3>1. UNCHANGED <<rows, separators, cur_row, cur_col, last, strayed>>
        BY <2>3 DEF Call, ft_set_tbl_prop, cursor
      <3> QED BY <3>1 DEF IInv
    <2>4. CASE ft_set_cur_cell
      <3>1. /\ UNCHANGED <<rows, separators, last>>
            /\ cur_row' \in 0 .. MaxRows - 1 /\ cur_col' \in 0 .. MaxCols - 1
            /\ strayed' = (strayed \/ BehindEnd(rows, cur_row', cur_col'))
        BY <2>4 DEF ft_set_cur_cell
      <3>2. cur_row' \in Nat /\ cur_col' \in Nat /\ cur_col' \in 0 .. MaxCols
        BY <3>1, FortAssumption
      <3>3. strayed' \in BOOLEAN /\ (strayed' \/ InRowOrEnd(rows, cur_row', cur_col'))
        BY <2>2, <3>1, <3>2, BehindEndIs DEF BehindEnd
      <3>4. CellsUpTo(last) \subseteq HeldOf(last', strayed')
        BY <3>1 DEF HeldOf
      <3> QED BY <2>2, <3>1, <3>2, <3>3, <3>4, Conclude
    <2>5. CASE ft_add_separator
      <3>1. UNCHANGED <<rows, cur_row, cur_col, last, strayed>>
        BY <2>5 DEF ft_add_separator, cursor
      <3>2. separators' \in Vec(BOOLEAN)
        BY <2>1, <2>5, SeparatorStep
      <3> QED BY <3>1, <3>2 DEF IInv
    <2> QED BY <1>2, <2>1, <2>3, <2>4, <2>5, WriteStep, PrintfStep, LnStep, CopyStep,
               EraseStep, SpanStep DEF Next
  <1> QED BY <1>1, <1>2

\* A table just made satisfies it.
LEMMA IInvInit == Init => IInv
  <1> SUFFICES ASSUME Init PROVE IInv
    OBVIOUS
  <1>1. /\ last = 0 /\ strayed = FALSE /\ cur_row = 0 /\ cur_col = 0
        /\ rows = create_row /\ separators = create_row
    BY DEF Init, create_row
  <1>2. rows \in Vec(Vec(HeldOf(last, strayed))) /\ separators \in Vec(BOOLEAN)
    BY <1>1, NewRowIs
  <1>3. ~BehindEnd(rows, cur_row, cur_col)
    BY <1>1, <1>2, BehindEndIs DEF InRowOrEnd
  <1>4. cur_row \in 0 .. MaxRows - 1 /\ cur_col \in 0 .. MaxCols
    BY <1>1, FortAssumption
  <1> QED BY <1>1, <1>2, <1>3, <1>4 DEF IInv

\* As long as the table has not come to its end it is whole, but for the gaps.
LEMMA NextWhole ==
  ASSUME FInv, Next
  PROVE  IInv /\ Whole
BY NoGap DEF Next, FInv, Lost

LEMMA FInvStep == FInv /\ [Next]_vars => FInv'
  <1>1. ASSUME Lost, UNCHANGED vars PROVE Lost'
    BY <1>1 DEF Lost, vars, cursor
  <1>2. ASSUME IInv, UNCHANGED vars PROVE IInv'
    BY <1>2 DEF IInv, vars, cursor
  <1>3. ASSUME FInv, Next, GrowthFails PROVE Lost'
    BY <1>3, NextWhole, GrowthStep
  <1>4. ASSUME FInv, Next, ~GrowthFails PROVE IInv'
    BY <1>4, NextWhole, IInvStep
  <1> QED BY <1>1, <1>2, <1>3, <1>4 DEF FInv

\* The inductive invariant of a table (all calls of fort.h modelled, with and
\* without failing allocations): it is whole but for gaps the caller has made,
\* or a vector that could not grow has ended it.
THEOREM FortInvariant == Spec => []FInv
BY IInvInit, FInvStep, PTL DEF Spec, FInv

\* A whole table and what is left of one have the same shape.
LEMMA FInvShape ==
  ASSUME FInv
  PROVE  /\ rows \in Vec(Vec(HeldOf(last, strayed)) \cup {Nowhere}) \cup {Nowhere}
         /\ separators \in Vec(BOOLEAN) \cup {Nowhere}
         /\ \/ spoiled
            \/ rows \in Vec(Vec(HeldOf(last, strayed))) /\ separators \in Vec(BOOLEAN)
         /\ cur_row \in 0 .. MaxRows - 1 /\ cur_col \in 0 .. MaxCols
  <1> DEFINE H == HeldOf(last, strayed)  C == CellsUpTo(last)
  <1>1. Vec(C) \cup {Nowhere} \subseteq Vec(H) \cup {Nowhere}
    BY VecMono DEF HeldOf
  <1>2. Vec(Vec(C) \cup {Nowhere}) \subseteq Vec(Vec(H) \cup {Nowhere})
    BY <1>1, VecMono
  <1>3. Vec(Vec(H)) \subseteq Vec(Vec(H) \cup {Nowhere})
    BY VecMono
  <1>4. CASE IInv
    BY <1>3, <1>4 DEF IInv
  <1>5. CASE Lost
    BY <1>2, <1>5 DEF Lost
  <1> QED BY <1>4, <1>5 DEF FInv

\* A row, when there is one, is a vector of cells or could not grow.
LEMMA RowOf ==
  ASSUME FInv, NEW k \in DOMAIN rows.data
  PROVE  \/ rows.data[k] \in Vec(HeldOf(last, strayed))
         \/ spoiled /\ rows.data[k] = Nowhere
  <1> DEFINE H == Vec(HeldOf(last, strayed))
  <1>1. rows # Nowhere
    BY DEF Nowhere
  <1>2. rows \in Vec(H \cup {Nowhere}) /\ (spoiled \/ rows \in Vec(H))
    BY <1>1, FInvShape
  <1> HIDE DEF H
  <1>3. rows.data[k] \in H \cup {Nowhere}
    BY <1>2, VecIs
  <1>4. rows \in Vec(H) => rows.data[k] \in H
    BY VecIs
  <1> QED BY <1>2, <1>3, <1>4 DEF H

\* Every cell is one that may be held.
LEMMA CellHeld ==
  ASSUME FInv, NEW c \in Cells
  PROVE  c \in HeldOf(last, strayed)
  <1>1. PICK k \in DOMAIN rows.data : c \in Range(rows.data[k].data)
    BY DEF Cells
  <1>2. PICK j \in DOMAIN rows.data[k].data : c = rows.data[k].data[j]
    BY <1>1 DEF Range
  <1>3. rows.data[k] # Nowhere
    BY <1>2 DEF Nowhere
  <1> QED BY <1>2, <1>3, RowOf, VecIs

\* The invariant gives every vector its type.
LEMMA FInvType == FInv => TypeOK
  <1> SUFFICES ASSUME FInv PROVE TypeOK
    OBVIOUS
  <1>1. \A S : \A v \in Vec(S) : VectorFits(v)
    BY DEF Vec
  <1>2. Fits(rows) /\ Fits(separators)
    BY <1>1, FInvShape DEF Fits
  <1>3. ASSUME NEW row \in Range(rows.data) PROVE Fits(row)
    <2>1. PICK k \in DOMAIN rows.data : row = rows.data[k]
      BY DEF Range
    <2> QED BY <1>1, <2>1, RowOf DEF Fits
  <1>4. Cells \ {Junk} \subseteq [text: 0 .. last, type: CellTypes]
    BY CellHeld DEF HeldOf, CellsUpTo
  <1>5. Range(separators.data) \subseteq BOOLEAN
    <2>1. separators = Nowhere => Range(separators.data) = {}
      BY DEF Nowhere, Range
    <2>2. separators \in Vec(BOOLEAN) => Range(separators.data) \subseteq BOOLEAN
      BY VecIs DEF Range
    <2> QED BY <2>1, <2>2, FInvShape
  <1> QED BY <1>2, <1>3, <1>4, <1>5, FInvShape DEF TypeOK

\* No vector of a table ever holds more than its memory or is left without room
\* to double, unless it could not grow and the table has ended, and every cell,
\* separator and cursor has its type, for tables of any size (vector_push and
\* vector_insert behind all calls of fort.h).
THEOREM TypeCorrect == Spec => []TypeOK
BY FortInvariant, FInvType, PTL

\* A cell nobody has written appears only after the caller has put the cursor
\* behind the end of a row, or erased the row under it: no call of its own, and
\* no failing allocation, makes one (create_cell_in_position, swap_row).
THEOREM NoGapOfItsOwn == Spec => []GapsOnlyBehindEnd
  <1>1. FInv => GapsOnlyBehindEnd
    <2> SUFFICES ASSUME FInv, ~strayed, Junk \in Cells PROVE FALSE
      BY DEF GapsOnlyBehindEnd, Gap
    <2>1. Junk \in CellsUpTo(last)
      BY CellHeld DEF HeldOf
    <2>2. last \in Nat
      BY DEF FInv, IInv, Lost
    <2> QED BY <2>1, <2>2, CellsAre
  <1> QED BY <1>1, FortInvariant, PTL

-----------------------------------------------------------------------------
(* Spans *)

\* In this row a slave follows no master.
Torn(row) == LET d == row.data IN
  \E j \in DOMAIN d : /\ d[j] # Junk /\ d[j].type = "SLAVE"
                      /\ j = 1 \/ d[j - 1] = Junk \/ d[j - 1].type = "COMMON"

\* A row is torn at a slave that is the first cell or follows a common one.
LEMMA TornIs ==
  ASSUME NEW n \in Nat, NEW row \in Vec(CellsUpTo(n))
  PROVE  Torn(row) <=> \E j \in 1 .. Len(row.data) :
                         /\ row.data[j].type = "SLAVE"
                         /\ j = 1 \/ row.data[j - 1].type = "COMMON"
  <1> DEFINE d == row.data  m == Len(row.data)
  <1>1. DOMAIN d = 1 .. m /\ m \in Nat
    BY VecIs
  <1>2. \A j \in 1 .. m : d[j] # Junk
    <2>1. \A j \in 1 .. m : d[j] \in CellsUpTo(n)
      BY VecIs
    <2> QED BY <2>1, CellsAre
  <1>3. \A j \in 1 .. m : j = 1 \/ j - 1 \in 1 .. m
    BY <1>1
  <1>4. Torn(row) <=> \E j \in DOMAIN d : /\ d[j] # Junk /\ d[j].type = "SLAVE"
                                          /\ j = 1 \/ d[j - 1] = Junk \/ d[j - 1].type = "COMMON"
    BY DEF Torn
  <1> HIDE DEF d, m
  <1>5. Torn(row) <=> \E j \in 1 .. m : d[j].type = "SLAVE" /\ (j = 1 \/ d[j - 1].type = "COMMON")
    BY <1>1, <1>2, <1>3, <1>4
  <1> QED BY <1>5 DEF d, m

\* A row whose cells keep their types, and get common ones behind them, is not torn.
LEMMA TypesKept ==
  ASSUME NEW n \in Nat, NEW old \in Vec(CellsUpTo(n)), NEW p \in Nat, NEW new \in Vec(CellsUpTo(p)),
         Len(old.data) <= Len(new.data),
         \A k \in 1 .. Len(new.data) : new.data[k].type =
           IF k <= Len(old.data) THEN old.data[k].type ELSE "COMMON",
         Torn(new)
  PROVE  Torn(old)
  <1>1. PICK j \in 1 .. Len(new.data) :
          new.data[j].type = "SLAVE" /\ (j = 1 \/ new.data[j - 1].type = "COMMON")
    BY TornIs
  <1>2. Len(old.data) \in Nat /\ Len(new.data) \in Nat
    BY VecIs
  <1>3. j <= Len(old.data) /\ j \in 1 .. Len(old.data) /\ old.data[j].type = "SLAVE"
    BY <1>1, <1>2
  <1>4. j = 1 \/ (j - 1 \in 1 .. Len(new.data) /\ j - 1 <= Len(old.data))
    BY <1>2, <1>3
  <1>5. j = 1 \/ old.data[j - 1].type = "COMMON"
    BY <1>1, <1>4
  <1> QED BY <1>3, <1>5, TornIs

\* More cells do not tear a row.
LEMMA CellsToTear ==
  ASSUME NEW n \in Nat, NEW row \in Vec(CellsUpTo(n)), NEW k \in Nat, Torn(CellsTo(row, k))
  PROVE  Torn(row)
  <1> DEFINE new == CellsTo(row, k)
  <1>1. create_cell \in CellsUpTo(n) /\ create_cell.type = "COMMON"
    BY CellsAre DEF create_cell, Cell
  <1>2. /\ new \in Vec(CellsUpTo(n)) /\ Len(new.data) = Larger(k, Len(row.data))
        /\ \A j \in 1 .. Len(new.data) :
             new.data[j] = IF j <= Len(row.data) THEN row.data[j] ELSE create_cell
    BY <1>1, CellsToIs
  <1>3. Len(row.data) \in Nat
    BY VecIs
  <1>4. Torn(new)
    OBVIOUS
  <1> HIDE DEF new
  <1>5. Len(row.data) <= Len(new.data)
    BY <1>2, <1>3 DEF Larger
  <1>6. \A j \in 1 .. Len(new.data) : new.data[j].type =
          IF j <= Len(row.data) THEN row.data[j].type ELSE "COMMON"
    BY <1>1, <1>2
  <1> QED BY <1>2, <1>4, <1>5, <1>6, TypesKept

\* A text that replaces another does not tear the row.
LEMMA PutReplaceTear ==
  ASSUME NEW n \in Nat, NEW row \in Vec(CellsUpTo(n)), NEW col \in Nat,
         Torn(PutReplace(row, col, n + 1))
  PROVE  Torn(row)
  <1> DEFINE new == PutReplace(row, col, n + 1)
  <1>1. /\ new \in Vec(CellsUpTo(n + 1)) /\ Len(new.data) = Larger(col + 1, Len(row.data))
        /\ \A k \in 1 .. Len(new.data) :
              new.data[k] = IF k = col + 1
                            THEN [text |-> n + 1,
                                  type |-> IF k <= Len(row.data) THEN row.data[k].type ELSE "COMMON"]
                            ELSE IF k <= Len(row.data) THEN row.data[k] ELSE create_cell
    BY PutReplaceIs
  <1>2. Len(row.data) \in Nat /\ n + 1 \in Nat
    BY VecIs
  <1>3. Torn(new)
    OBVIOUS
  <1> HIDE DEF new
  <1>4. Len(row.data) <= Len(new.data)
    BY <1>1, <1>2 DEF Larger
  <1>5. ASSUME NEW k \in 1 .. Len(new.data)
        PROVE  new.data[k].type = IF k <= Len(row.data) THEN row.data[k].type ELSE "COMMON"
    <2> DEFINE t == IF k <= Len(row.data) THEN row.data[k].type ELSE "COMMON"
    <2>1. CASE k = col + 1
      <3>1. new.data[k] = [text |-> n + 1, type |-> t]
        BY <1>1, <2>1
      <3> HIDE DEF t
      <3>2. new.data[k].type = t
        BY <3>1
      <3> QED BY <3>2 DEF t
    <2>2. CASE k # col + 1
      <3>1. create_cell.type = "COMMON"
        BY DEF create_cell, Cell
      <3> QED BY <1>1, <2>2, <3>1
    <2> QED BY <2>1, <2>2
  <1> QED BY <1>1, <1>2, <1>3, <1>4, <1>5, TypesKept

\* A group made over others does not tear the row: the slaves behind the new
\* group follow a slave or a master.
LEMMA SpannedTear ==
  ASSUME NEW n \in Nat, NEW row \in Vec(CellsUpTo(n)), NEW col \in Nat, NEW span \in Nat \ {0},
         Torn(Spanned(row, col, span))
  PROVE  Torn(row)
  <1>0. Spanned(row, col, span) \in Vec(CellsUpTo(n)) /\ IsSpanned(row, Spanned(row, col, span), col, span)
    BY SpannedIs
  <1> DEFINE new == Spanned(row, col, span)  m == Len(row.data)
             Old(k) == IF k <= m THEN row.data[k].type ELSE "COMMON"
  <1>1. /\ new \in Vec(CellsUpTo(n)) /\ Len(new.data) = Larger(col + span, m)
        /\ \A k \in 1 .. Len(new.data) :
             new.data[k].type = IF k = col + 1 THEN "MASTER"
                                ELSE IF k \in col + 2 .. col + span THEN "SLAVE" ELSE Old(k)
    <2>1. create_cell.type = "COMMON"
      BY DEF create_cell, Cell
    <2> QED BY <1>0, <2>1 DEF IsSpanned
  <1>2. m \in Nat
    BY VecIs
  <1>3. Torn(new)
    OBVIOUS
  <1> HIDE DEF new, m
  <1>4. PICK j \in 1 .. Len(new.data) :
          new.data[j].type = "SLAVE" /\ (j = 1 \/ new.data[j - 1].type = "COMMON")
    BY <1>1, <1>3, TornIs
  <1>5. Len(new.data) \in Nat
    BY <1>1, VecIs
  <1>6. j = 1 \/ (j - 1 \in 1 .. Len(new.data) /\ j - 1 \notin col + 1 .. col + span /\ Old(j - 1) = "COMMON")
    <2>1. CASE j # 1
      <3>1. j - 1 \in 1 .. Len(new.data) /\ new.data[j - 1].type = "COMMON"
        BY <1>4, <1>5, <2>1
      <3>2. j - 1 # col + 1 /\ j - 1 \notin col + 2 .. col + span /\ Old(j - 1) = "COMMON"
        <4> HIDE DEF Old
        <4> QED BY <1>1, <3>1
      <3>3. j - 1 \notin col + 1 .. col + span
        BY <3>2
      <3> QED BY <3>1, <3>2, <3>3
    <2> QED BY <2>1
  <1>7. j # col + 1 /\ j \notin col + 2 .. col + span
    <2>1. j # col + 1
      BY <1>1, <1>4
    <2>2. j \in col + 2 .. col + span => j # 1 /\ j - 1 \in col + 1 .. col + span
      OBVIOUS
    <2> QED BY <1>6, <2>1, <2>2
  <1>8. Old(j) = "SLAVE"
    BY <1>1, <1>4, <1>7
  <1>9. j \in 1 .. m /\ row.data[j].type = "SLAVE"
    BY <1>2, <1>8
  <1>10. j = 1 \/ row.data[j - 1].type = "COMMON"
    <2>1. j - 1 <= m
      BY <1>2, <1>9
    <2> QED BY <1>6, <2>1
  <1> QED BY <1>9, <1>10, TornIs DEF m

\* A table is orphaned if one of its rows is torn; a new one has no rows to tear.
LEMMA OrphanedIs ==
  /\ Orphaned <=> \E k \in DOMAIN rows.data : Torn(rows.data[k])
  /\ Orphaned' <=> \E k \in DOMAIN rows'.data : Torn(rows'.data[k])
  /\ ~Torn(create_row)
  <1>1. DOMAIN create_row.data = {}
    BY DEF create_row, create_vector
  <1> QED BY <1>1 DEF Orphaned, Torn

\* Rows that are made below tear nothing.
LEMMA RowsToTear ==
  ASSUME Whole, NEW n \in Nat, rows' = RowsTo(n), Orphaned'
  PROVE  Orphaned
  <1>1. /\ rows' \in Vec(Vec(CellsUpTo(last))) /\ rows \in Vec(Vec(CellsUpTo(last)))
        /\ \A k \in 1 .. Len(rows'.data) :
             rows'.data[k] = IF k <= Len(rows.data) THEN rows.data[k] ELSE create_row
    BY RowsToIs DEF Whole
  <1>2. PICK k \in DOMAIN rows'.data : Torn(rows'.data[k])
    BY OrphanedIs
  <1>3. k \in 1 .. Len(rows'.data) /\ Len(rows.data) \in Nat /\ DOMAIN rows.data = 1 .. Len(rows.data)
    BY <1>1, VecIs
  <1>4. k <= Len(rows.data) /\ rows'.data[k] = rows.data[k]
    BY <1>1, <1>2, <1>3, OrphanedIs
  <1>5. k \in DOMAIN rows.data
    BY <1>3, <1>4
  <1> QED BY <1>2, <1>4, <1>5, OrphanedIs

\* Nor does a row in the place of another that is torn only if that one was.
LEMMA WithRowTear ==
  ASSUME Whole, NEW S, CellsUpTo(last) \subseteq S, NEW r \in Nat, NEW row \in Vec(S),
         Torn(row) => Torn(vector_at(RowsTo(r + 1), r)),
         rows' = WithRow(r, row), Orphaned'
  PROVE  Orphaned
  <1>1. /\ rows' \in Vec(Vec(S)) /\ rows \in Vec(Vec(CellsUpTo(last)))
        /\ \A k \in 1 .. Len(rows'.data) :
             rows'.data[k] = IF k = r + 1 THEN row
                             ELSE IF k <= Len(rows.data) THEN rows.data[k] ELSE create_row
    BY WithRowIs DEF Whole
  <1>2. vector_at(RowsTo(r + 1), r) =
          IF r + 1 <= Len(rows.data) THEN rows.data[r + 1] ELSE create_row
    BY RowAtIs DEF Whole
  <1>3. PICK k \in DOMAIN rows'.data : Torn(rows'.data[k])
    BY OrphanedIs
  <1>4. k \in 1 .. Len(rows'.data) /\ Len(rows.data) \in Nat /\ DOMAIN rows.data = 1 .. Len(rows.data)
    BY <1>1, VecIs, ZenonT(30)
  <1>5. CASE k = r + 1
    <2>1. r + 1 <= Len(rows.data) /\ Torn(rows.data[r + 1])
      BY <1>1, <1>2, <1>3, <1>4, <1>5, OrphanedIs
    <2>2. r + 1 \in DOMAIN rows.data
      BY <1>4, <2>1
    <2> QED BY <2>1, <2>2, OrphanedIs
  <1>6. CASE k # r + 1
    <2>1. k <= Len(rows.data) /\ rows'.data[k] = rows.data[k]
      BY <1>1, <1>3, <1>4, <1>6, OrphanedIs
    <2>2. k \in DOMAIN rows.data
      BY <1>4, <2>1
    <2> QED BY <1>3, <2>1, <2>2, OrphanedIs
  <1> QED BY <1>5, <1>6

\* Writing over cells tears nothing, failing half way neither.
LEMMA WriteTear ==
  ASSUME Whole, ft_write, add_strategy # "INSERT", Orphaned'
  PROVE  Orphaned
  <1>0. last \in Nat /\ last + 1 \in Nat /\ CellsUpTo(last) \subseteq CellsUpTo(last + 1)
    <2>1. last \in Nat /\ last + 1 \in Nat /\ last <= last + 1
      BY RowToWriteIs
    <2>2. \A m \in Nat : last <= m => CellsUpTo(last) \subseteq CellsUpTo(m)
      BY <2>1, CellsAre
    <2> QED BY <2>1, <2>2
  <1> DEFINE C == CellsUpTo(last)  D == CellsUpTo(last + 1)  row == RowToWrite
  <1>1. /\ cur_row \in Nat /\ cur_col \in Nat /\ last \in Nat /\ last + 1 \in Nat
        /\ row \in Vec(C) /\ row = vector_at(RowsTo(cur_row + 1), cur_row)
    BY RowToWriteIs DEF RowToWrite
  <1>2. C \subseteq D
    BY <1>0
  <1>3. CASE Write
    <2> DEFINE new == PutReplace(row, cur_col, last + 1)
    <2>1. rows' = WithRow(cur_row, new)
      BY <1>3 DEF Write, PutCell
    <2> HIDE DEF row
    <2>2. new \in Vec(D) /\ (Torn(new) => Torn(row))
      BY <1>1, PutReplaceIs, PutReplaceTear
    <2> HIDE DEF new, D
    <2> QED BY <1>1, <1>2, <2>1, <2>2, WithRowTear
  <1>4. CASE WriteFails
    <2>1. ASSUME NEW n \in ft_row_count .. cur_row, rows' = RowsTo(n) PROVE Orphaned
      <3>1. n \in Nat
        BY VecIs DEF Whole, ft_row_count
      <3> QED BY <2>1, <3>1, RowsToTear
    <2>2. ASSUME NEW r \in HalfWritten(row), rows' = WithRow(cur_row, r) PROVE Orphaned
      <3>1. r \in Vec(C) /\ (Torn(r) => Torn(row))
        <4>1. CASE r = row
          BY <1>1, <4>1
        <4>2. ASSUME NEW n \in columns_in_row(row) .. cur_col + 1, r = CellsTo(row, n)
              PROVE  r \in Vec(C) /\ (Torn(r) => Torn(row))
          <5>1. n \in Nat /\ create_cell \in C
            BY <1>1, VecIs, CellsAre, SMTT(30) DEF columns_in_row
          <5> HIDE DEF row
          <5>2. r \in Vec(C)
            BY <1>1, <4>2, <5>1, CellsToIs
          <5> QED BY <1>1, <4>2, <5>1, <5>2, CellsToTear
        <4> QED BY <2>2, <4>1, <4>2 DEF HalfWritten
      <3> HIDE DEF C, row
      <3>2. C \subseteq C /\ CellsUpTo(last) \subseteq C
        BY DEF C
      <3> QED BY <1>1, <2>2, <3>1, <3>2, WithRowTear
    <2> QED BY <1>4, <2>1, <2>2 DEF WriteFails
  <1> QED BY <1>3, <1>4 DEF ft_write

\* Nor do spans laid over each other.
LEMMA SpanTear ==
  ASSUME Whole, AnySpan, Orphaned'
  PROVE  Orphaned
  <1> DEFINE C == CellsUpTo(last)
  <1>1. PICK r \in RowArgs, col \in 0 .. MaxCols - 2, span \in 2 .. MaxCols :
               ft_set_cell_span(r, col, span)
    BY DEF AnySpan
  <1> DEFINE row == vector_at(RowsTo(r + 1), r)
  <1>2. r \in Nat /\ col \in Nat /\ last \in Nat /\ rows \in Vec(Vec(C))
    BY RowToWriteIs, ArgsAre DEF Whole
  <1>3. row \in Vec(C)
    <2> HIDE DEF C
    <2> QED BY <1>2, RowAtIs
  <1>4. ASSUME NEW n \in ft_row_count .. r, rows' = RowsTo(n) PROVE Orphaned
    <2>1. n \in Nat
      BY VecIs DEF Whole, ft_row_count
    <2> QED BY <1>4, <2>1, RowsToTear
  <1>5. ASSUME NEW w \in row_set_cell_span(row, col, span), rows' = WithRow(r, w) PROVE Orphaned
    <2>1. w \in Vec(C) /\ (Torn(w) => Torn(row))
      <3>1. ASSUME NEW n \in 1 .. span, w = Spanned(row, col, n)
            PROVE  w \in Vec(C) /\ (Torn(w) => Torn(row))
        <4>1. n \in Nat \ {0}
          OBVIOUS
        <4> HIDE DEF row
        <4> QED BY <1>2, <1>3, <3>1, <4>1, SpannedIs, SpannedTear
      <3>2. ASSUME NEW n \in columns_in_row(row) .. col, w = CellsTo(row, n)
            PROVE  w \in Vec(C) /\ (Torn(w) => Torn(row))
        <4> HIDE DEF row
        <4>1. n \in Nat /\ create_cell \in C
          BY <1>2, <1>3, VecIs, CellsAre DEF columns_in_row
        <4>2. w \in Vec(C)
          BY <1>3, <3>2, <4>1, CellsToIs
        <4> QED BY <1>2, <1>3, <3>2, <4>1, <4>2, CellsToTear
      <3> QED BY <1>5, <3>1, <3>2 DEF row_set_cell_span
    <2>2. CellsUpTo(last) \subseteq C
      OBVIOUS
    <2> HIDE DEF C
    <2> QED BY <1>2, <1>5, <2>1, <2>2, WithRowTear
  <1> QED BY <1>1, <1>4, <1>5 DEF ft_set_cell_span

\* Nor do rows that are lost.
LEMMA LostTear ==
  ASSUME Whole, GrowthFails, Orphaned'
  PROVE  Orphaned
  <1>1. PICK k \in DOMAIN rows'.data : Torn(rows'.data[k])
    BY OrphanedIs
  <1>2. CASE rows' = rows
    BY <1>2 DEF Orphaned
  <1>3. CASE rows' = Nowhere
    BY <1>1, <1>3 DEF Nowhere
  <1>4. ASSUME NEW r \in 0 .. MaxRows - 1, rows' = WithRow(r, Nowhere) PROVE Orphaned
    <2>1. r \in Nat /\ Len(rows.data) \in Nat /\ DOMAIN rows.data = 1 .. Len(rows.data)
      BY FortAssumption, VecIs DEF Whole
    <2>2. /\ DOMAIN rows'.data = 1 .. Len(rows'.data) /\ Len(rows'.data) \in Nat
          /\ \A j \in 1 .. Len(rows'.data) :
               rows'.data[j] = IF j = r + 1 THEN Nowhere
                               ELSE IF j <= Len(rows.data) THEN rows.data[j] ELSE create_row
      BY <1>4, <2>1, RowLostIs, VecIs
    <2>3. ~Torn(Nowhere) /\ ~Torn(create_row)
      BY OrphanedIs DEF Torn, Nowhere
    <2>4. k <= Len(rows.data) /\ rows'.data[k] = rows.data[k] /\ k \in 1 .. Len(rows'.data)
      BY <1>1, <2>2, <2>3
    <2>5. k \in DOMAIN rows.data
      BY <2>1, <2>2, <2>4
    <2> QED BY <1>1, <2>4, <2>5, OrphanedIs
  <1> QED BY <1>2, <1>3, <1>4, GrowthIs

\* Erasing, formatted rows under REPLACE or INSERT, and inserting are all that
\* leaves a slave without its master: no span laid over another does, no plain
\* text, no copy, no call that fails half way and no row that is lost
\* (row_set_cell_span, ft_write_impl_).
THEOREM TornByThreeOnly == Spec => OnlyThreeTear
  <1> DEFINE Torn3 == Orphaned' => \/ Orphaned \/ ft_printf \/ AnyErase
                                   \/ add_strategy = "INSERT" /\ (ft_write \/ ft_ln)
  <1>1. FInv /\ [Next]_vars => [Torn3]_vars
    <2> SUFFICES ASSUME FInv, Next, Orphaned'
                 PROVE  Torn3
      BY DEF vars
    <2>1. Whole
      BY NextWhole
    <2>2. ASSUME rows' = rows PROVE Orphaned
      BY <2>2 DEF Orphaned
    <2>3. CASE Call \/ ft_set_cur_cell \/ ft_set_tbl_prop \/ ft_add_separator
      BY <2>2, <2>3 DEF Call, ft_set_cur_cell, ft_set_tbl_prop, ft_add_separator
    <2>4. CASE ft_write
      BY <2>1, <2>4, WriteTear
    <2>5. CASE ft_ln
      <3>1. add_strategy # "INSERT" => rows' = rows
        BY <2>5 DEF ft_ln, LnSplits, LnMoves, LnFails
      <3> QED BY <2>2, <2>5, <3>1
    <2>6. CASE ft_copy_table
      <3>1. /\ Len(rows'.data) = Len(rows.data)
            /\ rows' \in Vec(Vec(CellsUpTo(last))) /\ rows \in Vec(Vec(CellsUpTo(last)))
            /\ \A k \in 1 .. Len(rows.data) : rows'.data[k].data = rows.data[k].data
        BY <2>1, <2>6, CopyStep DEF Whole
      <3>2. DOMAIN rows'.data = 1 .. Len(rows.data) /\ DOMAIN rows.data = 1 .. Len(rows.data)
        BY <3>1, VecIs
      <3>3. PICK k \in DOMAIN rows'.data : Torn(rows'.data[k])
        BY OrphanedIs
      <3>4. Torn(rows.data[k])
        BY <3>1, <3>2, <3>3 DEF Torn
      <3> QED BY <3>2, <3>4, OrphanedIs
    <2>7. CASE AnySpan
      BY <2>1, <2>7, SpanTear
    <2>8. CASE GrowthFails
      BY <2>1, <2>8, LostTear
    <2> QED BY <2>3, <2>4, <2>5, <2>6, <2>7, <2>8 DEF Next
  <1> QED BY <1>1, FortInvariant, PTL DEF Spec, OnlyThreeTear

-----------------------------------------------------------------------------
(* Texts: where those of a row come from when the row is changed *)

AnyCell == [text: Nat, type: CellTypes] \cup {Junk}

\* Every cell of new without a text of its own has the text of the cell of old
\* that f names, and no two of them that of the same cell; those with a new text
\* are numbered by f, from -1 down.
CameBy(old, new, f) ==
  /\ f \in [1 .. Len(new.data) -> Int]
  /\ \A a, b \in 1 .. Len(new.data) : f[a] = f[b] => a = b
  /\ \A b \in 1 .. Len(new.data) :
       \/ new.data[b] = Junk \/ new.data[b].text = 0
       \/ f[b] \in 1 .. Len(old.data) /\ new.data[b].text = old.data[f[b]].text
       \/ f[b] < 0 /\ new.data[b].text = last - f[b]

Came(old, new) == new \in Vec(AnyCell) /\ \E f : CameBy(old, new, f)

\* What is any cell.
LEMMA AnyCells ==
  /\ Junk \in AnyCell /\ create_cell \in AnyCell /\ create_cell.text = 0
  /\ \A k \in Nat : Cell(k) \in AnyCell /\ Cell(k).text = k
  /\ \A n \in Nat : Vec(CellsUpTo(n)) \subseteq Vec(AnyCell)
  <1>1. \A k \in Nat : Cell(k) \in AnyCell /\ Cell(k).text = k
    BY DEF AnyCell, Cell, CellTypes
  <1>2. ASSUME NEW n \in Nat PROVE Vec(CellsUpTo(n)) \subseteq Vec(AnyCell)
    <2>1. CellsUpTo(n) \subseteq AnyCell
      BY DEF CellsUpTo, AnyCell
    <2> QED BY <2>1, VecMono
  <1>3. create_cell \in AnyCell /\ create_cell.text = 0
    BY <1>1 DEF create_cell
  <1> QED BY <1>1, <1>2, <1>3 DEF AnyCell

\* In a row with the same texts, and more cells without.
LEMMA CameSame ==
  ASSUME NEW old \in Vec(AnyCell), NEW new \in Vec(AnyCell),
         \A b \in 1 .. Len(new.data) :
           \/ new.data[b].text = 0
           \/ b <= Len(old.data) /\ new.data[b].text = old.data[b].text
  PROVE  Came(old, new)
  <1> DEFINE n == Len(new.data)  f == [b \in 1 .. n |-> b]
  <1>1. n \in Nat /\ Len(old.data) \in Nat
    BY VecIs
  <1>2. f \in [1 .. n -> Int] /\ \A b \in 1 .. n : f[b] = b
    BY <1>1
  <1>3. \A b \in 1 .. n : b <= Len(old.data) => b \in 1 .. Len(old.data)
    BY <1>1
  <1> HIDE DEF f
  <1>4. CameBy(old, new, f)
    BY <1>2, <1>3 DEF CameBy
  <1> QED BY <1>4 DEF Came

\* In a row with cells made at its end.
LEMMA CameCellsTo ==
  ASSUME NEW old \in Vec(AnyCell), NEW n \in Nat
  PROVE  Came(old, CellsTo(old, n))
  <1> DEFINE new == CellsTo(old, n)
  <1>1. /\ new \in Vec(AnyCell)
        /\ \A b \in 1 .. Len(new.data) :
             new.data[b] = IF b <= Len(old.data) THEN old.data[b] ELSE create_cell
    BY AnyCells, CellsToIs
  <1> HIDE DEF new
  <1>2. Came(old, new)
    BY <1>1, AnyCells, CameSame
  <1> QED BY <1>2 DEF new

\* In a row with a group made in it.
LEMMA CameSpanned ==
  ASSUME NEW n \in Nat, NEW old \in Vec(CellsUpTo(n)), NEW col \in Nat, NEW span \in Nat \ {0}
  PROVE  Came(old, Spanned(old, col, span))
  <1> DEFINE new == Spanned(old, col, span)
             Old(k) == IF k <= Len(old.data) THEN old.data[k] ELSE create_cell
  <1>1. /\ new \in Vec(CellsUpTo(n))
        /\ \A b \in 1 .. Len(new.data) : new.data[b].text = Old(b).text
    <2>1. new \in Vec(CellsUpTo(n)) /\ IsSpanned(old, new, col, span)
      BY SpannedIs
    <2> HIDE DEF new
    <2> QED BY <2>1 DEF IsSpanned
  <1>2. new \in Vec(AnyCell) /\ old \in Vec(AnyCell)
    BY <1>1, AnyCells
  <1> HIDE DEF new
  <1>3. Came(old, new)
    BY <1>1, <1>2, AnyCells, CameSame
  <1> QED BY <1>3 DEF new

\* In a row with a text put in a cell.
LEMMA CameReplace ==
  ASSUME last \in Nat, NEW old \in Vec(CellsUpTo(last)), NEW col \in Nat
  PROVE  Came(old, PutReplace(old, col, last + 1))
  <1> DEFINE new == PutReplace(old, col, last + 1)  m == Len(old.data)  n == Len(new.data)
             f == [b \in 1 .. n |-> IF b = col + 1 THEN -1 ELSE b]
  <1>1. /\ new \in Vec(CellsUpTo(last + 1))
        /\ \A k \in 1 .. n :
              new.data[k] = IF k = col + 1
                            THEN [text |-> last + 1,
                                  type |-> IF k <= m THEN old.data[k].type ELSE "COMMON"]
                            ELSE IF k <= m THEN old.data[k] ELSE create_cell
    BY PutReplaceIs
  <1>2. n \in Nat /\ m \in Nat /\ new \in Vec(AnyCell)
    BY <1>1, AnyCells, VecIs, SMTT(30)
  <1>3. /\ f \in [1 .. n -> Int] /\ \A b \in 1 .. n : f[b] = IF b = col + 1 THEN -1 ELSE b
        /\ \A a, b \in 1 .. n : f[a] = f[b] => a = b
    BY <1>2
  <1> HIDE DEF f, new, m, n
  <1>4. ASSUME NEW b \in 1 .. n
        PROVE  \/ new.data[b] = Junk \/ new.data[b].text = 0
               \/ f[b] \in 1 .. m /\ new.data[b].text = old.data[f[b]].text
               \/ f[b] < 0 /\ new.data[b].text = last - f[b]
    <2>1. CASE b = col + 1
      <3> DEFINE t == IF b <= m THEN old.data[b].type ELSE "COMMON"
      <3>1. new.data[b] = [text |-> last + 1, type |-> t] /\ f[b] = -1
        BY <1>1, <1>3, <2>1
      <3> HIDE DEF t
      <3>2. new.data[b].text = last + 1
        BY <3>1
      <3> QED BY <3>1, <3>2
    <2>2. CASE b # col + 1
      <3>1. f[b] = b /\ new.data[b] = IF b <= m THEN old.data[b] ELSE create_cell
        BY <1>1, <1>3, <2>2
      <3>2. b <= m => b \in 1 .. m
        BY <1>2
      <3> QED BY <3>1, <3>2, AnyCells
    <2> QED BY <2>1, <2>2
  <1>5. CameBy(old, new, f)
    BY <1>3, <1>4 DEF CameBy, n, m
  <1> QED BY <1>2, <1>5 DEF Came, new

\* In a row with a cell inserted, empty or with the next text.
LEMMA CameInsert ==
  ASSUME last \in Nat, NEW old \in Vec(AnyCell), NEW pos \in Nat,
         NEW x \in {create_cell, Cell(last + 1)}
  PROVE  Came(old, vector_insert(old, x, pos))
  <1> DEFINE new == vector_insert(old, x, pos)  m == Len(old.data)  n == Len(new.data)
             f == [b \in 1 .. n |-> IF b <= pos THEN b ELSE IF b = pos + 1 THEN -1 ELSE b - 1]
  <1>1. x \in AnyCell /\ (x.text = 0 \/ x.text = last + 1)
    BY AnyCells
  <1>2. /\ new \in Vec(AnyCell) /\ n = Larger(pos, m) + 1
        /\ \A k \in 1 .. n :
              new.data[k] = IF k <= pos THEN IF k <= m THEN old.data[k] ELSE Junk
                            ELSE IF k = pos + 1 THEN x ELSE old.data[k - 1]
    BY <1>1, AnyCells, InsertIs
  <1>3. n \in Nat /\ m \in Nat
    BY <1>2, VecIs
  <1>4. /\ f \in [1 .. n -> Int]
        /\ \A b \in 1 .. n : f[b] = IF b <= pos THEN b ELSE IF b = pos + 1 THEN -1 ELSE b - 1
        /\ \A a, b \in 1 .. n : f[a] = f[b] => a = b
    BY <1>3
  <1> HIDE DEF f, new, m, n
  <1>5. ASSUME NEW b \in 1 .. n
        PROVE  \/ new.data[b] = Junk \/ new.data[b].text = 0
               \/ f[b] \in 1 .. m /\ new.data[b].text = old.data[f[b]].text
               \/ f[b] < 0 /\ new.data[b].text = last - f[b]
    <2>1. CASE b <= pos
      <3>1. f[b] = b /\ new.data[b] = IF b <= m THEN old.data[b] ELSE Junk
        BY <1>2, <1>4, <2>1
      <3>2. b <= m => b \in 1 .. m
        BY <1>3
      <3> QED BY <3>1, <3>2
    <2>2. CASE b = pos + 1
      <3>1. f[b] = -1 /\ new.data[b] = x
        BY <1>2, <1>4, <2>2
      <3> QED BY <1>1, <3>1
    <2>3. CASE b > pos + 1
      <3>1. f[b] = b - 1 /\ new.data[b] = old.data[b - 1] /\ b - 1 \in 1 .. m
        BY <1>2, <1>3, <1>4, <2>3 DEF Larger
      <3> QED BY <3>1
    <2> QED BY <2>1, <2>2, <2>3
  <1>6. CameBy(old, new, f)
    BY <1>4, <1>5 DEF CameBy, n, m
  <1> QED BY <1>2, <1>6 DEF Came, new

\* In a row with a formatted one inserted.
LEMMA CameInsertRow ==
  ASSUME last \in Nat, cur_col \in Nat, NEW old \in Vec(AnyCell), NEW n \in Nat \ {0}
  PROVE  Came(old, insert_row(old, FmtRow(n)))
  <1> DEFINE new == insert_row(old, FmtRow(n))  m == Len(old.data)  p == Len(new.data)
             f == [b \in 1 .. p |-> IF b <= cur_col THEN b
                                    ELSE IF b <= cur_col + n THEN cur_col - b ELSE b - n]
  <1> DEFINE ins == FmtRow(n)
  <1>1. ins \in Vec(AnyCell) /\ Len(ins.data) = n /\ \A k \in 1 .. n : ins.data[k].text = last + k
    <2>1. last + n \in Nat /\ \A k \in 1 .. n : last + k \in Nat
      OBVIOUS
    <2>2. ins \in Vec(CellsUpTo(last + n)) /\ Len(ins.data) = n
          /\ \A k \in 1 .. n : ins.data[k] = Cell(last + k)
      BY FmtRowIs
    <2> HIDE DEF ins
    <2> QED BY <2>1, <2>2, AnyCells
  <1> HIDE DEF ins
  <1>2. /\ new \in Vec(AnyCell) /\ p = Larger(cur_col, m) + n
        /\ \A k \in 1 .. p :
              new.data[k] = IF k <= cur_col THEN IF k <= m THEN old.data[k] ELSE create_cell
                            ELSE IF k <= cur_col + n THEN ins.data[k - cur_col]
                            ELSE old.data[k - n]
    <2>1. create_cell \in AnyCell /\ new = insert_row(old, ins)
      BY AnyCells DEF ins
    <2> HIDE DEF new
    <2>2. /\ insert_row(old, ins) \in Vec(AnyCell)
          /\ Len(insert_row(old, ins).data) = Larger(cur_col, m) + Len(ins.data)
          /\ \A k \in 1 .. Len(insert_row(old, ins).data) :
               insert_row(old, ins).data[k] =
                 IF k <= cur_col THEN IF k <= m THEN old.data[k] ELSE create_cell
                 ELSE IF k <= cur_col + Len(ins.data) THEN ins.data[k - cur_col]
                 ELSE old.data[k - Len(ins.data)]
      BY <1>1, <2>1, InsertRowIs, ZenonT(30)
    <2> QED BY <1>1, <2>1, <2>2
  <1>3. p \in Nat /\ m \in Nat
    BY <1>2, VecIs
  <1>4. /\ f \in [1 .. p -> Int]
        /\ \A b \in 1 .. p : f[b] = IF b <= cur_col THEN b
                                    ELSE IF b <= cur_col + n THEN cur_col - b ELSE b - n
        /\ \A a, b \in 1 .. p : f[a] = f[b] => a = b
    BY <1>3
  <1> HIDE DEF f, new, m, p
  <1>5. ASSUME NEW b \in 1 .. p
        PROVE  \/ new.data[b] = Junk \/ new.data[b].text = 0
               \/ f[b] \in 1 .. m /\ new.data[b].text = old.data[f[b]].text
               \/ f[b] < 0 /\ new.data[b].text = last - f[b]
    <2>1. CASE b <= cur_col
      <3>1. f[b] = b /\ new.data[b] = IF b <= m THEN old.data[b] ELSE create_cell
        BY <1>2, <1>4, <2>1
      <3>2. b <= m => b \in 1 .. m
        BY <1>3
      <3> QED BY <3>1, <3>2, AnyCells
    <2>2. CASE b > cur_col /\ b <= cur_col + n
      <3>1. f[b] = cur_col - b /\ new.data[b] = ins.data[b - cur_col] /\ b - cur_col \in 1 .. n
        BY <1>2, <1>4, <2>2
      <3>2. new.data[b].text = last + (b - cur_col)
        BY <1>1, <3>1
      <3> QED BY <2>2, <3>1, <3>2
    <2>3. CASE b > cur_col + n
      <3>1. f[b] = b - n /\ new.data[b] = old.data[b - n] /\ b - n \in 1 .. m
        BY <1>2, <1>3, <1>4, <2>3 DEF Larger
      <3> QED BY <3>1
    <2> QED BY <2>1, <2>2, <2>3
  <1>6. CameBy(old, new, f)
    BY <1>4, <1>5 DEF CameBy, p, m
  <1> QED BY <1>2, <1>6 DEF Came, new

\* In a row with a formatted one put over it.
LEMMA CameSwapRow ==
  ASSUME last \in Nat, cur_col \in Nat, NEW old \in Vec(AnyCell), NEW n \in Nat \ {0}
  PROVE  Came(old, swap_row(old, FmtRow(n)))
  <1> DEFINE new == swap_row(old, FmtRow(n))  m == Len(old.data)  p == Len(new.data)
             f == [b \in 1 .. p |-> IF b <= cur_col THEN b
                                    ELSE IF b <= cur_col + n THEN cur_col - b ELSE b]
  <1> DEFINE ins == FmtRow(n)
  <1>1. ins \in Vec(AnyCell) /\ Len(ins.data) = n /\ \A k \in 1 .. n : ins.data[k].text = last + k
    <2>1. last + n \in Nat /\ \A k \in 1 .. n : last + k \in Nat
      OBVIOUS
    <2>2. ins \in Vec(CellsUpTo(last + n)) /\ Len(ins.data) = n
          /\ \A k \in 1 .. n : ins.data[k] = Cell(last + k)
      BY FmtRowIs
    <2> HIDE DEF ins
    <2> QED BY <2>1, <2>2, AnyCells
  <1> HIDE DEF ins
  <1>2. /\ new \in Vec(AnyCell) /\ p = Larger(cur_col + n, m)
        /\ \A k \in 1 .. p :
              new.data[k] = IF k <= cur_col THEN IF k <= m THEN old.data[k] ELSE Junk
                            ELSE IF k <= cur_col + n THEN ins.data[k - cur_col] ELSE old.data[k]
    <2>1. /\ Junk \in AnyCell /\ new = swap_row(old, ins)
          /\ Len(ins.data) > 0 /\ (cur_col <= m \/ Junk \in AnyCell)
      BY <1>1, AnyCells DEF ins
    <2> HIDE DEF new
    <2>2. /\ swap_row(old, ins) \in Vec(AnyCell)
          /\ Len(swap_row(old, ins).data) = Larger(cur_col + Len(ins.data), m)
          /\ \A k \in 1 .. Len(swap_row(old, ins).data) :
               swap_row(old, ins).data[k] =
                 IF k <= cur_col THEN IF k <= m THEN old.data[k] ELSE Junk
                 ELSE IF k <= cur_col + Len(ins.data) THEN ins.data[k - cur_col]
                 ELSE old.data[k]
      BY <1>1, <2>1, SwapRowIs
    <2> QED BY <1>1, <2>1, <2>2
  <1>3. p \in Nat /\ m \in Nat
    BY <1>2, VecIs
  <1>4. /\ f \in [1 .. p -> Int]
        /\ \A b \in 1 .. p : f[b] = IF b <= cur_col THEN b
                                    ELSE IF b <= cur_col + n THEN cur_col - b ELSE b
        /\ \A a, b \in 1 .. p : f[a] = f[b] => a = b
    BY <1>3
  <1> HIDE DEF f, new, m, p
  <1>5. ASSUME NEW b \in 1 .. p
        PROVE  \/ new.data[b] = Junk \/ new.data[b].text = 0
               \/ f[b] \in 1 .. m /\ new.data[b].text = old.data[f[b]].text
               \/ f[b] < 0 /\ new.data[b].text = last - f[b]
    <2>1. CASE b <= cur_col
      <3>1. f[b] = b /\ new.data[b] = IF b <= m THEN old.data[b] ELSE Junk
        BY <1>2, <1>4, <2>1
      <3>2. b <= m => b \in 1 .. m
        BY <1>3
      <3> QED BY <3>1, <3>2
    <2>2. CASE b > cur_col /\ b <= cur_col + n
      <3>1. f[b] = cur_col - b /\ new.data[b] = ins.data[b - cur_col] /\ b - cur_col \in 1 .. n
        BY <1>2, <1>4, <2>2
      <3>2. new.data[b].text = last + (b - cur_col)
        BY <1>1, <3>1
      <3> QED BY <2>2, <3>1, <3>2
    <2>3. CASE b > cur_col + n
      <3>1. f[b] = b /\ new.data[b] = old.data[b] /\ b \in 1 .. m
        BY <1>2, <1>3, <1>4, <2>3 DEF Larger
      <3> QED BY <3>1
    <2> QED BY <2>1, <2>2, <2>3
  <1>6. CameBy(old, new, f)
    BY <1>4, <1>5 DEF CameBy, p, m
  <1> QED BY <1>2, <1>6 DEF Came, new

\* In a row with cells erased.
LEMMA CameErase ==
  ASSUME NEW old \in Vec(AnyCell), NEW left \in Nat, NEW right \in Nat,
         left <= right, left <= Len(old.data)
  PROVE  Came(old, EraseCells(old, left, right))
  <1>0. EraseCells(old, left, right) \in Vec(AnyCell) /\ IsClosed(old, EraseCells(old, left, right), left, right)
    BY EraseCellsIs
  <1> DEFINE new == EraseCells(old, left, right)  m == Len(old.data)  p == Len(new.data)
             f == [b \in 1 .. p |-> IF b <= left THEN b ELSE right + 1 + (b - left)]
  <1>1. /\ new \in Vec(AnyCell)
        /\ p = left + (IF right + 1 < m THEN m - (right + 1) ELSE 0)
        /\ \A k \in 1 .. p :
              new.data[k] = IF k <= left THEN old.data[k] ELSE old.data[right + 1 + (k - left)]
    BY <1>0 DEF IsClosed
  <1>2. p \in Nat /\ m \in Nat /\ left <= m
    BY <1>1, VecIs
  <1>3. /\ f \in [1 .. p -> Int]
        /\ \A b \in 1 .. p : f[b] = IF b <= left THEN b ELSE right + 1 + (b - left)
        /\ \A a, b \in 1 .. p : f[a] = f[b] => a = b
    BY <1>2
  <1> HIDE DEF f, new, m, p
  <1>4. \A b \in 1 .. p : f[b] \in 1 .. m
    BY <1>1, <1>2, <1>3
  <1>5. \A b \in 1 .. p : new.data[b] = old.data[f[b]]
    BY <1>1, <1>3
  <1>6. CameBy(old, new, f)
    BY <1>3, <1>4, <1>5 DEF CameBy, p, m
  <1> QED BY <1>1, <1>6 DEF Came, new

-----------------------------------------------------------------------------
(* Texts: each is in one place *)

\* What row shows in cell j, 0 if nothing.
Shown(row, j) == IF row.data[j] = Junk THEN 0 ELSE row.data[j].text

Apart(rs) ==
  \A i, k \in 1 .. Len(rs.data) :
    \A a \in 1 .. Len(rs.data[i].data), b \in 1 .. Len(rs.data[k].data) :
      Shown(rs.data[i], a) = Shown(rs.data[k], b) /\ Shown(rs.data[i], a) # 0 => i = k /\ a = b

\* Two cells that show the same are one.
LEMMA ApartAt ==
  ASSUME NEW rs, Apart(rs), NEW i \in 1 .. Len(rs.data), NEW k \in 1 .. Len(rs.data),
         NEW a \in 1 .. Len(rs.data[i].data), NEW b \in 1 .. Len(rs.data[k].data),
         Shown(rs.data[i], a) = Shown(rs.data[k], b), Shown(rs.data[i], a) # 0
  PROVE  i = k /\ a = b
BY DEF Apart

\* A cell of a whole row shows its text, none of which is new.
LEMMA ShownIs ==
  ASSUME last \in Nat, NEW row \in Vec(CellsUpTo(last)), NEW j \in 1 .. Len(row.data)
  PROVE  Shown(row, j) = row.data[j].text /\ Shown(row, j) \in 0 .. last
  <1>1. row.data[j] \in CellsUpTo(last)
    BY VecIs
  <1>2. row.data[j] # Junk /\ row.data[j].text \in 0 .. last
    BY <1>1, CellsAre
  <1> QED BY <1>2 DEF Shown

\* What a row shows that came from another is from there, or new.
LEMMA CameFrom ==
  ASSUME last \in Nat, NEW old \in Vec(CellsUpTo(last)), NEW new, NEW f, CameBy(old, new, f),
         NEW b \in 1 .. Len(new.data), Shown(new, b) # 0
  PROVE  /\ f[b] \in Int
         /\ \/ f[b] \in 1 .. Len(old.data) /\ Shown(new, b) = Shown(old, f[b])
            \/ f[b] < 0 /\ Shown(new, b) = last - f[b]
  <1>1. /\ f[b] \in Int
        /\ \/ f[b] \in 1 .. Len(old.data) /\ new.data[b].text = old.data[f[b]].text
           \/ f[b] < 0 /\ new.data[b].text = last - f[b]
    BY DEF CameBy, Shown
  <1>2. Shown(new, b) = new.data[b].text
    BY DEF Shown
  <1> QED BY <1>1, <1>2, ShownIs

\* It shows no text twice if the other did not, and no text that was elsewhere.
LEMMA CameApart ==
  ASSUME last \in Nat, NEW old \in Vec(CellsUpTo(last)), NEW new, Came(old, new),
         \A a, b \in 1 .. Len(old.data) :
           Shown(old, a) = Shown(old, b) /\ Shown(old, a) # 0 => a = b
  PROVE  /\ \A a, b \in 1 .. Len(new.data) :
              Shown(new, a) = Shown(new, b) /\ Shown(new, a) # 0 => a = b
         /\ \A b \in 1 .. Len(new.data) :
              \/ Shown(new, b) = 0 \/ Shown(new, b) > last
              \/ \E a \in 1 .. Len(old.data) : Shown(old, a) = Shown(new, b)
  <1>1. PICK f : CameBy(old, new, f)
    BY DEF Came
  <1>2. ASSUME NEW b \in 1 .. Len(new.data), Shown(new, b) # 0
        PROVE  \/ /\ f[b] \in 1 .. Len(old.data) /\ Shown(new, b) = Shown(old, f[b])
                  /\ Shown(old, f[b]) \in 0 .. last
               \/ f[b] \in Int /\ Shown(new, b) = last - f[b] /\ last - f[b] > last
    <2>1. /\ f[b] \in Int
          /\ \/ f[b] \in 1 .. Len(old.data) /\ Shown(new, b) = Shown(old, f[b])
             \/ f[b] < 0 /\ Shown(new, b) = last - f[b]
      BY <1>1, <1>2, CameFrom
    <2>2. CASE f[b] \in 1 .. Len(old.data) /\ Shown(new, b) = Shown(old, f[b])
      BY <2>2, ShownIs
    <2>3. CASE f[b] < 0 /\ Shown(new, b) = last - f[b]
      BY <2>1, <2>3
    <2> QED BY <2>1, <2>2, <2>3
  <1>3. ASSUME NEW a \in 1 .. Len(new.data), NEW b \in 1 .. Len(new.data),
               Shown(new, a) = Shown(new, b), Shown(new, a) # 0
        PROVE  a = b
    <2>1. f[a] = f[b]
      <3>1. CASE Shown(new, a) > last
        <4>1. /\ f[a] \in Int /\ f[b] \in Int
              /\ Shown(new, a) = last - f[a] /\ Shown(new, b) = last - f[b]
          BY <1>2, <1>3, <3>1
        <4>2. last - f[a] = last - f[b]
          BY <1>3, <4>1
        <4> QED BY <4>1, <4>2
      <3>2. CASE ~(Shown(new, a) > last)
        <4>1. /\ f[a] \in 1 .. Len(old.data) /\ f[b] \in 1 .. Len(old.data)
              /\ Shown(new, a) = Shown(old, f[a]) /\ Shown(new, b) = Shown(old, f[b])
          BY <1>2, <1>3, <3>2
        <4> QED BY <1>3, <4>1
      <3> QED BY <3>1, <3>2
    <2> QED BY <1>1, <2>1 DEF CameBy
  <1>4. ASSUME NEW b \in 1 .. Len(new.data)
        PROVE  \/ Shown(new, b) = 0 \/ Shown(new, b) > last
               \/ \E a \in 1 .. Len(old.data) : Shown(old, a) = Shown(new, b)
    BY <1>2
  <1> QED BY <1>3, <1>4

\* The rows us show in row k no old text that row k did not show.
NoneNew(us) ==
  \A k \in 1 .. Len(us.data) : \A b \in 1 .. Len(us.data[k].data) :
    \/ Shown(us.data[k], b) = 0 \/ Shown(us.data[k], b) > last
    \/ /\ k \in 1 .. Len(rows.data)
       /\ \E a \in 1 .. Len(rows.data[k].data) : Shown(rows.data[k], a) = Shown(us.data[k], b)

\* Texts stay in one place if they stay in their rows, and new ones are in one row.
LEMMA TableApart ==
  ASSUME Whole, Apart(rows), NEW us, NoneNew(us), NEW r,
         \A k \in 1 .. Len(us.data) : k # r =>
           \A a \in 1 .. Len(us.data[k].data) : ~(Shown(us.data[k], a) > last),
         \A k \in 1 .. Len(us.data) : \A a, b \in 1 .. Len(us.data[k].data) :
           Shown(us.data[k], a) = Shown(us.data[k], b) /\ Shown(us.data[k], a) # 0 => a = b
  PROVE  Apart(us)
  <1> SUFFICES ASSUME NEW i \in 1 .. Len(us.data), NEW k \in 1 .. Len(us.data),
                      NEW a \in 1 .. Len(us.data[i].data), NEW b \in 1 .. Len(us.data[k].data),
                      Shown(us.data[i], a) = Shown(us.data[k], b), Shown(us.data[i], a) # 0
               PROVE  i = k /\ a = b
    BY DEF Apart
  <1>1. CASE i = k
    BY <1>1
  <1>2. CASE i # k
    <2>1. ~(Shown(us.data[i], a) > last)
      <3>1. i # r \/ k # r
        BY <1>2
      <3> QED BY <3>1
    <2>2. /\ i \in 1 .. Len(rows.data)
          /\ \E c \in 1 .. Len(rows.data[i].data) : Shown(rows.data[i], c) = Shown(us.data[i], a)
      BY <2>1 DEF NoneNew
    <2>3. /\ k \in 1 .. Len(rows.data)
          /\ \E c \in 1 .. Len(rows.data[k].data) : Shown(rows.data[k], c) = Shown(us.data[i], a)
      BY <2>1 DEF NoneNew
    <2> QED BY <1>2, <2>2, <2>3 DEF Apart
  <1> QED BY <1>1, <1>2

\* So they do when a row is changed.
LEMMA WithRowApart ==
  ASSUME Whole, Apart(rows), NEW r \in Nat, NEW new, Came(vector_at(RowsTo(r + 1), r), new)
  PROVE  Apart(WithRow(r, new)) /\ NoneNew(WithRow(r, new))
  <1> DEFINE us == WithRow(r, new)  old == vector_at(RowsTo(r + 1), r)
             m == Len(rows.data)  C == CellsUpTo(last)
  <1>1. last \in Nat /\ rows \in Vec(Vec(C)) /\ m \in Nat
    BY RowToWriteIs, VecIs DEF Whole
  <1>2. rows \in Vec(Vec(AnyCell)) /\ new \in Vec(AnyCell)
    <2>1. Vec(Vec(C)) \subseteq Vec(Vec(AnyCell))
      BY <1>1, AnyCells, VecMono
    <2> QED BY <1>1, <2>1 DEF Came
  <1>3. /\ us \in Vec(Vec(AnyCell)) /\ Len(us.data) \in Nat
        /\ \A k \in 1 .. Len(us.data) :
             us.data[k] = IF k = r + 1 THEN new
                          ELSE IF k <= m THEN rows.data[k] ELSE create_row
    <2>1. /\ us \in Vec(Vec(AnyCell))
          /\ \A k \in 1 .. Len(us.data) :
               us.data[k] = IF k = r + 1 THEN new
                            ELSE IF k <= m THEN rows.data[k] ELSE create_row
      <3> HIDE DEF C
      <3> QED BY <1>2, WithRowIs
    <2> HIDE DEF us
    <2> QED BY <2>1, VecIs
  <1>4. /\ old \in Vec(C)
        /\ old = IF r + 1 <= m THEN rows.data[r + 1] ELSE create_row
    <2> HIDE DEF C
    <2> QED BY <1>1, RowAtIs
  <1>5. Len(create_row.data) = 0
    BY NewRowIs
  <1> HIDE DEF us, old
  <1>6. \A a, b \in 1 .. Len(old.data) :
           Shown(old, a) = Shown(old, b) /\ Shown(old, a) # 0 => a = b
    <2>1. CASE r + 1 <= m
      <3>1. r + 1 \in 1 .. Len(rows.data) /\ old = rows.data[r + 1]
        BY <1>1, <1>4, <2>1 DEF m
      <3> SUFFICES ASSUME NEW a \in 1 .. Len(old.data), NEW b \in 1 .. Len(old.data),
                          Shown(old, a) = Shown(old, b), Shown(old, a) # 0
                   PROVE  a = b
        OBVIOUS
      <3> QED BY <3>1, ApartAt
    <2>2. CASE ~(r + 1 <= m)
      <3>1. 1 .. Len(old.data) = {}
        BY <1>4, <1>5, <2>2
      <3> QED BY <3>1
    <2> QED BY <2>1, <2>2
  <1>7. Came(old, new)
    BY DEF old
  <1>8. /\ \A a, b \in 1 .. Len(new.data) :
              Shown(new, a) = Shown(new, b) /\ Shown(new, a) # 0 => a = b
        /\ \A b \in 1 .. Len(new.data) :
              \/ Shown(new, b) = 0 \/ Shown(new, b) > last
              \/ \E a \in 1 .. Len(old.data) : Shown(old, a) = Shown(new, b)
    BY <1>1, <1>4, <1>6, <1>7, CameApart, SMTT(30)
  <1>9. ASSUME NEW k \in 1 .. Len(us.data), k # r + 1, NEW a \in 1 .. Len(us.data[k].data)
        PROVE  /\ k \in 1 .. m /\ us.data[k] = rows.data[k] /\ ~(Shown(us.data[k], a) > last)
    <2>1. k \in 1 .. m /\ us.data[k] = rows.data[k]
      <3>1. k <= m
        BY <1>3, <1>5, <1>9
      <3> QED BY <1>1, <1>3, <1>9, <3>1
    <2>2. rows.data[k] \in Vec(C)
      BY <1>1, <2>1, VecIs
    <2>3. Shown(us.data[k], a) \in 0 .. last
      BY <1>1, <2>1, <2>2, ShownIs
    <2> QED BY <1>1, <2>1, <2>3
  <1>10. NoneNew(us)
    <2> SUFFICES ASSUME NEW k \in 1 .. Len(us.data), NEW b \in 1 .. Len(us.data[k].data)
                 PROVE  \/ Shown(us.data[k], b) = 0 \/ Shown(us.data[k], b) > last
                        \/ /\ k \in 1 .. m
                           /\ \E a \in 1 .. Len(rows.data[k].data) :
                                Shown(rows.data[k], a) = Shown(us.data[k], b)
      BY DEF NoneNew, m
    <2>1. CASE k = r + 1
      <3>1. us.data[k] = new
        BY <1>3, <2>1
      <3>2. CASE r + 1 <= m
        BY <1>1, <1>4, <1>8, <2>1, <3>1, <3>2
      <3>3. CASE ~(r + 1 <= m)
        <4>1. 1 .. Len(old.data) = {}
          BY <1>4, <1>5, <3>3
        <4> QED BY <1>8, <3>1, <4>1
      <3> QED BY <3>2, <3>3
    <2>2. CASE k # r + 1
      BY <1>9, <2>2
    <2> QED BY <2>1, <2>2
  <1>11. ASSUME NEW k \in 1 .. Len(us.data), NEW a \in 1 .. Len(us.data[k].data),
                NEW b \in 1 .. Len(us.data[k].data),
                Shown(us.data[k], a) = Shown(us.data[k], b), Shown(us.data[k], a) # 0
         PROVE  a = b
    <2>1. CASE k = r + 1
      <3>1. us.data[k] = new
        BY <1>3, <2>1
      <3> QED BY <1>8, <1>11, <3>1
    <2>2. CASE k # r + 1
      <3>1. k \in 1 .. Len(rows.data) /\ us.data[k] = rows.data[k]
        BY <1>9, <2>2
      <3> QED BY <1>11, <3>1, SMTT(30) DEF Apart
    <2> QED BY <2>1, <2>2
  <1>12. Apart(us)
    BY <1>9, <1>10, <1>11, TableApart
  <1> QED BY <1>10, <1>12 DEF us

\* So they do when rows are made.
LEMMA RowsToApart ==
  ASSUME Whole, Apart(rows), NEW n \in Nat
  PROVE  Apart(RowsTo(n)) /\ NoneNew(RowsTo(n))
  <1> DEFINE us == RowsTo(n)  m == Len(rows.data)
  <1>1. /\ us \in Vec(Vec(CellsUpTo(last))) /\ rows \in Vec(Vec(CellsUpTo(last)))
        /\ \A k \in 1 .. Len(us.data) :
             us.data[k] = IF k <= m THEN rows.data[k] ELSE create_row
    BY RowsToIs DEF Whole
  <1>2. Len(create_row.data) = 0 /\ m \in Nat /\ 1 .. 0 = {}
    BY <1>1, NewRowIs, VecIs
  <1> HIDE DEF us
  <1>3. ASSUME NEW k \in 1 .. Len(us.data), NEW a \in 1 .. Len(us.data[k].data)
        PROVE  k \in 1 .. m /\ us.data[k] = rows.data[k]
    <2>1. k <= m
      BY <1>1, <1>2, <1>3
    <2> QED BY <1>1, <1>2, <1>3, <2>1
  <1> HIDE DEF m
  <1>4. Apart(us)
    <2> SUFFICES ASSUME NEW i \in 1 .. Len(us.data), NEW k \in 1 .. Len(us.data),
                        NEW a \in 1 .. Len(us.data[i].data), NEW b \in 1 .. Len(us.data[k].data),
                        Shown(us.data[i], a) = Shown(us.data[k], b), Shown(us.data[i], a) # 0
                 PROVE  i = k /\ a = b
      BY DEF Apart
    <2>1. /\ i \in 1 .. m /\ us.data[i] = rows.data[i]
          /\ k \in 1 .. m /\ us.data[k] = rows.data[k]
      BY <1>3
    <2> QED BY <2>1 DEF Apart, m
  <1>5. NoneNew(us)
    BY <1>3 DEF NoneNew, m
  <1> QED BY <1>4, <1>5 DEF us

\* So they do when a row is split in two, and when the second half is lost.
LEMMA SplitApart ==
  ASSUME Whole, Apart(rows), InRow
  PROVE  Apart(SplitRow) /\ Apart(VectorSet(rows, cur_row, SplitHead(vector_at(rows, cur_row), cur_col)))
  <1> DEFINE C == CellsUpTo(last)  row == vector_at(rows, cur_row)  m == Len(rows.data)
             head == SplitHead(row, cur_col)  tail == SplitTail(row, cur_col)
             cut == VectorSet(rows, cur_row, head)  us == vector_insert(cut, tail, cur_row + 1)
  <1>1. last \in Nat /\ cur_row \in Nat /\ cur_col \in Nat /\ rows \in Vec(Vec(C)) /\ m \in Nat
    BY RowToWriteIs, VecIs DEF Whole
  <1>2. cur_row < m /\ cur_col < columns_in_row(row) /\ row = rows.data[cur_row + 1]
        /\ cur_row + 1 \in 1 .. m
    BY <1>1, VecIs, SMTT(30) DEF InRow, ft_row_count, vector_at
  <1>3. row \in Vec(C)
    BY <1>1, <1>2, VecIs
  <1>4. cur_col < Len(row.data) /\ Len(row.data) \in Nat
    BY <1>2, <1>3, VecIs DEF columns_in_row
  <1> HIDE DEF row
  <1>5. /\ head \in Vec(C) /\ Len(head.data) = cur_col
        /\ tail \in Vec(C) /\ Len(tail.data) = Len(row.data) - cur_col
        /\ \A k \in 1 .. cur_col : head.data[k] = row.data[k]
        /\ \A k \in 1 .. Len(row.data) - cur_col : tail.data[k] = row.data[cur_col + k]
    BY <1>1, <1>3, <1>4, SplitIs
  <1> HIDE DEF head, tail
  <1>6. cut \in Vec(Vec(C)) /\ Len(cut.data) = m
        /\ \A k \in 1 .. m : cut.data[k] = IF k = cur_row + 1 THEN head ELSE rows.data[k]
    BY <1>1, <1>2, <1>5, SetIs
  <1> HIDE DEF cut
  <1>7. /\ Len(us.data) = m + 1
        /\ \A k \in 1 .. m + 1 :
             us.data[k] = IF k <= cur_row + 1 THEN cut.data[k]
                          ELSE IF k = cur_row + 2 THEN tail ELSE cut.data[k - 1]
    <2>1. cur_row + 1 \in Nat /\ cur_row + 1 <= Len(cut.data) /\ cur_row + 1 + 1 = cur_row + 2
      BY <1>1, <1>2, <1>6
    <2>2. /\ Len(us.data) = Larger(cur_row + 1, Len(cut.data)) + 1
          /\ \A k \in 1 .. Len(us.data) :
               us.data[k] = IF k <= cur_row + 1
                            THEN IF k <= Len(cut.data) THEN cut.data[k] ELSE Junk
                            ELSE IF k = cur_row + 1 + 1 THEN tail ELSE cut.data[k - 1]
      <3> HIDE DEF C
      <3> QED BY <1>5, <1>6, <2>1, InsertIs, SMTT(30)
    <2> HIDE DEF us
    <2>3. Len(us.data) = m + 1
      BY <1>1, <1>6, <2>1, <2>2 DEF Larger
    <2>4. \A k \in 1 .. m + 1 : k <= cur_row + 1 => k <= m
      BY <1>1, <1>2
    <2> QED BY <1>6, <2>1, <2>2, <2>3, <2>4
  <1> HIDE DEF us, C, m
  <1> DEFINE Row(k) == IF k <= cur_row + 1 THEN k ELSE k - 1
             Col(k, b) == IF k = cur_row + 2 THEN cur_col + b ELSE b
  <1>8. ASSUME NEW k \in 1 .. Len(us.data), NEW b \in 1 .. Len(us.data[k].data)
        PROVE  /\ Row(k) \in 1 .. m /\ Col(k, b) \in 1 .. Len(rows.data[Row(k)].data)
               /\ Shown(us.data[k], b) = Shown(rows.data[Row(k)], Col(k, b))
               /\ k = cur_row + 1 => b <= cur_col
    <2>1. CASE k <= cur_row
      <3>1. us.data[k] = rows.data[k] /\ k \in 1 .. m
        BY <1>1, <1>2, <1>6, <1>7, <2>1
      <3> QED BY <1>1, <2>1, <3>1
    <2>2. CASE k = cur_row + 1
      <3>1. us.data[k] = head /\ k \in 1 .. m /\ rows.data[k] = row
        BY <1>1, <1>2, <1>6, <1>7, <2>2
      <3>2. b \in 1 .. cur_col /\ b \in 1 .. Len(row.data)
        BY <1>1, <1>4, <1>5, <3>1
      <3>3. Shown(head, b) = Shown(row, b)
        BY <1>5, <3>2 DEF Shown
      <3>4. Row(k) = k /\ Col(k, b) = b
        BY <1>1, <2>2
      <3> HIDE DEF Row, Col
      <3> QED BY <1>1, <3>1, <3>2, <3>3, <3>4
    <2>3. CASE k = cur_row + 2
      <3>1. us.data[k] = tail /\ Row(k) \in 1 .. m /\ rows.data[Row(k)] = row
        BY <1>1, <1>2, <1>7, <2>3
      <3>2. b \in 1 .. Len(row.data) - cur_col /\ cur_col + b \in 1 .. Len(row.data)
        BY <1>1, <1>4, <1>5, <3>1
      <3>3. Shown(tail, b) = Shown(row, cur_col + b)
        BY <1>5, <3>2 DEF Shown
      <3>4. Col(k, b) = cur_col + b /\ k # cur_row + 1
        BY <1>1, <2>3
      <3> HIDE DEF Row, Col
      <3> QED BY <3>1, <3>2, <3>3, <3>4
    <2>4. CASE k > cur_row + 2
      <3>1. us.data[k] = rows.data[k - 1] /\ k - 1 \in 1 .. m /\ k # cur_row + 1
        BY <1>1, <1>2, <1>6, <1>7, <2>4
      <3>2. Row(k) = k - 1 /\ Col(k, b) = b
        BY <1>1, <2>4
      <3> HIDE DEF Row, Col
      <3> QED BY <3>1, <3>2
    <2> QED BY <1>1, <2>1, <2>2, <2>3, <2>4
  <1>9. Apart(us)
    <2> SUFFICES ASSUME NEW i \in 1 .. Len(us.data), NEW k \in 1 .. Len(us.data),
                        NEW a \in 1 .. Len(us.data[i].data), NEW b \in 1 .. Len(us.data[k].data),
                        Shown(us.data[i], a) = Shown(us.data[k], b), Shown(us.data[i], a) # 0
                 PROVE  i = k /\ a = b
      BY DEF Apart
    <2>1. Row(i) = Row(k) /\ Col(i, a) = Col(k, b)
      <3> HIDE DEF Row, Col
      <3>1. /\ Row(i) \in 1 .. Len(rows.data) /\ Row(k) \in 1 .. Len(rows.data)
            /\ Col(i, a) \in 1 .. Len(rows.data[Row(i)].data)
            /\ Col(k, b) \in 1 .. Len(rows.data[Row(k)].data)
            /\ Shown(rows.data[Row(i)], Col(i, a)) = Shown(rows.data[Row(k)], Col(k, b))
            /\ Shown(rows.data[Row(i)], Col(i, a)) # 0
        BY <1>8 DEF m
      <3> QED BY <3>1, ApartAt
    <2>2. (i = cur_row + 1 => a <= cur_col) /\ (k = cur_row + 1 => b <= cur_col)
      BY <1>8
    <2>3. a \in Nat \ {0} /\ b \in Nat \ {0}
      <3>1. us.data[i] \in Vec(C) /\ us.data[k] \in Vec(C)
        <4>1. tail \in Vec(C) /\ \A j \in 1 .. m : cut.data[j] \in Vec(C)
          BY <1>5, <1>6, VecIs
        <4>2. \A j \in 1 .. m + 1 : us.data[j] \in Vec(C)
          <5>0. m \in Nat /\ cur_row \in Nat /\ cur_row + 1 <= m
            BY <1>1, <1>2 DEF m
          <5> HIDE DEF m
          <5>1. \A j \in 1 .. m + 1 : /\ j <= cur_row + 1 => j \in 1 .. m
                                      /\ j > cur_row + 1 /\ j # cur_row + 2 => j - 1 \in 1 .. m
            BY <5>0
          <5>2. \A j \in 1 .. m + 1 : j <= cur_row + 1 \/ j > cur_row + 1
            BY <1>1
          <5> QED BY <1>7, <4>1, <5>1, <5>2
        <4> QED BY <1>7, <4>2
      <3> QED BY <3>1, VecIs
    <2> QED BY <1>1, <2>1, <2>2, <2>3, SMTT(30)
  <1>10. Apart(cut)
    <2> SUFFICES ASSUME NEW i \in 1 .. m, NEW k \in 1 .. m,
                        NEW a \in 1 .. Len(cut.data[i].data), NEW b \in 1 .. Len(cut.data[k].data),
                        Shown(cut.data[i], a) = Shown(cut.data[k], b), Shown(cut.data[i], a) # 0
                 PROVE  i = k /\ a = b
      BY <1>6 DEF Apart
    <2>1. ASSUME NEW j \in 1 .. m, NEW c \in 1 .. Len(cut.data[j].data)
          PROVE  c \in 1 .. Len(rows.data[j].data) /\ Shown(cut.data[j], c) = Shown(rows.data[j], c)
      <3>1. CASE j = cur_row + 1
        <4>1. cut.data[j] = head /\ rows.data[j] = row
          BY <1>2, <1>6, <3>1
        <4>2. c \in 1 .. cur_col /\ c \in 1 .. Len(row.data)
          BY <1>1, <1>4, <1>5, <4>1
        <4> QED BY <1>5, <4>1, <4>2 DEF Shown
      <3>2. CASE j # cur_row + 1
        BY <1>6, <3>2
      <3> QED BY <3>1, <3>2
    <2>2. /\ i \in 1 .. Len(rows.data) /\ k \in 1 .. Len(rows.data)
          /\ a \in 1 .. Len(rows.data[i].data) /\ b \in 1 .. Len(rows.data[k].data)
          /\ Shown(rows.data[i], a) = Shown(rows.data[k], b) /\ Shown(rows.data[i], a) # 0
      BY <2>1 DEF m
    <2> QED BY <2>2, ApartAt
  <1> QED BY <1>9, <1>10 DEF SplitRow, us, cut, head, tail, row

-----------------------------------------------------------------------------
(* Separators *)

\* There is a separator above row k.
Sep(sep, k) == k \in DOMAIN sep.data /\ sep.data[k] = TRUE

\* The rows us show old texts only, with a separator above them as there was.
Under(us, sep) ==
  \A k \in 1 .. Len(us.data) : \A b \in 1 .. Len(us.data[k].data) :
    \/ Shown(us.data[k], b) = 0 \/ Shown(us.data[k], b) > last
    \/ \E i \in 1 .. Len(rows.data) :
         /\ \E a \in 1 .. Len(rows.data[i].data) : Shown(rows.data[i], a) = Shown(us.data[k], b)
         /\ Sep(sep, k) <=> Sep(separators, i)

\* They do if the texts stay in their rows and the separators in their places.
LEMMA NoneNewUnder ==
  ASSUME NEW us, NoneNew(us), NEW sep, sep.data = separators.data
  PROVE  Under(us, sep)
  <1>1. \A k : Sep(sep, k) <=> Sep(separators, k)
    BY DEF Sep
  <1> QED BY <1>1 DEF NoneNew, Under

\* A separator that goes takes those behind it one row up.
LEMMA SepErase ==
  ASSUME NEW B, NEW sep \in Vec(B), NEW i \in Nat, NEW k \in Nat \ {0}
  PROVE  Sep(IF i < Len(sep.data) THEN vector_erase(sep, i) ELSE sep, k)
           <=> Sep(sep, IF k <= i THEN k ELSE k + 1)
  <1> DEFINE n == Len(sep.data)  j == IF k <= i THEN k ELSE k + 1
  <1>1. n \in Nat /\ DOMAIN sep.data = 1 .. n
    BY VecIs
  <1>2. CASE i < n
    <2> DEFINE w == vector_erase(sep, i)
    <2>1. /\ w \in Vec(B) /\ Len(w.data) = n - 1
          /\ \A c \in 1 .. Len(w.data) : w.data[c] = IF c <= i THEN sep.data[c] ELSE sep.data[c + 1]
      BY <1>2, EraseIs
    <2>2. DOMAIN w.data = 1 .. n - 1
      BY <2>1, VecIs
    <2> HIDE DEF w, n
    <2>3. k \in 1 .. n - 1 <=> j \in 1 .. n
      BY <1>1, <1>2
    <2>4. k \in 1 .. n - 1 => w.data[k] = sep.data[j]
      BY <2>1
    <2>5. Sep(w, k) <=> Sep(sep, j)
      <3> HIDE DEF j
      <3> QED BY <1>1, <2>2, <2>3, <2>4 DEF Sep
    <2> QED BY <1>2, <2>5 DEF w, n
  <1>3. CASE ~(i < n)
    <2>1. k \in 1 .. n <=> j \in 1 .. n
      BY <1>1, <1>3
    <2>2. k \in 1 .. n => j = k
      BY <1>1, <1>3
    <2> HIDE DEF j, n
    <2>3. Sep(sep, k) <=> Sep(sep, j)
      BY <1>1, <2>1, <2>2 DEF Sep
    <2> QED BY <1>3, <2>3 DEF j, n
  <1> QED BY <1>2, <1>3

\* A row that goes, with the separator above it, leaves the others theirs.
LEMMA EraseUnder ==
  ASSUME NEW S, NEW rs \in Vec(Vec(S)), NEW B, NEW sep \in Vec(B), NEW i \in Nat, i < Len(rs.data),
         Apart(rs), Under(rs, sep)
  PROVE  /\ Apart(vector_erase(rs, i))
         /\ Under(vector_erase(rs, i), IF i < Len(sep.data) THEN vector_erase(sep, i) ELSE sep)
  <1> DEFINE us == vector_erase(rs, i)  m == Len(us.data)
             usep == IF i < Len(sep.data) THEN vector_erase(sep, i) ELSE sep
             Old(k) == IF k <= i THEN k ELSE k + 1
  <1>1. /\ us \in Vec(Vec(S)) /\ m = Len(rs.data) - 1
        /\ \A k \in 1 .. m : us.data[k] = IF k <= i THEN rs.data[k] ELSE rs.data[k + 1]
    BY EraseIs
  <1>2. m \in Nat /\ Len(rs.data) \in Nat
    BY <1>1, VecIs
  <1> HIDE DEF us, m
  <1>3. \A k \in 1 .. m : Old(k) \in 1 .. Len(rs.data) /\ us.data[k] = rs.data[Old(k)]
    BY <1>1, <1>2
  <1>4. \A k, j \in 1 .. m : Old(k) = Old(j) => k = j
    BY <1>2
  <1>5. \A k \in 1 .. m : Sep(usep, k) <=> Sep(sep, Old(k))
    <2>1. \A k \in 1 .. m : k \in Nat \ {0}
      BY <1>2
    <2> QED BY <2>1, SepErase
  <1> HIDE DEF Old, usep
  <1>6. Apart(us)
    <2> SUFFICES ASSUME NEW j \in 1 .. m, NEW k \in 1 .. m,
                        NEW a \in 1 .. Len(us.data[j].data), NEW b \in 1 .. Len(us.data[k].data),
                        Shown(us.data[j], a) = Shown(us.data[k], b), Shown(us.data[j], a) # 0
                 PROVE  j = k /\ a = b
      <3>1. Len(us.data) = m
        BY DEF m
      <3> QED BY <3>1 DEF Apart
    <2>1. Old(j) = Old(k) /\ a = b
      <3>1. /\ Old(j) \in 1 .. Len(rs.data) /\ Old(k) \in 1 .. Len(rs.data)
            /\ us.data[j] = rs.data[Old(j)] /\ us.data[k] = rs.data[Old(k)]
        BY <1>3
      <3>2. /\ a \in 1 .. Len(rs.data[Old(j)].data) /\ b \in 1 .. Len(rs.data[Old(k)].data)
            /\ Shown(rs.data[Old(j)], a) = Shown(rs.data[Old(k)], b)
            /\ Shown(rs.data[Old(j)], a) # 0
        BY <3>1
      <3> QED BY <3>1, <3>2, ApartAt
    <2> QED BY <1>4, <2>1
  <1>7. Under(us, usep)
    <2>1. Len(us.data) = m
      BY DEF m
    <2> SUFFICES ASSUME NEW k \in 1 .. m, NEW b \in 1 .. Len(us.data[k].data)
                 PROVE  \/ Shown(us.data[k], b) = 0 \/ Shown(us.data[k], b) > last
                        \/ \E j \in 1 .. Len(rows.data) :
                             /\ \E a \in 1 .. Len(rows.data[j].data) :
                                  Shown(rows.data[j], a) = Shown(us.data[k], b)
                             /\ Sep(usep, k) <=> Sep(separators, j)
      BY <2>1 DEF Under
    <2>2. /\ Old(k) \in 1 .. Len(rs.data) /\ us.data[k] = rs.data[Old(k)]
          /\ Sep(usep, k) <=> Sep(sep, Old(k))
      BY <1>3, <1>5
    <2>3. b \in 1 .. Len(rs.data[Old(k)].data)
      BY <2>2
    <2>4. \/ Shown(rs.data[Old(k)], b) = 0 \/ Shown(rs.data[Old(k)], b) > last
          \/ \E j \in 1 .. Len(rows.data) :
               /\ \E a \in 1 .. Len(rows.data[j].data) :
                    Shown(rows.data[j], a) = Shown(rs.data[Old(k)], b)
               /\ Sep(sep, Old(k)) <=> Sep(separators, j)
      BY <2>2, <2>3 DEF Under
    <2> QED BY <2>2, <2>4
  <1> QED BY <1>6, <1>7 DEF us, usep

\* The rows as they are show nothing new.
LEMMA SameNoneNew == NoneNew(rows)
BY DEF NoneNew

\* A cell written, or some of it, takes no text elsewhere.
LEMMA WriteApart ==
  ASSUME Whole, Apart(rows), ft_write
  PROVE  Apart(rows') /\ NoneNew(rows')
  <1> DEFINE row == vector_at(RowsTo(cur_row + 1), cur_row)
  <1>1. /\ cur_row \in Nat /\ cur_col \in Nat /\ last \in Nat /\ row = RowToWrite
        /\ row \in Vec(CellsUpTo(last))
    BY RowToWriteIs DEF RowToWrite
  <1>2. row \in Vec(AnyCell)
    BY <1>1, AnyCells
  <1>3. ASSUME NEW new, Came(row, new), rows' = WithRow(cur_row, new)
        PROVE  Apart(rows') /\ NoneNew(rows')
    BY <1>1, <1>3, WithRowApart
  <1>4. Came(row, row)
    <2>1. \A b \in 1 .. Len(row.data) : b <= Len(row.data)
      BY <1>2, VecIs
    <2> HIDE DEF row
    <2> QED BY <1>2, <2>1, CameSame
  <1> HIDE DEF row
  <1>5. CASE Write
    <2> DEFINE new == PutCell(row, last + 1)
    <2>1. rows' = WithRow(cur_row, new)
      BY <1>1, <1>5 DEF Write
    <2>2. CASE add_strategy = "INSERT"
      <3>1. new = vector_insert(row, Cell(last + 1), cur_col)
        BY <2>2 DEF PutCell
      <3>2. Cell(last + 1) \in {create_cell, Cell(last + 1)}
        OBVIOUS
      <3> QED BY <1>1, <1>2, <1>3, <2>1, <3>1, <3>2, CameInsert
    <2>3. CASE add_strategy # "INSERT"
      <3>1. new = PutReplace(row, cur_col, last + 1)
        BY <2>3 DEF PutCell
      <3> QED BY <1>1, <1>3, <2>1, <3>1, CameReplace
    <2> QED BY <2>2, <2>3
  <1>6. CASE WriteFails
    <2>1. ASSUME NEW n \in ft_row_count .. cur_row, rows' = RowsTo(n)
          PROVE  Apart(rows') /\ NoneNew(rows')
      <3>1. n \in Nat
        BY VecIs DEF Whole, ft_row_count
      <3> QED BY <2>1, <3>1, RowsToApart
    <2>2. ASSUME NEW r \in HalfWritten(row), rows' = WithRow(cur_row, r)
          PROVE  Apart(rows') /\ NoneNew(rows')
      <3>1. CASE r = row
        BY <1>3, <1>4, <2>2, <3>1
      <3>2. CASE r = vector_insert(row, create_cell, cur_col)
        <4>1. create_cell \in {create_cell, Cell(last + 1)}
          OBVIOUS
        <4> QED BY <1>1, <1>2, <1>3, <2>2, <3>2, <4>1, CameInsert
      <3>3. ASSUME NEW n \in columns_in_row(row) .. cur_col + 1, r = CellsTo(row, n)
            PROVE  Apart(rows') /\ NoneNew(rows')
        <4>1. n \in Nat
          BY <1>2, VecIs DEF columns_in_row
        <4>2. Came(row, r)
          BY <1>2, <3>3, <4>1, CameCellsTo
        <4> QED BY <1>3, <2>2, <4>2
      <3> QED BY <2>2, <3>1, <3>2, <3>3 DEF HalfWritten
    <2> QED BY <1>1, <1>6, <2>1, <2>2 DEF WriteFails
  <1> QED BY <1>5, <1>6 DEF ft_write

\* A formatted row takes none either.
LEMMA PrintfApart ==
  ASSUME Whole, Apart(rows), ft_printf
  PROVE  Apart(rows') /\ NoneNew(rows')
  <1> DEFINE row == vector_at(RowsTo(cur_row + 1), cur_row)
  <1>1. /\ cur_row \in Nat /\ cur_col \in Nat /\ last \in Nat /\ row = RowToWrite
        /\ row \in Vec(CellsUpTo(last))
    BY RowToWriteIs DEF RowToWrite
  <1>2. row \in Vec(AnyCell)
    BY <1>1, AnyCells
  <1>3. ASSUME NEW new, Came(row, new), rows' = WithRow(cur_row, new)
        PROVE  Apart(rows') /\ NoneNew(rows')
    BY <1>1, <1>3, WithRowApart
  <1>4. PICK n \in 1 .. MaxCols : Printf(n) \/ PrintfFails(n)
    BY DEF ft_printf
  <1>5. n \in Nat \ {0}
    OBVIOUS
  <1> HIDE DEF row
  <1>6. CASE Printf(n)
    <2> DEFINE new == IF add_strategy = "INSERT" THEN insert_row(row, FmtRow(n))
                      ELSE swap_row(row, FmtRow(n))
    <2>1. rows' = WithRow(cur_row, new)
      BY <1>1, <1>6 DEF Printf
    <2>2. Came(row, new)
      BY <1>1, <1>2, <1>5, CameInsertRow, CameSwapRow
    <2> HIDE DEF new
    <2> QED BY <1>3, <2>1, <2>2
  <1>7. CASE PrintfFails(n)
    <2>1. ASSUME NEW k \in ft_row_count .. cur_row + 1, rows' = RowsTo(k)
          PROVE  Apart(rows') /\ NoneNew(rows')
      <3>1. k \in Nat
        BY VecIs DEF Whole, ft_row_count
      <3> QED BY <2>1, <3>1, RowsToApart
    <2>2. ASSUME NEW r \in HalfPrinted(row, n), rows' = WithRow(cur_row, r)
          PROVE  Apart(rows') /\ NoneNew(rows')
      <3>1. Came(row, r)
        <4>1. ASSUME NEW k \in columns_in_row(row) .. cur_col - 1, r = CellsTo(row, k)
              PROVE  Came(row, r)
          <5>1. k \in Nat
            BY <1>2, VecIs DEF columns_in_row
          <5> QED BY <1>2, <4>1, <5>1, CameCellsTo
        <4>2. CASE r = SwapRoom(row, FmtRow(n), cur_col)
          <5>1. FmtRow(n) \in Vec(AnyCell)
            <6>1. last + n \in Nat
              BY <1>1
            <6> QED BY <1>1, <1>5, <6>1, FmtRowIs, AnyCells
          <5>2. r \in Vec(AnyCell) /\ r.data = row.data
            BY <1>1, <1>2, <4>2, <5>1, RoomIs, ZenonT(30)
          <5>3. \A b \in 1 .. Len(r.data) : b <= Len(row.data)
            BY <1>2, <5>2, VecIs
          <5> QED BY <1>2, <5>2, <5>3, CameSame
        <4> QED BY <2>2, <4>1, <4>2 DEF HalfPrinted
      <3> QED BY <1>3, <2>2, <3>1
    <2>3. CASE rows' = rows
      BY <2>3, SameNoneNew
    <2> QED BY <1>1, <1>7, <2>1, <2>2, <2>3 DEF PrintfFails
  <1> QED BY <1>4, <1>6, <1>7

\* Nor does a span.
LEMMA SpanApart ==
  ASSUME Whole, Apart(rows), AnySpan
  PROVE  Apart(rows') /\ NoneNew(rows')
  <1> DEFINE C == CellsUpTo(last)
  <1>1. PICK r \in RowArgs, col \in 0 .. MaxCols - 2, span \in 2 .. MaxCols :
               ft_set_cell_span(r, col, span)
    BY DEF AnySpan
  <1> DEFINE row == vector_at(RowsTo(r + 1), r)
  <1>2. r \in Nat /\ col \in Nat /\ last \in Nat /\ rows \in Vec(Vec(C))
    BY RowToWriteIs, ArgsAre DEF Whole
  <1>3. row \in Vec(C)
    <2> HIDE DEF C
    <2> QED BY <1>2, RowAtIs
  <1>4. ASSUME NEW n \in ft_row_count .. r, rows' = RowsTo(n) PROVE Apart(rows') /\ NoneNew(rows')
    <2>1. n \in Nat
      BY VecIs DEF Whole, ft_row_count
    <2> QED BY <1>4, <2>1, RowsToApart
  <1>5. ASSUME NEW w \in row_set_cell_span(row, col, span), rows' = WithRow(r, w)
        PROVE  Apart(rows') /\ NoneNew(rows')
    <2>1. Came(row, w)
      <3>1. ASSUME NEW n \in 1 .. span, w = Spanned(row, col, n) PROVE Came(row, w)
        <4>1. n \in Nat \ {0}
          OBVIOUS
        <4> HIDE DEF row
        <4> QED BY <1>2, <1>3, <3>1, <4>1, CameSpanned
      <3>2. ASSUME NEW n \in columns_in_row(row) .. col, w = CellsTo(row, n) PROVE Came(row, w)
        <4>1. row \in Vec(AnyCell)
          BY <1>2, <1>3, AnyCells
        <4> HIDE DEF row
        <4>2. n \in Nat
          BY <4>1, VecIs DEF columns_in_row
        <4> QED BY <3>2, <4>1, <4>2, CameCellsTo
      <3> QED BY <1>5, <3>1, <3>2 DEF row_set_cell_span
    <2> QED BY <1>2, <1>5, <2>1, WithRowApart
  <1> QED BY <1>1, <1>4, <1>5 DEF ft_set_cell_span

\* Nor does a copy.
LEMMA CopyApart ==
  ASSUME Whole, Apart(rows), ft_copy_table
  PROVE  Apart(rows') /\ NoneNew(rows')
  <1>1. /\ Len(rows'.data) = Len(rows.data)
        /\ \A k \in 1 .. Len(rows.data) : rows'.data[k].data = rows.data[k].data
    BY CopyStep
  <1>2. \A k \in 1 .. Len(rows.data) : \A b : Shown(rows'.data[k], b) = Shown(rows.data[k], b)
    BY <1>1 DEF Shown
  <1>3. Apart(rows')
    <2> SUFFICES ASSUME NEW i \in 1 .. Len(rows'.data), NEW k \in 1 .. Len(rows'.data),
                        NEW a \in 1 .. Len(rows'.data[i].data), NEW b \in 1 .. Len(rows'.data[k].data),
                        Shown(rows'.data[i], a) = Shown(rows'.data[k], b), Shown(rows'.data[i], a) # 0
                 PROVE  i = k /\ a = b
      BY DEF Apart
    <2>1. /\ i \in 1 .. Len(rows.data) /\ k \in 1 .. Len(rows.data)
          /\ a \in 1 .. Len(rows.data[i].data) /\ b \in 1 .. Len(rows.data[k].data)
          /\ Shown(rows.data[i], a) = Shown(rows.data[k], b) /\ Shown(rows.data[i], a) # 0
      BY <1>1, <1>2
    <2> QED BY <2>1, ApartAt
  <1>4. NoneNew(rows')
    BY <1>1, <1>2 DEF NoneNew
  <1> QED BY <1>3, <1>4

\* A line ended puts no text in two places.
LEMMA LnApart ==
  ASSUME Whole, Apart(rows), ft_ln
  PROVE  Apart(rows')
  <1>1. \/ rows' = rows
        \/ InRow /\ rows' = SplitRow
        \/ InRow /\ rows' = VectorSet(rows, cur_row, SplitHead(vector_at(rows, cur_row), cur_col))
    BY DEF ft_ln, LnSplits, LnMoves, LnFails
  <1> QED BY <1>1, SplitApart

\* Erasing puts none in two places, and the separators go with their rows.
LEMMA EraseApart ==
  ASSUME Whole, Apart(rows), AnyErase
  PROVE  Apart(rows') /\ Under(rows', separators')
  <1> DEFINE C == CellsUpTo(last)
  <1>1. PICK top \in RowArgs, bottom \in RowArgs, left \in ColArgs, right \in ColArgs :
               ft_erase_range(top, left, bottom, right)
    BY DEF AnyErase
  <1>2. /\ top \in Nat /\ bottom \in Nat /\ left \in Nat /\ right \in Nat
        /\ top <= bottom /\ left <= right
    BY <1>1, ArgsAre DEF ft_erase_range
  <1>3. last \in Nat /\ rows \in Vec(Vec(C)) /\ separators \in Vec(BOOLEAN)
    BY RowToWriteIs DEF Whole, IInv
  <1>4. CASE ~InTable(top, left, bottom)
    <2>1. rows' = rows /\ separators' = separators
      BY <1>1, <1>4 DEF ft_erase_range
    <2> QED BY <2>1, SameNoneNew, NoneNewUnder
  <1>5. CASE InTable(top, left, bottom)
    <2> DEFINE rs == Erased(top, left, bottom, right)
               n == Smaller(ft_row_count, bottom + 1) - top
               base == [i |-> top, rs |-> rs, sep |-> separators]
    <2>1. RemoveRows(rs, top, n)
      BY <1>1, <1>5 DEF ft_erase_range
    <2>2. /\ rs \in Vec(Vec(C)) /\ Len(rs.data) = Len(rows.data)
          /\ \A k \in 1 .. Len(rows.data) : KeptOrErased(rows.data[k], rs.data[k], left, right)
      <3>1. /\ rows \in Vec(Vec(C)) /\ left <= right
            /\ top \in Nat /\ bottom \in Nat /\ left \in Nat /\ right \in Nat
        BY <1>2, <1>3
      <3> HIDE DEF C
      <3>2. /\ Erased(top, left, bottom, right) \in Vec(Vec(C))
            /\ Len(Erased(top, left, bottom, right).data) = Len(rows.data)
            /\ \A k \in 1 .. Len(rows.data) :
                 KeptOrErased(rows.data[k], Erased(top, left, bottom, right).data[k], left, right)
        BY <3>1, ErasedIs
      <3> QED BY <3>2
    <2>3. n \in Nat /\ top + n <= Len(rs.data)
      BY <1>2, <1>5, <2>2, LoopInTable
    <2> HIDE DEF rs, n
    <2>4. ASSUME NEW k \in 1 .. Len(rows.data)
          PROVE  /\ \A a \in 1 .. Len(rs.data[k].data) : ~(Shown(rs.data[k], a) > last)
                 /\ \A a, b \in 1 .. Len(rs.data[k].data) :
                      Shown(rs.data[k], a) = Shown(rs.data[k], b) /\ Shown(rs.data[k], a) # 0 => a = b
                 /\ \A b \in 1 .. Len(rs.data[k].data) :
                      \/ Shown(rs.data[k], b) = 0
                      \/ \E a \in 1 .. Len(rows.data[k].data) :
                           Shown(rows.data[k], a) = Shown(rs.data[k], b)
      <3> DEFINE old == rows.data[k]  new == rs.data[k]
      <3>1. old \in Vec(C) /\ new \in Vec(C)
        BY <1>3, <2>2, VecIs
      <3>2. KeptOrErased(old, new, left, right) /\ old \in Vec(AnyCell)
        BY <1>3, <2>2, <3>1, AnyCells
      <3>3. \A a, b \in 1 .. Len(old.data) :
              Shown(old, a) = Shown(old, b) /\ Shown(old, a) # 0 => a = b
        BY ApartAt
      <3> HIDE DEF old, new
      <3>4. Came(old, new)
        <4>1. CASE new = old
          <5>1. \A b \in 1 .. Len(old.data) : b <= Len(old.data)
            BY <3>1, VecIs
          <5> QED BY <3>2, <4>1, <5>1, CameSame
        <4>2. CASE left <= Len(old.data) /\ new = EraseCells(old, left, right)
          BY <1>2, <3>2, <4>2, CameErase
        <4> QED BY <3>2, <4>1, <4>2 DEF KeptOrErased
      <3>5. \A a \in 1 .. Len(new.data) : ~(Shown(new, a) > last)
        BY <1>3, <3>1, ShownIs
      <3>6. /\ \A a, b \in 1 .. Len(new.data) :
                 Shown(new, a) = Shown(new, b) /\ Shown(new, a) # 0 => a = b
            /\ \A b \in 1 .. Len(new.data) :
                 \/ Shown(new, b) = 0 \/ Shown(new, b) > last
                 \/ \E a \in 1 .. Len(old.data) : Shown(old, a) = Shown(new, b)
        BY <1>3, <3>1, <3>3, <3>4, CameApart
      <3> QED BY <3>5, <3>6 DEF old, new
    <2>5. NoneNew(rs)
      BY <2>2, <2>4 DEF NoneNew
    <2>6. Apart(rs)
      <3>1. \A k \in 1 .. Len(rs.data) :
              /\ \A a \in 1 .. Len(rs.data[k].data) : ~(Shown(rs.data[k], a) > last)
              /\ \A a, b \in 1 .. Len(rs.data[k].data) :
                   Shown(rs.data[k], a) = Shown(rs.data[k], b) /\ Shown(rs.data[k], a) # 0 => a = b
        BY <2>2, <2>4
      <3> QED BY <2>5, <3>1, TableApart
    <2>7. Under(rs, separators)
      BY <2>5, NoneNewUnder
    <2> DEFINE I == {w \in Loop(C) : Apart(w.rs) /\ Under(w.rs, w.sep)}
    <2>8. base \in I
      <3>1. base \in Loop(C)
        BY <1>2, <1>3, <2>2 DEF Loop
      <3> QED BY <2>6, <2>7, <3>1
    <2>9. ASSUME NEW w \in I, w.i < Len(w.rs.data) PROVE RemoveOne(w) \in I
      <3> DEFINE u == RemoveOne(w)
      <3>1. w \in Loop(C) /\ Apart(w.rs) /\ Under(w.rs, w.sep)
        OBVIOUS
      <3> HIDE DEF C
      <3>2. /\ u \in Loop(C)
            /\ \/ u.rs = w.rs /\ u.sep = w.sep
               \/ /\ u.rs = vector_erase(w.rs, w.i)
                  /\ u.sep = IF w.i < Len(w.sep.data) THEN vector_erase(w.sep, w.i) ELSE w.sep
        BY <2>9, <3>1, RemoveOneIs
      <3> HIDE DEF u
      <3>3. Apart(u.rs) /\ Under(u.rs, u.sep)
        <4>1. CASE u.rs = w.rs /\ u.sep = w.sep
          BY <3>1, <4>1
        <4>2. CASE /\ u.rs = vector_erase(w.rs, w.i)
                   /\ u.sep = IF w.i < Len(w.sep.data) THEN vector_erase(w.sep, w.i) ELSE w.sep
          <5>1. w.rs \in Vec(Vec(C)) /\ w.sep \in Vec(BOOLEAN) /\ w.i \in Nat
            BY <3>1 DEF Loop
          <5> DEFINE B == BOOLEAN
          <5>2. w.sep \in Vec(B)
            BY <5>1
          <5> HIDE DEF B
          <5> QED BY <2>9, <3>1, <4>2, <5>1, <5>2, EraseUnder
        <4> QED BY <3>2, <4>1, <4>2
      <3> QED BY <3>2, <3>3 DEF u
    <2>10. I \in SUBSET Loop(C)
      OBVIOUS
    <2> HIDE DEF I, C
    <2>11. \E w \in I : rows' = w.rs /\ separators' = w.sep
      BY <1>2, <1>3, <2>1, <2>2, <2>3, <2>8, <2>9, <2>10, RemoveRule
    <2> QED BY <2>11 DEF I
  <1> QED BY <1>4, <1>5

\* The texts of row i, and whether one of them is below a separator.
TextIn(rs, i) == {c.text : c \in Range(rs.data[i].data) \ {Junk}} \ {0}

AboveIn(rs, sep, x) ==
  \E i \in DOMAIN rs.data \cap DOMAIN sep.data : x \in TextIn(rs, i) /\ sep.data[i]

\* The texts of a row are those it shows.
LEMMA TextInIs ==
  ASSUME NEW S, NEW rs \in Vec(Vec(S)), NEW i \in 1 .. Len(rs.data), NEW x
  PROVE  x \in TextIn(rs, i) <=> /\ x # 0
                                 /\ \E j \in 1 .. Len(rs.data[i].data) : Shown(rs.data[i], j) = x
  <1> DEFINE d == rs.data[i].data
  <1>1. DOMAIN d = 1 .. Len(d)
    <2>1. rs.data[i] \in Vec(S)
      BY VecIs
    <2> QED BY <2>1, VecIs
  <1>2. \A j : Shown(rs.data[i], j) = IF d[j] = Junk THEN 0 ELSE d[j].text
    BY DEF Shown
  <1>3. TextIn(rs, i) = {c.text : c \in Range(d) \ {Junk}} \ {0}
    BY DEF TextIn
  <1>4. Range(d) = {d[j] : j \in DOMAIN d}
    BY DEF Range
  <1> HIDE DEF d
  <1>5. x \in TextIn(rs, i) <=> x # 0 /\ \E j \in 1 .. Len(d) : d[j] # Junk /\ d[j].text = x
    BY <1>1, <1>3, <1>4
  <1>6. x # 0 => \A j : Shown(rs.data[i], j) = x <=> d[j] # Junk /\ d[j].text = x
    BY <1>2
  <1> QED BY <1>5, <1>6 DEF d

\* A text is below a separator if its row is.
LEMMA AboveInIs ==
  ASSUME NEW S, NEW rs \in Vec(Vec(S)), NEW sep \in Vec(BOOLEAN), NEW x
  PROVE  AboveIn(rs, sep, x) <=>
           \E i \in 1 .. Len(rs.data) :
             /\ x # 0 /\ \E j \in 1 .. Len(rs.data[i].data) : Shown(rs.data[i], j) = x
             /\ Sep(sep, i)
  <1>1. DOMAIN rs.data = 1 .. Len(rs.data)
    BY VecIs
  <1>2. \A i \in DOMAIN sep.data : sep.data[i] \in BOOLEAN
    <2> DEFINE B == BOOLEAN
    <2>1. sep \in Vec(B)
      OBVIOUS
    <2>2. \A i \in DOMAIN sep.data : sep.data[i] \in B
      <3> HIDE DEF B
      <3> QED BY <2>1, VecIs
    <2> QED BY <2>2
  <1>3. \A i : i \in DOMAIN sep.data /\ sep.data[i] <=> Sep(sep, i)
    BY <1>2, Zenon DEF Sep
  <1>4. AboveIn(rs, sep, x) <=> \E i \in 1 .. Len(rs.data) : x \in TextIn(rs, i) /\ Sep(sep, i)
    BY <1>1, <1>3, Zenon DEF AboveIn
  <1> QED BY <1>4, TextInIs

\* What shows its old texts below separators as they were keeps every text below
\* one, or below none.
LEMMA Stay ==
  ASSUME IInv, IInv', Whole, Apart(rows), Under(rows', separators'),
         NEW x \in Texts \cap Texts'
  PROVE  SeparatorAbove(x) <=> SeparatorAbove(x)'
  <1> DEFINE C == CellsUpTo(last)  us == rows'  sep == separators'
             At(rs, i) == \E j \in 1 .. Len(rs.data[i].data) : Shown(rs.data[i], j) = x
  <1>1. /\ last \in Nat /\ rows \in Vec(Vec(C)) /\ separators \in Vec(BOOLEAN)
        /\ us \in Vec(Vec(HeldOf(last', strayed'))) /\ sep \in Vec(BOOLEAN)
    BY DEF Whole, IInv
  <1>2. /\ DOMAIN rows.data = 1 .. Len(rows.data) /\ DOMAIN us.data = 1 .. Len(us.data)
    BY <1>1, VecIs
  <1>3. PICK p \in 1 .. Len(rows.data) : x # 0 /\ At(rows, p)
    <2>1. PICK p \in DOMAIN rows.data : x \in TextIn(rows, p)
      BY DEF Texts, TextAt, TextIn
    <2> QED BY <1>1, <1>2, <2>1, TextInIs
  <1>4. PICK q \in 1 .. Len(us.data) : At(us, q)
    <2>1. PICK q \in DOMAIN us.data : x \in TextIn(us, q)
      BY DEF Texts, TextAt, TextIn
    <2>2. q \in 1 .. Len(us.data)
      BY <1>2
    <2> HIDE DEF us
    <2> QED BY <1>1, <2>1, <2>2, TextInIs
  <1>5. ~(x > last)
    <2>1. PICK j \in 1 .. Len(rows.data[p].data) : Shown(rows.data[p], j) = x
      BY <1>3
    <2>2. rows.data[p] \in Vec(C)
      BY <1>1, VecIs
    <2>3. x \in 0 .. last
      BY <1>1, <2>1, <2>2, ShownIs
    <2> QED BY <1>1, <2>3
  <1>6. \A i, k \in 1 .. Len(rows.data) : At(rows, i) /\ At(rows, k) => i = k
    <2> SUFFICES ASSUME NEW i \in 1 .. Len(rows.data), NEW k \in 1 .. Len(rows.data),
                        NEW a \in 1 .. Len(rows.data[i].data), Shown(rows.data[i], a) = x,
                        NEW b \in 1 .. Len(rows.data[k].data), Shown(rows.data[k], b) = x
                 PROVE  i = k
      OBVIOUS
    <2>1. Shown(rows.data[i], a) = Shown(rows.data[k], b) /\ Shown(rows.data[i], a) # 0
      BY <1>3
    <2> QED BY <2>1, ApartAt
  <1>7. \A k \in 1 .. Len(us.data) : At(us, k) =>
          \E i \in 1 .. Len(rows.data) : At(rows, i) /\ (Sep(sep, k) <=> Sep(separators, i))
    <2> SUFFICES ASSUME NEW k \in 1 .. Len(us.data),
                        NEW b \in 1 .. Len(us.data[k].data), Shown(us.data[k], b) = x
                 PROVE  \E i \in 1 .. Len(rows.data) :
                          At(rows, i) /\ (Sep(sep, k) <=> Sep(separators, i))
      OBVIOUS
    <2>1. \/ Shown(us.data[k], b) = 0 \/ Shown(us.data[k], b) > last
          \/ \E i \in 1 .. Len(rows.data) :
               /\ \E a \in 1 .. Len(rows.data[i].data) :
                    Shown(rows.data[i], a) = Shown(us.data[k], b)
               /\ Sep(sep, k) <=> Sep(separators, i)
      BY DEF Under
    <2> QED BY <1>3, <1>5, <2>1
  <1>8. SeparatorAbove(x) <=> \E i \in 1 .. Len(rows.data) : At(rows, i) /\ Sep(separators, i)
    <2>1. SeparatorAbove(x) <=> AboveIn(rows, separators, x)
      BY DEF SeparatorAbove, AboveIn, TextAt, TextIn
    <2> QED BY <1>1, <1>3, <2>1, AboveInIs
  <1>9. SeparatorAbove(x)' <=> \E k \in 1 .. Len(us.data) : At(us, k) /\ Sep(sep, k)
    <2>1. SeparatorAbove(x)' <=> AboveIn(us, sep, x)
      BY DEF SeparatorAbove, AboveIn, TextAt, TextIn
    <2> HIDE DEF us, sep
    <2> QED BY <1>1, <1>3, <2>1, AboveInIs
  <1> HIDE DEF At, us, sep
  <1> QED BY <1>3, <1>4, <1>6, <1>7, <1>8, <1>9

\* Rows that are lost leave the others apart.
LEMMA LostApart ==
  ASSUME Whole, Apart(rows), GrowthFails
  PROVE  Apart(rows')
  <1>1. CASE rows' = rows
    BY <1>1
  <1>2. CASE rows' = Nowhere
    <2>1. Len(rows'.data) = 0 /\ 1 .. 0 = {}
      BY <1>2 DEF Nowhere
    <2> QED BY <2>1 DEF Apart
  <1>3. ASSUME NEW r \in 0 .. MaxRows - 1, rows' = WithRow(r, Nowhere) PROVE Apart(rows')
    <2>1. r \in Nat /\ Len(rows.data) \in Nat
      BY FortAssumption, VecIs DEF Whole
    <2>2. /\ Len(rows'.data) \in Nat
          /\ \A j \in 1 .. Len(rows'.data) :
               rows'.data[j] = IF j = r + 1 THEN Nowhere
                               ELSE IF j <= Len(rows.data) THEN rows.data[j] ELSE create_row
      BY <1>3, <2>1, RowLostIs, VecIs
    <2>3. Len(Nowhere.data) = 0 /\ Len(create_row.data) = 0 /\ 1 .. 0 = {}
      BY DEF Nowhere, create_row, create_vector
    <2>4. ASSUME NEW j \in 1 .. Len(rows'.data), NEW a \in 1 .. Len(rows'.data[j].data)
          PROVE  j \in 1 .. Len(rows.data) /\ rows'.data[j] = rows.data[j]
      <3>0. Len(rows'.data[j].data) # 0
        BY <2>3
      <3>1. rows'.data[j] # Nowhere /\ rows'.data[j] # create_row
        <4> DEFINE row == rows'.data[j]  n == Len(row.data)
        <4>1. n # 0 /\ (row = Nowhere => n = Len(Nowhere.data))
              /\ (row = create_row => n = Len(create_row.data))
          BY <3>0
        <4> HIDE DEF n, row
        <4>2. row # Nowhere /\ row # create_row
          BY <2>3, <4>1
        <4> QED BY <4>2 DEF row
      <3> QED BY <2>1, <2>2, <3>1
    <2> SUFFICES ASSUME NEW i \in 1 .. Len(rows'.data), NEW k \in 1 .. Len(rows'.data),
                        NEW a \in 1 .. Len(rows'.data[i].data), NEW b \in 1 .. Len(rows'.data[k].data),
                        Shown(rows'.data[i], a) = Shown(rows'.data[k], b), Shown(rows'.data[i], a) # 0
                 PROVE  i = k /\ a = b
      BY DEF Apart
    <2>5. /\ i \in 1 .. Len(rows.data) /\ k \in 1 .. Len(rows.data)
          /\ rows'.data[i] = rows.data[i] /\ rows'.data[k] = rows.data[k]
      BY <2>4
    <2>6. /\ a \in 1 .. Len(rows.data[i].data) /\ b \in 1 .. Len(rows.data[k].data)
          /\ Shown(rows.data[i], a) = Shown(rows.data[k], b) /\ Shown(rows.data[i], a) # 0
      BY <2>5
    <2> QED BY <2>5, <2>6, ApartAt
  <1> QED BY <1>1, <1>2, <1>3, GrowthIs

\* The invariant, with each text in one place.
SInv == FInv /\ Apart(rows)

\* A table just made shows nothing, and every call keeps its texts apart.
LEMMA SInvStep == (Init => SInv) /\ (SInv /\ [Next]_vars => SInv')
  <1>1. ASSUME Init PROVE SInv
    <2>1. Len(rows.data) = 0 /\ 1 .. 0 = {}
      BY <1>1 DEF Init, create_vector
    <2> QED BY <1>1, <2>1, IInvInit DEF SInv, FInv, Apart
  <1>2. ASSUME SInv, [Next]_vars PROVE SInv'
    <2>1. FInv'
      BY <1>2, FInvStep DEF SInv
    <2>2. ASSUME rows' = rows PROVE SInv'
      BY <1>2, <2>1, <2>2 DEF SInv
    <2>3. CASE Next
      <3>1. Whole /\ Apart(rows)
        BY <1>2, <2>3, NextWhole DEF SInv
      <3>2. CASE Call \/ ft_set_cur_cell \/ ft_set_tbl_prop \/ ft_add_separator
        BY <2>2, <3>2 DEF Call, ft_set_cur_cell, ft_set_tbl_prop, ft_add_separator
      <3>3. CASE ft_write \/ ft_printf \/ ft_ln \/ ft_copy_table \/ AnySpan \/ AnyErase \/ GrowthFails
        <4>1. Apart(rows')
          BY <3>1, <3>3, WriteApart, PrintfApart, LnApart, CopyApart, SpanApart, EraseApart,
             LostApart
        <4> QED BY <2>1, <4>1 DEF SInv
      <3> QED BY <2>3, <3>2, <3>3 DEF Next
    <2>4. CASE UNCHANGED vars
      BY <2>2, <2>4 DEF vars
    <2> QED BY <1>2, <2>3, <2>4
  <1> QED BY <1>1, <1>2

\* No text is ever in two cells.
THEOREM TextsApart == Spec => []SInv
BY SInvStep, PTL DEF Spec

\* A text that was below a separator stays below one, and no other comes below
\* one, whatever is written, formatted, spanned, copied or erased, completely or
\* half way (ft_erase_range takes the separators with the rows it removes);
\* ft_ln under INSERT, ft_add_separator itself, and the loss of a vector are what
\* the property leaves out.
THEOREM SeparatorsGoWithRows == Spec => SeparatorsStay
  <1> DEFINE Kept == ft_ln \/ ft_add_separator \/ GrowthFails
               \/ \A x \in Texts \cap Texts' : SeparatorAbove(x) <=> SeparatorAbove(x)'
  <1>1. SInv /\ [Next]_vars => [Kept]_vars
    <2> SUFFICES ASSUME SInv, Next, ~ft_ln, ~ft_add_separator, ~GrowthFails
                 PROVE  \A x \in Texts \cap Texts' : SeparatorAbove(x) <=> SeparatorAbove(x)'
      BY DEF vars
    <2>1. Whole /\ Apart(rows) /\ IInv /\ IInv'
      BY NextWhole, IInvStep DEF SInv
    <2>2. ASSUME NoneNew(rows'), separators' = separators PROVE Under(rows', separators')
      BY <2>2, NoneNewUnder
    <2>3. CASE Call \/ ft_set_cur_cell \/ ft_set_tbl_prop
      BY <2>2, <2>3, SameNoneNew, Stay, <2>1 DEF Call, ft_set_cur_cell, ft_set_tbl_prop
    <2>4. CASE ft_write
      <3>1. NoneNew(rows') /\ separators' = separators
        BY <2>1, <2>4, WriteApart DEF ft_write
      <3> QED BY <2>1, <2>2, <3>1, Stay
    <2>5. CASE ft_printf
      <3>1. NoneNew(rows') /\ separators' = separators
        BY <2>1, <2>5, PrintfApart DEF ft_printf
      <3> QED BY <2>1, <2>2, <3>1, Stay
    <2>6. CASE AnySpan
      <3>1. NoneNew(rows') /\ separators' = separators
        BY <2>1, <2>6, SpanApart DEF AnySpan, ft_set_cell_span
      <3> QED BY <2>1, <2>2, <3>1, Stay
    <2>7. CASE ft_copy_table
      <3>1. NoneNew(rows') /\ separators'.data = separators.data
        BY <2>1, <2>7, CopyApart, CopyStep
      <3>2. Under(rows', separators')
        BY <3>1, NoneNewUnder
      <3> QED BY <2>1, <3>2, Stay
    <2>8. CASE AnyErase
      <3>1. Under(rows', separators')
        BY <2>1, <2>8, EraseApart
      <3> QED BY <2>1, <3>1, Stay
    <2> QED BY <2>3, <2>4, <2>5, <2>6, <2>7, <2>8 DEF Next
  <1> QED BY <1>1, TextsApart, PTL DEF Spec, SeparatorsStay

-----------------------------------------------------------------------------
(* The texts are where module FortGrid says *)

\* Column c of a row shows the text x.
ShowsAt(row, c, x) == c \in Nat /\ c < Len(row.data) /\ x = Shown(row, c + 1) /\ x # 0

\* In a table, row r does so.
PlacedAt(rs, r, c, x) == r \in Nat /\ r < Len(rs.data) /\ ShowsAt(rs.data[r + 1], c, x)

Place(r, c, x) == [row |-> r, col |-> c, text |-> x]

ArePlaces(P) == \A t \in P : t = Place(t.row, t.col, t.text)

\* The texts of a table are those its rows show.
LEMMA PlacedIs ==
  ASSUME NEW S, NEW rs \in Vec(Vec(S))
  PROVE  /\ ArePlaces(Placed(rs))
         /\ \A r, c, x : Place(r, c, x) \in Placed(rs) <=> PlacedAt(rs, r, c, x)
  <1>1. vector_size(rs) = Len(rs.data) /\ Len(rs.data) \in Nat
    BY VecIs
  <1>2. ASSUME NEW r \in 0 .. Len(rs.data) - 1
        PROVE  TextsOfRow(r, vector_at(rs, r)) =
                 {Place(r, c, Shown(rs.data[r + 1], c + 1)) : c \in 0 .. Len(rs.data[r + 1].data) - 1}
    <2>1. r + 1 \in 1 .. Len(rs.data)
      BY <1>1
    <2>2. rs.data[r + 1] \in Vec(S)
      BY <2>1, VecIs
    <2>3. columns_in_row(rs.data[r + 1]) = Len(rs.data[r + 1].data)
      BY <2>2, VecIs DEF columns_in_row
    <2> QED BY <2>3 DEF TextsOfRow, vector_at, CellText, Shown, Place
  <1>3. \A t : t \in Placed(rs) <=>
          \E r \in 0 .. Len(rs.data) - 1 : \E c \in 0 .. Len(rs.data[r + 1].data) - 1 :
            t = Place(r, c, Shown(rs.data[r + 1], c + 1)) /\ t.text # 0
    BY <1>1, <1>2 DEF Placed
  <1>4. ArePlaces(Placed(rs))
    BY <1>3 DEF ArePlaces, Place
  <1>5. ASSUME NEW r, NEW c, NEW x
        PROVE  Place(r, c, x) \in Placed(rs) <=> PlacedAt(rs, r, c, x)
    <2>1. ASSUME Place(r, c, x) \in Placed(rs) PROVE PlacedAt(rs, r, c, x)
      <3>0. PICK q \in 0 .. Len(rs.data) - 1 : \E d \in 0 .. Len(rs.data[q + 1].data) - 1 :
              Place(r, c, x) = Place(q, d, Shown(rs.data[q + 1], d + 1)) /\ Place(r, c, x).text # 0
        BY <1>3, <2>1
      <3>1. PICK d \in 0 .. Len(rs.data[q + 1].data) - 1 :
              Place(r, c, x) = Place(q, d, Shown(rs.data[q + 1], d + 1)) /\ Place(r, c, x).text # 0
        BY <3>0
      <3>2. r = q /\ c = d /\ x = Shown(rs.data[q + 1], d + 1) /\ x # 0
        BY <3>1 DEF Place
      <3>3. rs.data[q + 1] \in Vec(S)
        <4>1. q + 1 \in 1 .. Len(rs.data)
          BY <1>1
        <4> QED BY <4>1, VecIs
      <3>4. Len(rs.data[q + 1].data) \in Nat
        BY <3>3, VecIs
      <3>5. q \in Nat /\ q < Len(rs.data) /\ d \in Nat /\ d < Len(rs.data[q + 1].data)
        BY <1>1, <3>4
      <3> QED BY <3>2, <3>5 DEF PlacedAt, ShowsAt
    <2>2. ASSUME PlacedAt(rs, r, c, x) PROVE Place(r, c, x) \in Placed(rs)
      <3>1. /\ r \in Nat /\ r < Len(rs.data)
            /\ c \in Nat /\ c < Len(rs.data[r + 1].data) /\ x = Shown(rs.data[r + 1], c + 1) /\ x # 0
        BY <2>2 DEF PlacedAt, ShowsAt
      <3>2. rs.data[r + 1] \in Vec(S)
        <4>1. r + 1 \in 1 .. Len(rs.data)
          BY <1>1, <3>1
        <4> QED BY <4>1, VecIs
      <3>3. Len(rs.data[r + 1].data) \in Nat
        BY <3>2, VecIs
      <3>4. r \in 0 .. Len(rs.data) - 1 /\ c \in 0 .. Len(rs.data[r + 1].data) - 1
        BY <1>1, <3>1, <3>3
      <3>5. Place(r, c, x).text # 0
        BY <3>1 DEF Place
      <3> QED BY <1>3, <3>1, <3>4, <3>5
    <2> QED BY <2>1, <2>2
  <1> QED BY <1>4, <1>5

\* Places are the same if the same texts are at each.
LEMMA SamePlaces ==
  ASSUME NEW P, NEW Q, ArePlaces(P), ArePlaces(Q),
         \A r, c, x : Place(r, c, x) \in P <=> Place(r, c, x) \in Q
  PROVE  P = Q
  <1>1. \A t \in P : t \in Q
    BY DEF ArePlaces
  <1>2. \A t \in Q : t \in P
    BY DEF ArePlaces
  <1> QED BY <1>1, <1>2

\* Row r as the calls get it shows what the table has placed in it.
LEMMA RowAtShows ==
  ASSUME Whole, NEW r \in Nat, NEW c, NEW x
  PROVE  ShowsAt(vector_at(RowsTo(r + 1), r), c, x) <=> PlacedAt(rows, r, c, x)
  <1> DEFINE C == CellsUpTo(last)  old == vector_at(RowsTo(r + 1), r)  m == Len(rows.data)
  <1>1. rows \in Vec(Vec(C)) /\ m \in Nat
    BY VecIs DEF Whole
  <1>2. old = IF r + 1 <= m THEN rows.data[r + 1] ELSE create_row
    <2> HIDE DEF C
    <2> QED BY <1>1, RowAtIs
  <1>3. Len(create_row.data) = 0
    BY NewRowIs
  <1> HIDE DEF old
  <1>4. ASSUME r + 1 <= m PROVE ShowsAt(old, c, x) <=> PlacedAt(rows, r, c, x)
    <2>1. r < m /\ old = rows.data[r + 1]
      BY <1>1, <1>2, <1>4
    <2> QED BY <2>1 DEF PlacedAt
  <1>5. ASSUME ~(r + 1 <= m) PROVE ShowsAt(old, c, x) <=> PlacedAt(rows, r, c, x)
    <2>1. ~(r < m) /\ Len(old.data) = 0
      BY <1>1, <1>2, <1>3, <1>5
    <2>2. ~ShowsAt(old, c, x)
      BY <2>1 DEF ShowsAt
    <2> QED BY <2>1, <2>2 DEF PlacedAt
  <1> QED BY <1>4, <1>5 DEF old

\* Rows that are made show nothing.
LEMMA PlacedRowsTo ==
  ASSUME Whole, NEW n \in Nat
  PROVE  Placed(RowsTo(n)) = Placed(rows)
  <1> DEFINE C == CellsUpTo(last)  us == RowsTo(n)  m == Len(rows.data)
  <1>1. rows \in Vec(Vec(C)) /\ m \in Nat
    BY VecIs DEF Whole
  <1>2. /\ us \in Vec(Vec(C)) /\ Len(us.data) = Larger(n, m)
        /\ \A k \in 1 .. Len(us.data) :
             us.data[k] = IF k <= m THEN rows.data[k] ELSE create_row
    <2> HIDE DEF C
    <2> QED BY <1>1, RowsToIs
  <1>3. Len(create_row.data) = 0
    BY NewRowIs
  <1> HIDE DEF us
  <1>4. ASSUME NEW r, NEW c, NEW x
        PROVE  PlacedAt(us, r, c, x) <=> PlacedAt(rows, r, c, x)
    <2>1. ASSUME PlacedAt(us, r, c, x) PROVE PlacedAt(rows, r, c, x)
      <3>1. r \in Nat /\ r < Len(us.data) /\ ShowsAt(us.data[r + 1], c, x)
        BY <2>1 DEF PlacedAt
      <3>2. r + 1 \in 1 .. Len(us.data)
        BY <1>1, <1>2, <3>1 DEF Larger
      <3>3. CASE r + 1 <= m
        <4>1. us.data[r + 1] = rows.data[r + 1] /\ r < m
          BY <1>1, <1>2, <3>1, <3>2, <3>3
        <4> QED BY <3>1, <4>1 DEF PlacedAt
      <3>4. CASE ~(r + 1 <= m)
        <4>1. us.data[r + 1] = create_row
          BY <1>2, <3>2, <3>4
        <4>2. ~ShowsAt(create_row, c, x)
          BY <1>3 DEF ShowsAt
        <4> QED BY <3>1, <4>1, <4>2
      <3> QED BY <3>3, <3>4
    <2>2. ASSUME PlacedAt(rows, r, c, x) PROVE PlacedAt(us, r, c, x)
      <3>1. r \in Nat /\ r < m /\ ShowsAt(rows.data[r + 1], c, x)
        BY <2>2 DEF PlacedAt
      <3>2. r + 1 \in 1 .. Len(us.data) /\ r < Len(us.data) /\ r + 1 <= m
        BY <1>1, <1>2, <3>1 DEF Larger
      <3>3. us.data[r + 1] = rows.data[r + 1]
        BY <1>2, <3>2
      <3> QED BY <3>1, <3>2, <3>3 DEF PlacedAt
    <2> QED BY <2>1, <2>2
  <1>5. /\ ArePlaces(Placed(us)) /\ ArePlaces(Placed(rows))
        /\ \A r, c, x : Place(r, c, x) \in Placed(us) <=> PlacedAt(us, r, c, x)
        /\ \A r, c, x : Place(r, c, x) \in Placed(rows) <=> PlacedAt(rows, r, c, x)
    BY <1>1, <1>2, PlacedIs
  <1>6. \A r, c, x : Place(r, c, x) \in Placed(us) <=> Place(r, c, x) \in Placed(rows)
    BY <1>4, <1>5
  <1> DEFINE P == Placed(us)  Q == Placed(rows)
  <1> HIDE DEF P, Q
  <1>7. P = Q
    BY <1>5, <1>6, SamePlaces DEF P, Q
  <1> QED BY <1>7 DEF P, Q, us

\* A row that becomes another one shows that, and the other rows what they did.
LEMMA PlacedWithRow ==
  ASSUME Whole, NEW n \in Nat, NEW new \in Vec(AnyCell)
  PROVE  /\ ArePlaces(Placed(WithRow(n, new)))
         /\ \A r, c, x : Place(r, c, x) \in Placed(WithRow(n, new)) <=>
              \/ r = n /\ ShowsAt(new, c, x)
              \/ r # n /\ PlacedAt(rows, r, c, x)
  <1> DEFINE C == CellsUpTo(last)  us == WithRow(n, new)  m == Len(rows.data)
  <1>1. rows \in Vec(Vec(C)) /\ m \in Nat /\ C \subseteq AnyCell
    BY VecIs DEF Whole, CellsUpTo, AnyCell
  <1>2. /\ us \in Vec(Vec(AnyCell)) /\ Len(us.data) = Larger(n + 1, m)
        /\ \A k \in 1 .. Len(us.data) :
             us.data[k] = IF k = n + 1 THEN new
                          ELSE IF k <= m THEN rows.data[k] ELSE create_row
    <2> HIDE DEF C
    <2> QED BY <1>1, WithRowIs
  <1>3. Len(create_row.data) = 0
    BY NewRowIs
  <1> HIDE DEF us
  <1>4. ASSUME NEW r, NEW c, NEW x
        PROVE  PlacedAt(us, r, c, x) <=> \/ r = n /\ ShowsAt(new, c, x)
                                         \/ r # n /\ PlacedAt(rows, r, c, x)
    <2>1. CASE r = n
      <3>1. n + 1 \in 1 .. Len(us.data) /\ n < Len(us.data)
        BY <1>1, <1>2 DEF Larger
      <3>2. us.data[n + 1] = new
        BY <1>2, <3>1
      <3> QED BY <2>1, <3>1, <3>2 DEF PlacedAt
    <2>2. ASSUME r # n, PlacedAt(us, r, c, x) PROVE PlacedAt(rows, r, c, x)
      <3>1. r \in Nat /\ r < Len(us.data) /\ ShowsAt(us.data[r + 1], c, x)
        BY <2>2 DEF PlacedAt
      <3>2. r + 1 \in 1 .. Len(us.data) /\ r + 1 # n + 1
        BY <1>1, <1>2, <2>2, <3>1 DEF Larger
      <3>3. CASE r + 1 <= m
        <4>1. us.data[r + 1] = rows.data[r + 1] /\ r < m
          BY <1>1, <1>2, <3>1, <3>2, <3>3
        <4> QED BY <3>1, <4>1 DEF PlacedAt
      <3>4. CASE ~(r + 1 <= m)
        <4>1. us.data[r + 1] = create_row
          BY <1>2, <3>2, <3>4
        <4>2. ~ShowsAt(create_row, c, x)
          BY <1>3 DEF ShowsAt
        <4> QED BY <3>1, <4>1, <4>2
      <3> QED BY <3>3, <3>4
    <2>3. ASSUME r # n, PlacedAt(rows, r, c, x) PROVE PlacedAt(us, r, c, x)
      <3>1. r \in Nat /\ r < m /\ ShowsAt(rows.data[r + 1], c, x)
        BY <2>3 DEF PlacedAt
      <3>2. r + 1 \in 1 .. Len(us.data) /\ r < Len(us.data) /\ r + 1 <= m /\ r + 1 # n + 1
        BY <1>1, <1>2, <2>3, <3>1 DEF Larger
      <3>3. us.data[r + 1] = rows.data[r + 1]
        BY <1>2, <3>2
      <3> QED BY <3>1, <3>2, <3>3 DEF PlacedAt
    <2> QED BY <2>1, <2>2, <2>3
  <1>5. /\ ArePlaces(Placed(us))
        /\ \A r, c, x : Place(r, c, x) \in Placed(us) <=> PlacedAt(us, r, c, x)
    BY <1>2, PlacedIs
  <1> QED BY <1>4, <1>5 DEF us

\* A row that shows the same leaves all texts where they are.
LEMMA RowSame ==
  ASSUME Whole, NEW r \in Nat, NEW new \in Vec(AnyCell),
         \A c, x : ShowsAt(new, c, x) <=> ShowsAt(vector_at(RowsTo(r + 1), r), c, x)
  PROVE  Placed(WithRow(r, new)) = Placed(rows)
  <1> DEFINE P == Placed(WithRow(r, new))  Q == Placed(rows)
  <1>1. /\ ArePlaces(P)
        /\ \A q, c, x : Place(q, c, x) \in P <=> \/ q = r /\ ShowsAt(new, c, x)
                                                 \/ q # r /\ PlacedAt(rows, q, c, x)
    BY PlacedWithRow
  <1>2. \A c, x : ShowsAt(new, c, x) <=> PlacedAt(rows, r, c, x)
    BY RowAtShows
  <1>3. ArePlaces(Q) /\ \A q, c, x : Place(q, c, x) \in Q <=> PlacedAt(rows, q, c, x)
    BY PlacedIs DEF Whole
  <1> HIDE DEF P, Q
  <1>4. \A q, c, x : Place(q, c, x) \in P <=> Place(q, c, x) \in Q
    BY <1>1, <1>2, <1>3
  <1>5. P = Q
    BY <1>1, <1>3, <1>4, SamePlaces
  <1> QED BY <1>5 DEF P, Q

\* The texts module FortGrid leaves when n places are needed, place by place.
OtherAt(n, r, c, x) ==
  /\ c \in Nat
  /\ \/ (r # cur_row \/ c < cur_col) /\ PlacedAt(rows, r, c, x)
     \/ /\ r = cur_row /\ c >= cur_col + n
        /\ PlacedAt(rows, r, IF add_strategy = "INSERT" THEN c - n ELSE c, x)

\* What is placed has a row and a column.
LEMMA PlacesOf ==
  ASSUME Whole, NEW t \in Placed(rows)
  PROVE  /\ t = Place(t.row, t.col, t.text) /\ PlacedAt(rows, t.row, t.col, t.text)
         /\ t.row \in Nat /\ t.col \in Nat
  <1>1. /\ ArePlaces(Placed(rows))
        /\ \A r, c, x : Place(r, c, x) \in Placed(rows) <=> PlacedAt(rows, r, c, x)
    BY PlacedIs DEF Whole
  <1>2. t = Place(t.row, t.col, t.text)
    BY <1>1 DEF ArePlaces
  <1>3. PlacedAt(rows, t.row, t.col, t.text)
    BY <1>1, <1>2
  <1> QED BY <1>2, <1>3 DEF PlacedAt, ShowsAt

\* So they are.
LEMMA OthersAre ==
  ASSUME Whole, NEW n \in Nat
  PROVE  /\ ArePlaces(Grid!Others(n))
         /\ \A r, c, x : Place(r, c, x) \in Grid!Others(n) <=> OtherAt(n, r, c, x)
  <1> DEFINE P == Placed(rows)
  <1>1. cur_row \in Nat /\ cur_col \in Nat
    BY RowToWriteIs
  <1>2. \A r, c, x : Place(r, c, x) \in P <=> PlacedAt(rows, r, c, x)
    BY PlacedIs DEF Whole
  <1>3. \A t \in P : /\ t = Place(t.row, t.col, t.text) /\ PlacedAt(rows, t.row, t.col, t.text)
                     /\ t.row \in Nat /\ t.col \in Nat
    BY PlacesOf
  <1>4. CASE add_strategy = "INSERT"
    <2> DEFINE To(t) == IF t.row = cur_row /\ t.col >= cur_col THEN Place(t.row, t.col + n, t.text) ELSE t
    <2>1. Grid!Others(n) = {To(t) : t \in P}
      BY <1>4 DEF Grid!Others, Grid!Behind, Grid!At, Place
    <2> HIDE DEF P
    <2>2. \A t \in P : To(t) = Place(To(t).row, To(t).col, To(t).text)
      BY <1>3 DEF Place
    <2>3. ASSUME NEW r, NEW c, NEW x, NEW t \in P, Place(r, c, x) = To(t)
          PROVE  OtherAt(n, r, c, x)
      <3>1. /\ t = Place(t.row, t.col, t.text) /\ PlacedAt(rows, t.row, t.col, t.text)
            /\ t.row \in Nat /\ t.col \in Nat
        BY <1>3
      <3>2. CASE t.row = cur_row /\ t.col >= cur_col
        <4>1. r = t.row /\ c = t.col + n /\ x = t.text
          BY <2>3, <3>2 DEF Place
        <4>2. c - n = t.col /\ c \in Nat /\ c >= cur_col + n
          BY <1>1, <3>1, <3>2, <4>1
        <4> QED BY <1>4, <3>1, <3>2, <4>1, <4>2 DEF OtherAt
      <3>3. CASE ~(t.row = cur_row /\ t.col >= cur_col)
        <4>1. r = t.row /\ c = t.col /\ x = t.text
          BY <2>3, <3>1, <3>3 DEF Place
        <4> QED BY <1>1, <3>1, <3>3, <4>1 DEF OtherAt
      <3> QED BY <3>2, <3>3
    <2>4. ASSUME NEW r, NEW c, NEW x, OtherAt(n, r, c, x)
          PROVE  \E t \in P : Place(r, c, x) = To(t)
      <3>1. CASE (r # cur_row \/ c < cur_col) /\ PlacedAt(rows, r, c, x)
        <4>1. Place(r, c, x) \in P
          BY <1>2, <3>1
        <4>2. ~(r = cur_row /\ c >= cur_col)
          BY <1>1, <2>4, <3>1 DEF OtherAt
        <4>3. To(Place(r, c, x)) = Place(r, c, x)
          BY <4>2 DEF Place
        <4> QED BY <4>1, <4>3
      <3>2. CASE r = cur_row /\ c >= cur_col + n /\ PlacedAt(rows, r, c - n, x)
        <4>1. Place(r, c - n, x) \in P
          BY <1>2, <3>2
        <4>2. c - n >= cur_col /\ (c - n) + n = c
          BY <1>1, <2>4, <3>2 DEF OtherAt
        <4>3. To(Place(r, c - n, x)) = Place(r, c, x)
          BY <3>2, <4>2 DEF Place
        <4> QED BY <4>1, <4>3
      <3> QED BY <1>4, <2>4, <3>1, <3>2 DEF OtherAt
    <2> HIDE DEF To
    <2>5. \A r, c, x : Place(r, c, x) \in Grid!Others(n) <=> \E t \in P : Place(r, c, x) = To(t)
      BY <2>1
    <2>6. ArePlaces(Grid!Others(n))
      BY <2>1, <2>2 DEF ArePlaces
    <2> QED BY <2>3, <2>4, <2>5, <2>6
  <1>5. CASE add_strategy # "INSERT"
    <2>1. Grid!Others(n) = {t \in P : ~(t.row = cur_row /\ t.col >= cur_col /\ t.col < cur_col + n)}
      BY <1>5 DEF Grid!Others, Grid!Behind
    <2> HIDE DEF P
    <2>2. ArePlaces(Grid!Others(n))
      BY <1>3, <2>1 DEF ArePlaces
    <2>3. ASSUME NEW r, NEW c, NEW x
          PROVE  Place(r, c, x) \in Grid!Others(n) <=> OtherAt(n, r, c, x)
      <3>1. Place(r, c, x) \in Grid!Others(n) <=>
              /\ PlacedAt(rows, r, c, x)
              /\ ~(r = cur_row /\ c >= cur_col /\ c < cur_col + n)
        BY <1>2, <2>1 DEF Place
      <3>2. PlacedAt(rows, r, c, x) => c \in Nat
        BY DEF PlacedAt, ShowsAt
      <3>3. OtherAt(n, r, c, x) <=>
              /\ c \in Nat
              /\ \/ (r # cur_row \/ c < cur_col) /\ PlacedAt(rows, r, c, x)
                 \/ r = cur_row /\ c >= cur_col + n /\ PlacedAt(rows, r, c, x)
        BY <1>5 DEF OtherAt
      <3> QED BY <1>1, <3>1, <3>2, <3>3
    <2> QED BY <2>2, <2>3
  <1> QED BY <1>4, <1>5

\* In the row `new` n places were made at the cursor of the row `old`, the first
\* m of them with the next texts.
PutIn(old, new, n, m) ==
  \A c, x : ShowsAt(new, c, x) <=>
    /\ c \in Nat
    /\ \/ c < cur_col /\ ShowsAt(old, c, x)
       \/ c \in cur_col .. cur_col + m - 1 /\ x = last + (c - cur_col + 1)
       \/ c >= cur_col + n /\ ShowsAt(old, IF add_strategy = "INSERT" THEN c - n ELSE c, x)

\* Then the table holds what module FortGrid says.
LEMMA RowPut ==
  ASSUME Whole, NEW n \in Nat, NEW m \in 0 .. n, NEW new \in Vec(AnyCell),
         PutIn(RowToWrite, new, n, m)
  PROVE  Placed(WithRow(cur_row, new)) =
           Grid!Others(n) \cup {Grid!At(cur_row, cur_col + k - 1, last + k) : k \in 1 .. m}
  <1> DEFINE P == Placed(WithRow(cur_row, new))
             N == {Grid!At(cur_row, cur_col + k - 1, last + k) : k \in 1 .. m}
             Q == Grid!Others(n) \cup N
  <1>1. cur_row \in Nat /\ cur_col \in Nat /\ last \in Nat
    BY RowToWriteIs
  <1>2. /\ ArePlaces(P)
        /\ \A r, c, x : Place(r, c, x) \in P <=> \/ r = cur_row /\ ShowsAt(new, c, x)
                                                 \/ r # cur_row /\ PlacedAt(rows, r, c, x)
    BY <1>1, PlacedWithRow
  <1>3. \A c, x : ShowsAt(RowToWrite, c, x) <=> PlacedAt(rows, cur_row, c, x)
    BY <1>1, RowAtShows DEF RowToWrite
  <1>4. /\ ArePlaces(Grid!Others(n))
        /\ \A r, c, x : Place(r, c, x) \in Grid!Others(n) <=> OtherAt(n, r, c, x)
    BY OthersAre
  <1>5. N = {Place(cur_row, cur_col + k - 1, last + k) : k \in 1 .. m}
    BY DEF Grid!At, Place
  <1>6. ArePlaces(N)
    BY <1>5 DEF ArePlaces, Place
  <1>7. ASSUME NEW r, NEW c, NEW x
        PROVE  Place(r, c, x) \in N <=>
                 r = cur_row /\ c \in cur_col .. cur_col + m - 1 /\ x = last + (c - cur_col + 1)
    <2>1. ASSUME Place(r, c, x) \in N
          PROVE  r = cur_row /\ c \in cur_col .. cur_col + m - 1 /\ x = last + (c - cur_col + 1)
      <3>1. PICK k \in 1 .. m : Place(r, c, x) = Place(cur_row, cur_col + k - 1, last + k)
        BY <1>5, <2>1
      <3>2. r = cur_row /\ c = cur_col + k - 1 /\ x = last + k
        BY <3>1 DEF Place
      <3> QED BY <1>1, <3>2
    <2>2. ASSUME r = cur_row, c \in cur_col .. cur_col + m - 1, x = last + (c - cur_col + 1)
          PROVE  Place(r, c, x) \in N
      <3> DEFINE k == c - cur_col + 1
      <3>1. k \in 1 .. m /\ c = cur_col + k - 1 /\ x = last + k
        BY <1>1, <2>2
      <3> HIDE DEF k
      <3> QED BY <1>5, <2>2, <3>1
    <2> QED BY <2>1, <2>2
  <1> HIDE DEF P, N
  <1>8. ArePlaces(Q)
    BY <1>4, <1>6 DEF ArePlaces
  <1>9. ASSUME NEW r, NEW c, NEW x
        PROVE  Place(r, c, x) \in P <=> Place(r, c, x) \in Q
    <2>1. Place(r, c, x) \in Q <=>
            \/ OtherAt(n, r, c, x)
            \/ r = cur_row /\ c \in cur_col .. cur_col + m - 1 /\ x = last + (c - cur_col + 1)
      BY <1>4, <1>7
    <2>2. CASE r # cur_row
      <3>1. PlacedAt(rows, r, c, x) => c \in Nat
        BY DEF PlacedAt, ShowsAt
      <3> QED BY <1>2, <2>1, <2>2, <3>1 DEF OtherAt
    <2>3. CASE r = cur_row
      <3>1. ShowsAt(new, c, x) <=>
              /\ c \in Nat
              /\ \/ c < cur_col /\ PlacedAt(rows, r, c, x)
                 \/ c \in cur_col .. cur_col + m - 1 /\ x = last + (c - cur_col + 1)
                 \/ c >= cur_col + n
                      /\ PlacedAt(rows, r, IF add_strategy = "INSERT" THEN c - n ELSE c, x)
        BY <1>3, <2>3 DEF PutIn
      <3>2. c \in cur_col .. cur_col + m - 1 => c \in Nat
        BY <1>1
      <3> QED BY <1>2, <2>1, <2>3, <3>1, <3>2 DEF OtherAt
    <2> QED BY <2>2, <2>3
  <1> HIDE DEF Q
  <1>10. P = Q
    BY <1>2, <1>8, <1>9, SamePlaces
  <1> QED BY <1>10 DEF P, Q, N

\* What is shown where there is nothing, no text, a new text, or another cell.
LEMMA ShownOf ==
  ASSUME NEW row, NEW k
  PROVE  /\ row.data[k] \in {Junk, create_cell} => Shown(row, k) = 0
         /\ \A j \in Nat, t \in CellTypes :
              row.data[k] = [text |-> j, type |-> t] => Shown(row, k) = j
         /\ \A j \in Nat : row.data[k] = Cell(j) => Shown(row, k) = j
         /\ \A old, i : row.data[k] = old.data[i] => Shown(row, k) = Shown(old, i)
  <1>1. \A j \in Nat, t \in CellTypes :
          [text |-> j, type |-> t] # Junk /\ [text |-> j, type |-> t].text = j
    BY JunkAssumption
  <1>2. \A j \in Nat : Cell(j) # Junk /\ Cell(j).text = j
    BY <1>1 DEF Cell, CellTypes
  <1>3. create_cell.text = 0
    BY DEF create_cell, Cell
  <1> QED BY <1>1, <1>2, <1>3 DEF Shown

\* How rows in which places were made are recognised.
LEMMA PutInIs ==
  ASSUME cur_col \in Nat, last \in Nat, NEW old \in Vec(AnyCell), NEW new \in Vec(AnyCell),
         NEW n \in Nat, NEW m \in 0 .. n,
         Len(new.data) = IF add_strategy = "INSERT" THEN Larger(cur_col, Len(old.data)) + n
                         ELSE Larger(cur_col + n, Len(old.data)),
         \A k \in 1 .. Len(new.data) :
           Shown(new, k) = IF k <= cur_col THEN IF k <= Len(old.data) THEN Shown(old, k) ELSE 0
                           ELSE IF k <= cur_col + m THEN last + (k - cur_col)
                           ELSE IF k <= cur_col + n THEN 0
                           ELSE Shown(old, IF add_strategy = "INSERT" THEN k - n ELSE k)
  PROVE  PutIn(old, new, n, m)
  <1> DEFINE p == Len(new.data)  q == Len(old.data)  Src(c) == IF add_strategy = "INSERT" THEN c - n ELSE c
  <1>1. p \in Nat /\ q \in Nat
    BY VecIs
  <1>2. /\ p >= cur_col + n
        /\ \A c \in Nat : c >= cur_col + n => (c < p <=> Src(c) < q)
        /\ \A c \in Nat : c >= cur_col + n => Src(c) \in Nat
        /\ \A c \in Nat : c < cur_col /\ c < q => c < p
    BY <1>1 DEF Larger
  <1> HIDE DEF p
  <1>3. ASSUME NEW c \in Nat, c < p
        PROVE  Shown(new, c + 1) = IF c < cur_col THEN IF c < q THEN Shown(old, c + 1) ELSE 0
                                   ELSE IF c < cur_col + m THEN last + (c - cur_col + 1)
                                   ELSE IF c < cur_col + n THEN 0
                                   ELSE Shown(old, Src(c) + 1)
    <2> DEFINE k == c + 1
    <2>1. /\ k \in 1 .. p /\ (k <= cur_col <=> c < cur_col) /\ (k <= q <=> c < q)
          /\ (k <= cur_col + m <=> c < cur_col + m) /\ (k <= cur_col + n <=> c < cur_col + n)
          /\ k - cur_col = c - cur_col + 1
          /\ (IF add_strategy = "INSERT" THEN k - n ELSE k) = Src(c) + 1
      BY <1>1, <1>3
    <2> HIDE DEF k, Src, q
    <2>2. Shown(new, k) = IF k <= cur_col THEN IF k <= q THEN Shown(old, k) ELSE 0
                           ELSE IF k <= cur_col + m THEN last + (k - cur_col)
                           ELSE IF k <= cur_col + n THEN 0
                           ELSE Shown(old, IF add_strategy = "INSERT" THEN k - n ELSE k)
      BY <2>1 DEF p, q
    <2> QED BY <2>1, <2>2 DEF k
  <1> HIDE DEF Src, q
  <1>4. ASSUME NEW c \in Nat, NEW x
        PROVE  ShowsAt(new, c, x) <=>
                 \/ c < cur_col /\ ShowsAt(old, c, x)
                 \/ c \in cur_col .. cur_col + m - 1 /\ x = last + (c - cur_col + 1)
                 \/ c >= cur_col + n /\ ShowsAt(old, Src(c), x)
    <2>0. /\ ShowsAt(new, c, x) <=> c < p /\ x = Shown(new, c + 1) /\ x # 0
          /\ ShowsAt(old, c, x) <=> c < q /\ x = Shown(old, c + 1) /\ x # 0
      BY DEF ShowsAt, p, q
    <2>1. CASE c < cur_col
      <3>1. ~(c \in cur_col .. cur_col + m - 1) /\ ~(c >= cur_col + n) /\ c < p
        BY <1>1, <1>2, <2>1
      <3> QED BY <1>3, <2>0, <2>1, <3>1
    <2>2. CASE c >= cur_col /\ c < cur_col + m
      <3>1. c \in cur_col .. cur_col + m - 1 /\ ~(c >= cur_col + n) /\ c < p /\ ~(c < cur_col)
        BY <1>1, <1>2, <2>2
      <3>2. last + (c - cur_col + 1) # 0
        BY <2>2
      <3> QED BY <1>3, <2>0, <2>2, <3>1, <3>2
    <2>3. CASE c >= cur_col + m /\ c < cur_col + n
      <3>1. ~(c \in cur_col .. cur_col + m - 1) /\ ~(c >= cur_col + n) /\ ~(c < cur_col) /\ ~(c < cur_col + m)
        BY <2>3
      <3> QED BY <1>3, <2>0, <2>3, <3>1
    <2>4. CASE c >= cur_col + n
      <3>1. /\ ~(c \in cur_col .. cur_col + m - 1) /\ ~(c < cur_col)
            /\ ~(c < cur_col + m) /\ ~(c < cur_col + n)
        BY <2>4
      <3>2. (c < p <=> Src(c) < q) /\ Src(c) \in Nat
        BY <1>2, <2>4
      <3>3. ShowsAt(old, Src(c), x) <=> c < p /\ x = Shown(old, Src(c) + 1) /\ x # 0
        BY <3>2 DEF ShowsAt, q
      <3> QED BY <1>3, <2>0, <2>4, <3>1, <3>3
    <2> QED BY <2>1, <2>2, <2>3, <2>4
  <1>5. \A c, x : ShowsAt(new, c, x) => c \in Nat
    BY DEF ShowsAt
  <1> QED BY <1>4, <1>5 DEF PutIn, Src

\* A cell inserted makes one place, with the next text or without.
LEMMA InsertPut ==
  ASSUME Whole, add_strategy = "INSERT", NEW old \in Vec(AnyCell)
  PROVE  /\ vector_insert(old, Cell(last + 1), cur_col) \in Vec(AnyCell)
         /\ PutIn(old, vector_insert(old, Cell(last + 1), cur_col), 1, 1)
         /\ vector_insert(old, create_cell, cur_col) \in Vec(AnyCell)
         /\ PutIn(old, vector_insert(old, create_cell, cur_col), 1, 0)
  <1>1. cur_col \in Nat /\ last \in Nat /\ last + 1 \in Nat
    BY RowToWriteIs
  <1>2. Junk \in AnyCell /\ create_cell \in AnyCell /\ Cell(last + 1) \in AnyCell
    BY <1>1, AnyCells
  <1>3. ASSUME NEW cell \in AnyCell, NEW m \in 0 .. 1,
               cell = IF m = 1 THEN Cell(last + 1) ELSE create_cell
        PROVE  vector_insert(old, cell, cur_col) \in Vec(AnyCell)
               /\ PutIn(old, vector_insert(old, cell, cur_col), 1, m)
    <2> DEFINE new == vector_insert(old, cell, cur_col)  q == Len(old.data)
    <2>1. /\ new \in Vec(AnyCell) /\ Len(new.data) = Larger(cur_col, q) + 1
          /\ \A k \in 1 .. Len(new.data) :
               new.data[k] = IF k <= cur_col THEN IF k <= q THEN old.data[k] ELSE Junk
                             ELSE IF k = cur_col + 1 THEN cell ELSE old.data[k - 1]
      BY <1>1, <1>2, InsertIs
    <2>2. q \in Nat /\ Len(new.data) \in Nat
      BY <2>1, VecIs
    <2> HIDE DEF new, q
    <2>3. ASSUME NEW k \in 1 .. Len(new.data)
          PROVE  Shown(new, k) = IF k <= cur_col THEN IF k <= q THEN Shown(old, k) ELSE 0
                           ELSE IF k <= cur_col + m THEN last + (k - cur_col)
                           ELSE IF k <= cur_col + 1 THEN 0
                           ELSE Shown(old, k - 1)
      <3>1. CASE k <= cur_col
        <4>1. new.data[k] = IF k <= q THEN old.data[k] ELSE Junk
          BY <2>1, <3>1
        <4> QED BY <3>1, <4>1, ShownOf
      <3>2. CASE k = cur_col + 1
        <4>1. new.data[k] = cell /\ ~(k <= cur_col) /\ k - cur_col = 1 /\ k <= cur_col + 1
          BY <1>1, <2>1, <3>2
        <4>2. m = 1 => Shown(new, k) = last + 1 /\ k <= cur_col + m
          BY <1>1, <1>3, <3>2, <4>1, ShownOf
        <4>3. m = 0 => Shown(new, k) = 0 /\ ~(k <= cur_col + m)
          BY <1>1, <1>3, <3>2, <4>1, ShownOf
        <4>4. m = 0 \/ m = 1
          OBVIOUS
        <4> QED BY <4>1, <4>2, <4>3, <4>4
      <3>3. CASE k > cur_col + 1
        <4>1. ~(k <= cur_col) /\ k # cur_col + 1 /\ ~(k <= cur_col + m) /\ ~(k <= cur_col + 1)
          BY <1>1, <3>3
        <4>2. new.data[k] = old.data[k - 1]
          BY <2>1, <4>1
        <4> QED BY <4>1, <4>2, ShownOf
      <3>4. k <= cur_col \/ k = cur_col + 1 \/ k > cur_col + 1
        BY <1>1, <2>2
      <3> QED BY <3>1, <3>2, <3>3, <3>4
    <2>4. PutIn(old, new, 1, m)
      BY <1>1, <2>1, <2>3, PutInIs DEF q
    <2> QED BY <2>1, <2>4 DEF new
  <1> QED BY <1>2, <1>3

\* A text over a cell needs one place.
LEMMA ReplacePut ==
  ASSUME Whole, add_strategy # "INSERT", NEW old \in Vec(CellsUpTo(last))
  PROVE  /\ PutReplace(old, cur_col, last + 1) \in Vec(AnyCell)
         /\ PutIn(old, PutReplace(old, cur_col, last + 1), 1, 1)
  <1>1. cur_col \in Nat /\ last \in Nat /\ last + 1 \in Nat
    BY RowToWriteIs
  <1>0. LET w == PutReplace(old, cur_col, last + 1)
            m == Len(old.data) IN
        /\ w \in Vec(CellsUpTo(last + 1))
        /\ Len(w.data) = Larger(cur_col + 1, m)
        /\ \A k \in 1 .. Len(w.data) :
             w.data[k] = IF k = cur_col + 1
                         THEN [text |-> last + 1,
                               type |-> IF k <= m THEN old.data[k].type ELSE "COMMON"]
                         ELSE IF k <= m THEN old.data[k] ELSE create_cell
    BY <1>1, PutReplaceIs
  <1> DEFINE new == PutReplace(old, cur_col, last + 1)  q == Len(old.data)
  <1>2. /\ new \in Vec(CellsUpTo(last + 1)) /\ Len(new.data) = Larger(cur_col + 1, q)
        /\ \A k \in 1 .. Len(new.data) :
             new.data[k] = IF k = cur_col + 1
                           THEN [text |-> last + 1,
                                 type |-> IF k <= q THEN old.data[k].type ELSE "COMMON"]
                           ELSE IF k <= q THEN old.data[k] ELSE create_cell
    BY <1>0
  <1>3. new \in Vec(AnyCell) /\ old \in Vec(AnyCell) /\ q \in Nat
    BY <1>1, <1>2, AnyCells, VecIs, SMTT(30)
  <1> HIDE DEF new, q
  <1>4. ASSUME NEW k \in 1 .. Len(new.data)
        PROVE  Shown(new, k) = IF k <= cur_col THEN IF k <= q THEN Shown(old, k) ELSE 0
                           ELSE IF k <= cur_col + 1 THEN last + (k - cur_col)
                           ELSE Shown(old, k)
    <2>1. CASE k <= cur_col
      <3>0. k # cur_col + 1
        BY <1>1, <2>1
      <3>1. new.data[k] = IF k <= q THEN old.data[k] ELSE create_cell
        BY <1>2, <3>0
      <3> QED BY <2>1, <3>1, ShownOf
    <2>2. CASE k = cur_col + 1
      <3> DEFINE t == IF k <= q THEN old.data[k].type ELSE "COMMON"
      <3>1. new.data[k] = [text |-> last + 1, type |-> t]
        BY <1>2, <2>2
      <3>2. t \in CellTypes
        <4>1. k <= q => old.data[k] \in CellsUpTo(last)
          BY <1>1, <1>3, <2>2, VecIs DEF q
        <4> QED BY <1>1, <4>1, CellsAre DEF CellTypes
      <3> HIDE DEF t
      <3>3. Shown(new, k) = last + 1
        BY <1>1, <3>1, <3>2, ShownOf
      <3>4. ~(k <= cur_col) /\ k <= cur_col + 1 /\ k - cur_col = 1
        BY <1>1, <2>2
      <3> QED BY <3>3, <3>4
    <2>3. CASE k > cur_col + 1
      <3>1. ~(k <= cur_col) /\ k # cur_col + 1 /\ ~(k <= cur_col + 1) /\ k <= q
        BY <1>1, <1>2, <1>3, <2>3 DEF Larger
      <3>2. new.data[k] = old.data[k]
        BY <1>2, <3>1
      <3> QED BY <3>1, <3>2, ShownOf
    <2>4. k <= cur_col \/ k = cur_col + 1 \/ k > cur_col + 1
      BY <1>1, <1>2, <1>3 DEF Larger
    <2> QED BY <2>1, <2>2, <2>3, <2>4
  <1>5. Len(new.data) = IF add_strategy = "INSERT" THEN Larger(cur_col, q) + 1
                        ELSE Larger(cur_col + 1, q)
    BY <1>2
  <1>6. ASSUME NEW k \in 1 .. Len(new.data)
        PROVE  Shown(new, k) = IF k <= cur_col THEN IF k <= q THEN Shown(old, k) ELSE 0
                           ELSE IF k <= cur_col + 1 THEN last + (k - cur_col)
                           ELSE IF k <= cur_col + 1 THEN 0
                           ELSE Shown(old, IF add_strategy = "INSERT" THEN k - 1 ELSE k)
    BY <1>4
  <1>7. PutIn(old, new, 1, 1)
    BY <1>1, <1>3, <1>5, <1>6, PutInIs DEF q
  <1> QED BY <1>3, <1>7 DEF new

\* A formatted row inserted, or laid over cells, needs a place for each of its
\* cells.
LEMMA PrintPut ==
  ASSUME Whole, NEW old \in Vec(AnyCell), NEW n \in Nat \ {0}
  PROVE  /\ add_strategy = "INSERT" =>
              /\ insert_row(old, FmtRow(n)) \in Vec(AnyCell)
              /\ PutIn(old, insert_row(old, FmtRow(n)), n, n)
         /\ add_strategy # "INSERT" =>
              /\ swap_row(old, FmtRow(n)) \in Vec(AnyCell)
              /\ PutIn(old, swap_row(old, FmtRow(n)), n, n)
  <1> DEFINE ins == FmtRow(n)  q == Len(old.data)
  <1>1. cur_col \in Nat /\ last \in Nat /\ last + n \in Nat /\ q \in Nat
    BY RowToWriteIs, VecIs
  <1>2. ins \in Vec(CellsUpTo(last + n)) /\ Len(ins.data) = n /\ \A k \in 1 .. n : ins.data[k] = Cell(last + k)
    BY <1>1, FmtRowIs
  <1>3. ins \in Vec(AnyCell) /\ Junk \in AnyCell /\ create_cell \in AnyCell
    BY <1>1, <1>2, AnyCells
  <1> HIDE DEF ins
  <1>4. ASSUME NEW new \in Vec(AnyCell),
               Len(new.data) = IF add_strategy = "INSERT" THEN Larger(cur_col, q) + n
                               ELSE Larger(cur_col + n, q),
               \A k \in 1 .. Len(new.data) :
                 \/ /\ k <= cur_col
                    /\ \/ k <= q /\ new.data[k] = old.data[k]
                       \/ ~(k <= q) /\ new.data[k] \in {Junk, create_cell}
                 \/ ~(k <= cur_col) /\ k <= cur_col + n /\ new.data[k] = ins.data[k - cur_col]
                 \/ /\ ~(k <= cur_col) /\ ~(k <= cur_col + n)
                    /\ new.data[k] = old.data[IF add_strategy = "INSERT" THEN k - n ELSE k]
        PROVE  PutIn(old, new, n, n)
    <2>1. ASSUME NEW k \in 1 .. Len(new.data)
          PROVE  Shown(new, k) = IF k <= cur_col THEN IF k <= q THEN Shown(old, k) ELSE 0
                           ELSE IF k <= cur_col + n THEN last + (k - cur_col)
                           ELSE IF k <= cur_col + n THEN 0
                           ELSE Shown(old, IF add_strategy = "INSERT" THEN k - n ELSE k)
      <3>1. CASE k <= cur_col
        BY <1>4, <3>1, ShownOf
      <3>2. CASE ~(k <= cur_col) /\ k <= cur_col + n
        <4>1. new.data[k] = ins.data[k - cur_col]
          BY <1>4, <3>2
        <4>2. k - cur_col \in 1 .. n /\ last + (k - cur_col) \in Nat
          BY <1>1, <3>2
        <4>3. new.data[k] = Cell(last + (k - cur_col))
          BY <1>2, <4>1, <4>2
        <4>4. Shown(new, k) = last + (k - cur_col)
          BY <4>2, <4>3, ShownOf
        <4> QED BY <3>2, <4>4
      <3>3. CASE ~(k <= cur_col) /\ ~(k <= cur_col + n)
        <4>1. new.data[k] = old.data[IF add_strategy = "INSERT" THEN k - n ELSE k]
          BY <1>4, <3>3
        <4> QED BY <3>3, <4>1, ShownOf
      <3> QED BY <3>1, <3>2, <3>3
    <2> QED BY <1>1, <1>4, <2>1, PutInIs DEF q
  <1>5. CASE add_strategy = "INSERT"
    <2> DEFINE new == insert_row(old, ins)
    <2>1. /\ new \in Vec(AnyCell) /\ Len(new.data) = Larger(cur_col, q) + n
          /\ \A j \in 1 .. Len(new.data) :
               new.data[j] = IF j <= cur_col THEN IF j <= q THEN old.data[j] ELSE create_cell
                             ELSE IF j <= cur_col + n THEN ins.data[j - cur_col]
                             ELSE old.data[j - n]
      <3> DEFINE S == AnyCell
      <3>1. create_cell \in S /\ old \in Vec(S) /\ ins \in Vec(S) /\ cur_col \in Nat
        BY <1>1, <1>3
      <3> HIDE DEF S
      <3>2. LET m == Len(ins.data) IN
            /\ new \in Vec(S) /\ Len(new.data) = Larger(cur_col, q) + m
            /\ \A j \in 1 .. Len(new.data) :
                 new.data[j] = IF j <= cur_col THEN IF j <= q THEN old.data[j] ELSE create_cell
                               ELSE IF j <= cur_col + m THEN ins.data[j - cur_col]
                               ELSE old.data[j - m]
        BY <3>1, InsertRowIs
      <3> QED BY <1>2, <3>2 DEF S
    <2> HIDE DEF new
    <2>2. PutIn(old, new, n, n)
      BY <1>4, <1>5, <2>1
    <2> QED BY <1>5, <2>1, <2>2 DEF new, ins
  <1>6. CASE add_strategy # "INSERT"
    <2>0. LET w == swap_row(old, ins)
              m == Len(old.data)
              p == cur_col + Len(ins.data) IN
          /\ w \in Vec(AnyCell)
          /\ Len(w.data) = Larger(p, m)
          /\ \A k \in 1 .. Len(w.data) :
               w.data[k] = IF k <= cur_col
                           THEN IF k <= m THEN old.data[k] ELSE Junk
                           ELSE IF k <= p THEN ins.data[k - cur_col] ELSE old.data[k]
      <3>1. Len(ins.data) > 0 /\ (cur_col <= Len(old.data) \/ Junk \in AnyCell)
        BY <1>2, <1>3
      <3> QED BY <1>1, <1>3, <3>1, SwapRowIs
    <2> DEFINE new == swap_row(old, ins)
    <2>1. /\ new \in Vec(AnyCell) /\ Len(new.data) = Larger(cur_col + n, q)
          /\ \A k \in 1 .. Len(new.data) :
               new.data[k] = IF k <= cur_col THEN IF k <= q THEN old.data[k] ELSE Junk
                             ELSE IF k <= cur_col + n THEN ins.data[k - cur_col] ELSE old.data[k]
      BY <1>2, <2>0
    <2> HIDE DEF new
    <2>2. PutIn(old, new, n, n)
      BY <1>4, <1>6, <2>1
    <2> QED BY <1>6, <2>1, <2>2 DEF new, ins
  <1> QED BY <1>5, <1>6

\* A row that is made longer by cells without a text shows the same.
LEMMA LongerSame ==
  ASSUME NEW S, NEW old \in Vec(S), NEW T, NEW new \in Vec(T),
         Len(old.data) <= Len(new.data),
         \A k \in 1 .. Len(new.data) :
           Shown(new, k) = IF k <= Len(old.data) THEN Shown(old, k) ELSE 0
  PROVE  \A c, x : ShowsAt(new, c, x) <=> ShowsAt(old, c, x)
  <1> DEFINE p == Len(new.data)  q == Len(old.data)
  <1>1. p \in Nat /\ q \in Nat /\ q <= p
    BY VecIs
  <1>2. ASSUME NEW c \in Nat, c < p
        PROVE  Shown(new, c + 1) = IF c < q THEN Shown(old, c + 1) ELSE 0
    <2>1. c + 1 \in 1 .. p /\ (c + 1 <= q <=> c < q)
      BY <1>1, <1>2
    <2> QED BY <2>1
  <1> QED BY <1>1, <1>2 DEF ShowsAt

\* So a row that gets empty cells leaves all texts where they are, and one that
\* gets memory, or types.
LEMMA RowLonger ==
  ASSUME Whole, NEW r \in Nat, NEW new \in Vec(AnyCell),
         Len(vector_at(RowsTo(r + 1), r).data) <= Len(new.data),
         \A k \in 1 .. Len(new.data) :
           Shown(new, k) = IF k <= Len(vector_at(RowsTo(r + 1), r).data)
                           THEN Shown(vector_at(RowsTo(r + 1), r), k) ELSE 0
  PROVE  Placed(WithRow(r, new)) = Placed(rows)
  <1> DEFINE row == vector_at(RowsTo(r + 1), r)
  <1>1. row \in Vec(CellsUpTo(last))
    BY RowAtIs DEF Whole
  <1>2. \A c, x : ShowsAt(new, c, x) <=> ShowsAt(row, c, x)
    BY <1>1, LongerSame
  <1> QED BY <1>2, RowSame

\* Making a row and its first n cells puts no text anywhere.
LEMMA CellsToPlaced ==
  ASSUME Whole, NEW r \in Nat, NEW n \in Nat
  PROVE  Placed(WithRow(r, CellsTo(vector_at(RowsTo(r + 1), r), n))) = Placed(rows)
  <1> DEFINE row == vector_at(RowsTo(r + 1), r)  new == CellsTo(row, n)
  <1>1. row \in Vec(AnyCell) /\ Len(row.data) \in Nat
    <2>1. row \in Vec(CellsUpTo(last)) /\ last \in Nat
      BY RowAtIs, RowToWriteIs DEF Whole
    <2> QED BY <2>1, AnyCells, VecIs
  <1>2. create_cell \in AnyCell
    BY AnyCells
  <1>3. /\ new \in Vec(AnyCell) /\ Len(new.data) = Larger(n, Len(row.data))
        /\ \A k \in 1 .. Len(new.data) :
             new.data[k] = IF k <= Len(row.data) THEN row.data[k] ELSE create_cell
    <2> HIDE DEF row
    <2> QED BY <1>1, <1>2, CellsToIs
  <1> HIDE DEF new, row
  <1>4. Len(row.data) <= Len(new.data)
    BY <1>1, <1>3 DEF Larger
  <1>5. ASSUME NEW k \in 1 .. Len(new.data)
        PROVE  Shown(new, k) = IF k <= Len(row.data) THEN Shown(row, k) ELSE 0
    BY <1>3, ShownOf
  <1>6. Placed(WithRow(r, new)) = Placed(rows)
    BY <1>3, <1>4, <1>5, RowLonger DEF row
  <1> QED BY <1>6 DEF new, row

\* So does a row that has the cells it had.
LEMMA DataPlaced ==
  ASSUME Whole, NEW r \in Nat, NEW new \in Vec(AnyCell),
         new.data = vector_at(RowsTo(r + 1), r).data
  PROVE  Placed(WithRow(r, new)) = Placed(rows)
  <1> DEFINE row == vector_at(RowsTo(r + 1), r)
  <1>1. new.data = row.data
    OBVIOUS
  <1> HIDE DEF row
  <1>2. \A c, x : ShowsAt(new, c, x) <=> ShowsAt(row, c, x)
    BY <1>1 DEF ShowsAt, Shown
  <1> QED BY <1>2, RowSame DEF row

\* What the program writes, the grid has.
LEMMA GridWrite ==
  ASSUME Whole, ft_write
  PROVE  Grid!Call \/ UNCHANGED Grid!texts
  <1> DEFINE row == vector_at(RowsTo(cur_row + 1), cur_row)
  <1>1. /\ cur_row \in Nat /\ cur_col \in Nat /\ last \in Nat /\ row = RowToWrite
        /\ row \in Vec(CellsUpTo(last))
    BY RowToWriteIs DEF RowToWrite
  <1>2. row \in Vec(AnyCell)
    BY <1>1, AnyCells
  <1>3. cur_row' = cur_row /\ add_strategy' = add_strategy
    BY DEF ft_write
  <1>4. CASE Write
    <2> DEFINE new == PutCell(RowToWrite, last + 1)
    <2>1. rows' = WithRow(cur_row, new) /\ last' = last + 1 /\ cur_col' = cur_col + 1
      BY <1>4 DEF Write
    <2>2. new \in Vec(AnyCell) /\ PutIn(RowToWrite, new, 1, 1)
      <3> HIDE DEF row
      <3>1. CASE add_strategy = "INSERT"
        <4>1. new = vector_insert(RowToWrite, Cell(last + 1), cur_col)
          BY <3>1 DEF PutCell
        <4> HIDE DEF new
        <4> QED BY <1>1, <1>2, <3>1, <4>1, InsertPut
      <3>2. CASE add_strategy # "INSERT"
        <4>1. new = PutReplace(RowToWrite, cur_col, last + 1)
          BY <3>2 DEF PutCell
        <4> HIDE DEF new
        <4> QED BY <1>1, <3>2, <4>1, ReplacePut
      <3> QED BY <3>1, <3>2
    <2> HIDE DEF new
    <2>3. Placed(WithRow(cur_row, new)) =
            Grid!Others(1) \cup {Grid!At(cur_row, cur_col + k - 1, last + k) : k \in 1 .. 1}
      <3>1. 1 \in Nat /\ 1 \in 0 .. 1
        OBVIOUS
      <3> QED BY <2>2, <3>1, RowPut
    <2>4. Grid!Put(1)
      BY <1>3, <2>1, <2>3 DEF Grid!Put
    <2>5. 0 \in 0 .. MaxCols - 1 /\ 0 + 1 = 1
      BY <1>1, FortAssumption DEF ft_write
    <2> QED BY <2>4, <2>5 DEF Grid!Call
  <1>5. CASE WriteFails
    <2>0. last' = last /\ cur_col' = cur_col
      BY <1>5 DEF WriteFails
    <2>1. ASSUME NEW n \in ft_row_count .. cur_row, rows' = RowsTo(n)
          PROVE  Placed(rows') = Placed(rows)
      <3>1. n \in Nat
        BY VecIs DEF Whole, ft_row_count
      <3> QED BY <2>1, <3>1, PlacedRowsTo
    <2>2. ASSUME NEW r \in HalfWritten(RowToWrite), rows' = WithRow(cur_row, r)
          PROVE  \/ Placed(rows') = Placed(rows)
                 \/ add_strategy = "INSERT" /\ Placed(rows') = Grid!Others(1)
      <3>1. CASE r = row
        BY <1>1, <1>2, <2>2, <3>1, DataPlaced
      <3>2. CASE add_strategy = "INSERT" /\ r = vector_insert(RowToWrite, create_cell, cur_col)
        <4>1. r \in Vec(AnyCell) /\ PutIn(RowToWrite, r, 1, 0)
          <5> HIDE DEF row
          <5> QED BY <1>1, <1>2, <3>2, InsertPut
        <4>2. Placed(WithRow(cur_row, r)) =
                Grid!Others(1) \cup {Grid!At(cur_row, cur_col + k - 1, last + k) : k \in 1 .. 0}
          <5>1. 1 \in Nat /\ 0 \in 0 .. 1
            OBVIOUS
          <5> QED BY <4>1, <5>1, RowPut
        <4>3. \A k \in 1 .. 0 : FALSE
          OBVIOUS
        <4>4. {Grid!At(cur_row, cur_col + k - 1, last + k) : k \in 1 .. 0} = {}
          BY <4>3, Zenon
        <4> QED BY <2>2, <3>2, <4>2, <4>4
      <3>3. ASSUME NEW n \in columns_in_row(row) .. cur_col + 1, r = CellsTo(row, n)
            PROVE  Placed(rows') = Placed(rows)
        <4>1. n \in Nat
          <5>1. columns_in_row(row) \in Nat
            BY <1>2, VecIs DEF columns_in_row
          <5> HIDE DEF row
          <5> QED BY <1>1, <5>1
        <4> QED BY <1>1, <2>2, <3>3, <4>1, CellsToPlaced
      <3> HIDE DEF row
      <3> QED BY <1>1, <2>2, <3>1, <3>2, <3>3 DEF HalfWritten
    <2>3. \/ Placed(rows') = Placed(rows)
          \/ add_strategy = "INSERT" /\ Placed(rows') = Grid!Others(1)
      BY <1>5, <2>1, <2>2 DEF WriteFails
    <2> QED BY <1>3, <2>0, <2>3 DEF Grid!Call, Grid!PutFails, Grid!texts, Grid!cursor
  <1> QED BY <1>4, <1>5 DEF ft_write

\* And what it formats.
LEMMA GridPrintf ==
  ASSUME Whole, ft_printf
  PROVE  Grid!Call \/ UNCHANGED Grid!texts
  <1> DEFINE row == vector_at(RowsTo(cur_row + 1), cur_row)
  <1>1. /\ cur_row \in Nat /\ cur_col \in Nat /\ last \in Nat /\ row = RowToWrite
        /\ row \in Vec(CellsUpTo(last))
    BY RowToWriteIs DEF RowToWrite
  <1>2. row \in Vec(AnyCell)
    BY <1>1, AnyCells
  <1>3. cur_row' = cur_row /\ add_strategy' = add_strategy
    BY DEF ft_printf
  <1>4. PICK n \in 1 .. MaxCols : Printf(n) \/ PrintfFails(n)
    BY DEF ft_printf
  <1>5. n \in Nat \ {0} /\ n \in 0 .. n
    OBVIOUS
  <1>6. CASE Printf(n)
    <2> DEFINE new == IF add_strategy = "INSERT" THEN insert_row(RowToWrite, FmtRow(n))
                      ELSE swap_row(RowToWrite, FmtRow(n))
    <2>1. rows' = WithRow(cur_row, new) /\ last' = last + n /\ cur_col' = cur_col + n
      BY <1>6 DEF Printf
    <2>2. new \in Vec(AnyCell) /\ PutIn(RowToWrite, new, n, n)
      <3> HIDE DEF row
      <3> QED BY <1>1, <1>2, <1>5, PrintPut
    <2> HIDE DEF new
    <2>3. Placed(WithRow(cur_row, new)) =
            Grid!Others(n) \cup {Grid!At(cur_row, cur_col + k - 1, last + k) : k \in 1 .. n}
      BY <1>5, <2>2, RowPut
    <2>4. Grid!Put(n)
      BY <1>3, <2>1, <2>3 DEF Grid!Put
    <2>5. n - 1 \in 0 .. MaxCols - 1 /\ (n - 1) + 1 = n
      BY FortAssumption
    <2> QED BY <2>4, <2>5 DEF Grid!Call
  <1>7. CASE PrintfFails(n)
    <2>0. last' = last /\ cur_col' = cur_col
      BY <1>7 DEF PrintfFails
    <2>1. ASSUME NEW k \in ft_row_count .. cur_row + 1, rows' = RowsTo(k)
          PROVE  Placed(rows') = Placed(rows)
      <3>1. k \in Nat
        BY VecIs DEF Whole, ft_row_count
      <3> QED BY <2>1, <3>1, PlacedRowsTo
    <2>2. ASSUME NEW r \in HalfPrinted(row, n), rows' = WithRow(cur_row, r)
          PROVE  Placed(rows') = Placed(rows)
      <3>1. ASSUME NEW k \in columns_in_row(row) .. cur_col - 1, r = CellsTo(row, k)
            PROVE  Placed(rows') = Placed(rows)
        <4>1. k \in Nat
          <5>1. columns_in_row(row) \in Nat
            BY <1>2, VecIs DEF columns_in_row
          <5> HIDE DEF row
          <5> QED BY <1>1, <5>1
        <4> QED BY <1>1, <2>2, <3>1, <4>1, CellsToPlaced
      <3>2. CASE r = SwapRoom(row, FmtRow(n), cur_col)
        <4>1. FmtRow(n) \in Vec(AnyCell)
          <5>1. last + n \in Nat
            BY <1>1
          <5> QED BY <1>1, <1>5, <5>1, FmtRowIs, AnyCells
        <4>2. r \in Vec(AnyCell) /\ r.data = row.data
          <5> HIDE DEF row
          <5> QED BY <1>1, <1>2, <3>2, <4>1, RoomIs, ZenonT(30)
        <4> QED BY <1>1, <2>2, <4>2, DataPlaced
      <3> HIDE DEF row
      <3> QED BY <2>2, <3>1, <3>2 DEF HalfPrinted
    <2>3. Placed(rows') = Placed(rows)
      BY <1>1, <1>7, <2>1, <2>2 DEF PrintfFails
    <2> QED BY <1>3, <2>0, <2>3 DEF Grid!texts, Grid!cursor
  <1> QED BY <1>4, <1>6, <1>7

\* Cells that are spanned keep their texts.
LEMMA GridSpan ==
  ASSUME Whole, AnySpan
  PROVE  UNCHANGED Grid!texts
  <1> DEFINE C == CellsUpTo(last)
  <1>1. PICK r \in RowArgs, col \in 0 .. MaxCols - 2, span \in 2 .. MaxCols :
               ft_set_cell_span(r, col, span)
    BY DEF AnySpan
  <1> DEFINE row == vector_at(RowsTo(r + 1), r)
  <1>2. r \in Nat /\ col \in Nat /\ last \in Nat /\ rows \in Vec(Vec(C))
    BY RowToWriteIs, ArgsAre DEF Whole
  <1>3. row \in Vec(C) /\ Len(row.data) \in Nat
    <2>1. row \in Vec(C)
      <3> HIDE DEF C
      <3> QED BY <1>2, RowAtIs
    <2> QED BY <2>1, VecIs
  <1>4. ASSUME NEW n \in ft_row_count .. r, rows' = RowsTo(n) PROVE Placed(rows') = Placed(rows)
    <2>1. n \in Nat
      BY VecIs DEF Whole, ft_row_count
    <2> QED BY <1>4, <2>1, PlacedRowsTo
  <1>5. ASSUME NEW n \in 1 .. span, rows' = WithRow(r, Spanned(row, col, n))
        PROVE  Placed(rows') = Placed(rows)
    <2> DEFINE w == Spanned(row, col, n)
    <2>1. n \in Nat \ {0}
      OBVIOUS
    <2>2. w \in Vec(C) /\ IsSpanned(row, w, col, n)
      <3> HIDE DEF row
      <3> QED BY <1>2, <1>3, <2>1, SpannedIs
    <2>3. rows' = WithRow(r, w) /\ w \in Vec(AnyCell)
      BY <1>2, <1>5, <2>2, AnyCells
    <2> HIDE DEF w, row
    <2>4. Len(row.data) <= Len(w.data)
      BY <1>2, <1>3, <2>1, <2>2 DEF IsSpanned, Larger
    <2>5. ASSUME NEW k \in 1 .. Len(w.data)
          PROVE  Shown(w, k) = IF k <= Len(row.data) THEN Shown(row, k) ELSE 0
      <3>1. w.data[k].text = IF k <= Len(row.data) THEN row.data[k].text ELSE create_cell.text
        BY <2>2 DEF IsSpanned
      <3>2. Shown(w, k) = w.data[k].text
        BY <1>2, <2>2, ShownIs
      <3>3. k <= Len(row.data) => Shown(row, k) = row.data[k].text
        <4>1. Len(row.data) \in Nat /\ k \in Nat /\ k >= 1
          BY <1>2, <2>2, VecIs
        <4> HAVE k <= Len(row.data)
        <4>2. k \in 1 .. Len(row.data)
          BY <4>1
        <4> QED BY <1>2, <1>3, <4>2, ShownIs
      <3> QED BY <3>1, <3>2, <3>3, AnyCells
    <2> QED BY <1>2, <2>3, <2>4, <2>5, RowLonger DEF row
  <1>6. ASSUME NEW n \in columns_in_row(row) .. col, rows' = WithRow(r, CellsTo(row, n))
        PROVE  Placed(rows') = Placed(rows)
    <2>1. n \in Nat
      <3>1. columns_in_row(row) \in Nat
        BY <1>3, VecIs DEF columns_in_row
      <3> HIDE DEF row
      <3> QED BY <1>2, <3>1
    <2> QED BY <1>2, <1>6, <2>1, CellsToPlaced
  <1>7. Placed(rows') = Placed(rows)
    <2> HIDE DEF row
    <2>1. \/ \E n \in ft_row_count .. r : rows' = RowsTo(n)
          \/ \E w \in row_set_cell_span(row, col, span) : rows' = WithRow(r, w)
      BY <1>1 DEF ft_set_cell_span, row
    <2> QED BY <1>4, <1>5, <1>6, <2>1 DEF row_set_cell_span
  <1> QED BY <1>1, <1>7 DEF ft_set_cell_span, cursor, Grid!texts, Grid!cursor

\* A copy has the texts where the original has them.
LEMMA GridCopy ==
  ASSUME Whole, ft_copy_table
  PROVE  UNCHANGED Grid!texts
  <1> DEFINE P == Placed(rows')  Q == Placed(rows)
  <1>1. /\ rows' \in Vec(Vec(CellsUpTo(last))) /\ Len(rows'.data) = Len(rows.data)
        /\ \A k \in 1 .. Len(rows.data) : rows'.data[k].data = rows.data[k].data
    BY CopyStep
  <1>2. rows \in Vec(Vec(CellsUpTo(last))) /\ Len(rows.data) \in Nat
    BY VecIs DEF Whole
  <1>3. /\ ArePlaces(P) /\ \A r, c, x : Place(r, c, x) \in P <=> PlacedAt(rows', r, c, x)
    BY <1>1, PlacedIs
  <1>4. /\ ArePlaces(Q) /\ \A r, c, x : Place(r, c, x) \in Q <=> PlacedAt(rows, r, c, x)
    BY <1>2, PlacedIs
  <1>5. ASSUME NEW r, NEW c, NEW x PROVE PlacedAt(rows', r, c, x) <=> PlacedAt(rows, r, c, x)
    <2>1. r \in Nat /\ r < Len(rows.data) => r + 1 \in 1 .. Len(rows.data)
      BY <1>2
    <2>2. r \in Nat /\ r < Len(rows.data) =>
            (ShowsAt(rows'.data[r + 1], c, x) <=> ShowsAt(rows.data[r + 1], c, x))
      BY <1>1, <2>1 DEF ShowsAt, Shown
    <2> QED BY <1>1, <2>2 DEF PlacedAt
  <1> HIDE DEF P, Q
  <1>6. P = Q
    BY <1>3, <1>4, <1>5, SamePlaces
  <1> QED BY <1>6 DEF ft_copy_table, cursor, Grid!texts, Grid!cursor, P, Q

\* The rows once the row of the cursor is split, and when the line feed fails
\* after that.
LEMMA SplitRowsAre ==
  ASSUME Whole, InRow
  PROVE  LET C == CellsUpTo(last)
             m == Len(rows.data)
             row == rows.data[cur_row + 1]
             head == SplitHead(row, cur_col)
             tail == SplitTail(row, cur_col)
             cut == VectorSet(rows, cur_row, SplitHead(vector_at(rows, cur_row), cur_col)) IN
         /\ SplitRow \in Vec(Vec(C)) /\ Len(SplitRow.data) = m + 1
         /\ \A k \in 1 .. m + 1 :
              SplitRow.data[k] = IF k <= cur_row THEN rows.data[k]
                                 ELSE IF k = cur_row + 1 THEN head
                                 ELSE IF k = cur_row + 2 THEN tail ELSE rows.data[k - 1]
         /\ cut \in Vec(Vec(C)) /\ Len(cut.data) = m
         /\ \A k \in 1 .. m : cut.data[k] = IF k = cur_row + 1 THEN head ELSE rows.data[k]
         /\ m \in Nat /\ cur_row < m
         /\ \A c, x : ShowsAt(head, c, x) <=> c \in Nat /\ c < cur_col /\ ShowsAt(row, c, x)
         /\ \A c, x : ShowsAt(tail, c, x) <=> c \in Nat /\ ShowsAt(row, cur_col + c, x)
  <1> DEFINE C == CellsUpTo(last)  row == rows.data[cur_row + 1]  m == Len(rows.data)
             head == SplitHead(row, cur_col)  tail == SplitTail(row, cur_col)
             cut == VectorSet(rows, cur_row, head)  us == vector_insert(cut, tail, cur_row + 1)
  <1>1. last \in Nat /\ cur_row \in Nat /\ cur_col \in Nat /\ rows \in Vec(Vec(C)) /\ m \in Nat
    BY RowToWriteIs, VecIs DEF Whole
  <1>2. /\ cur_row < m /\ cur_col < columns_in_row(row) /\ row = vector_at(rows, cur_row)
        /\ cur_row + 1 \in 1 .. m
    BY <1>1, VecIs, SMTT(30) DEF InRow, ft_row_count, vector_at
  <1>3. row \in Vec(C)
    BY <1>1, <1>2, VecIs
  <1>4. cur_col < Len(row.data) /\ Len(row.data) \in Nat
    BY <1>2, <1>3, VecIs DEF columns_in_row
  <1>5. SplitRow = us /\ VectorSet(rows, cur_row, SplitHead(vector_at(rows, cur_row), cur_col)) = cut
    BY DEF SplitRow, vector_at
  <1> HIDE DEF row
  <1>6. /\ head \in Vec(C) /\ Len(head.data) = cur_col
        /\ tail \in Vec(C) /\ Len(tail.data) = Len(row.data) - cur_col
        /\ \A k \in 1 .. cur_col : head.data[k] = row.data[k]
        /\ \A k \in 1 .. Len(row.data) - cur_col : tail.data[k] = row.data[cur_col + k]
    BY <1>1, <1>3, <1>4, SplitIs
  <1> HIDE DEF head, tail
  <1>7. cut \in Vec(Vec(C)) /\ Len(cut.data) = m
        /\ \A k \in 1 .. m : cut.data[k] = IF k = cur_row + 1 THEN head ELSE rows.data[k]
    BY <1>1, <1>2, <1>6, SetIs
  <1> HIDE DEF cut
  <1>8. /\ us \in Vec(Vec(C)) /\ Len(us.data) = m + 1
        /\ \A k \in 1 .. m + 1 :
             us.data[k] = IF k <= cur_row + 1 THEN cut.data[k]
                          ELSE IF k = cur_row + 2 THEN tail ELSE cut.data[k - 1]
    <2>1. cur_row + 1 \in Nat /\ cur_row + 1 <= Len(cut.data) /\ cur_row + 1 + 1 = cur_row + 2
      BY <1>1, <1>2, <1>7
    <2>2. /\ us \in Vec(Vec(C)) /\ Len(us.data) = Larger(cur_row + 1, Len(cut.data)) + 1
          /\ \A k \in 1 .. Len(us.data) :
               us.data[k] = IF k <= cur_row + 1
                            THEN IF k <= Len(cut.data) THEN cut.data[k] ELSE Junk
                            ELSE IF k = cur_row + 1 + 1 THEN tail ELSE cut.data[k - 1]
      <3> HIDE DEF C
      <3> QED BY <1>6, <1>7, <2>1, InsertIs, SMTT(30)
    <2> HIDE DEF us
    <2>3. Len(us.data) = m + 1
      BY <1>1, <1>7, <2>1, <2>2 DEF Larger
    <2>4. \A k \in 1 .. m + 1 : k <= cur_row + 1 => k <= m
      BY <1>1, <1>2
    <2> QED BY <1>7, <2>1, <2>2, <2>3, <2>4
  <1>9. \A k \in 1 .. m + 1 :
          us.data[k] = IF k <= cur_row THEN rows.data[k]
                       ELSE IF k = cur_row + 1 THEN head
                       ELSE IF k = cur_row + 2 THEN tail ELSE rows.data[k - 1]
    <2> HIDE DEF us, m
    <2> SUFFICES ASSUME NEW k \in 1 .. m + 1
                 PROVE  us.data[k] = IF k <= cur_row THEN rows.data[k]
                                     ELSE IF k = cur_row + 1 THEN head
                                     ELSE IF k = cur_row + 2 THEN tail ELSE rows.data[k - 1]
      OBVIOUS
    <2>1. CASE k <= cur_row + 1
      <3>1. k \in 1 .. m /\ (k = cur_row + 1 <=> ~(k <= cur_row))
        BY <1>1, <1>2, <2>1
      <3> QED BY <1>7, <1>8, <2>1, <3>1
    <2>2. CASE k = cur_row + 2
      <3>1. ~(k <= cur_row + 1) /\ ~(k <= cur_row) /\ k # cur_row + 1
        BY <1>1, <2>2
      <3> QED BY <1>8, <2>2, <3>1
    <2>3. CASE ~(k <= cur_row + 1) /\ k # cur_row + 2
      <3>1. /\ k - 1 \in 1 .. m /\ k - 1 # cur_row + 1 /\ ~(k <= cur_row)
            /\ k # cur_row + 1
        BY <1>1, <2>3
      <3> QED BY <1>7, <1>8, <2>3, <3>1
    <2> QED BY <2>1, <2>2, <2>3
  <1> HIDE DEF us
  <1>10. \A c, x : ShowsAt(head, c, x) <=> c \in Nat /\ c < cur_col /\ ShowsAt(row, c, x)
    <2>1. ASSUME NEW c \in Nat, c < cur_col
          PROVE  c < Len(row.data) /\ Shown(head, c + 1) = Shown(row, c + 1)
      <3>1. c < Len(row.data) /\ c + 1 \in 1 .. cur_col
        BY <1>1, <1>4, <2>1
      <3> QED BY <1>6, <3>1 DEF Shown
    <2> QED BY <1>6, <2>1 DEF ShowsAt
  <1>11. \A c, x : ShowsAt(tail, c, x) <=> c \in Nat /\ ShowsAt(row, cur_col + c, x)
    <2>1. ASSUME NEW c \in Nat
          PROVE  /\ c < Len(tail.data) <=> cur_col + c < Len(row.data)
                 /\ cur_col + c \in Nat
                 /\ c < Len(tail.data) => Shown(tail, c + 1) = Shown(row, (cur_col + c) + 1)
      <3>1. /\ c < Len(tail.data) <=> cur_col + c < Len(row.data)
            /\ cur_col + c \in Nat /\ cur_col + (c + 1) = (cur_col + c) + 1
            /\ c < Len(tail.data) => c + 1 \in 1 .. Len(row.data) - cur_col
        BY <1>1, <1>4, <1>6
      <3> QED BY <1>6, <3>1 DEF Shown
    <2> QED BY <2>1 DEF ShowsAt
  <1> QED BY <1>1, <1>2, <1>5, <1>7, <1>8, <1>9, <1>10, <1>11 DEF head, tail, row

\* Where the texts are then.
FedAt(r, c, x) ==
  /\ c \in Nat
  /\ \/ (r < cur_row \/ (r = cur_row /\ c < cur_col)) /\ PlacedAt(rows, r, c, x)
     \/ r = cur_row + 1 /\ PlacedAt(rows, cur_row, cur_col + c, x)
     \/ r > cur_row + 1 /\ PlacedAt(rows, r - 1, c, x)

\* Splitting the row at the cursor leaves the texts where FedAt says.
LEMMA SplitPlaced ==
  ASSUME Whole, InRow
  PROVE  /\ ArePlaces(Placed(SplitRow))
         /\ \A r, c, x : Place(r, c, x) \in Placed(SplitRow) <=> r \in Nat /\ FedAt(r, c, x)
  <1> DEFINE C == CellsUpTo(last)  m == Len(rows.data)  row == rows.data[cur_row + 1]
             head == SplitHead(row, cur_col)  tail == SplitTail(row, cur_col)  us == SplitRow
  <1>1. /\ us \in Vec(Vec(C)) /\ Len(us.data) = m + 1
        /\ \A k \in 1 .. m + 1 :
             us.data[k] = IF k <= cur_row THEN rows.data[k]
                          ELSE IF k = cur_row + 1 THEN head
                          ELSE IF k = cur_row + 2 THEN tail ELSE rows.data[k - 1]
        /\ m \in Nat /\ cur_row < m
        /\ \A c, x : ShowsAt(head, c, x) <=> c \in Nat /\ c < cur_col /\ ShowsAt(row, c, x)
        /\ \A c, x : ShowsAt(tail, c, x) <=> c \in Nat /\ ShowsAt(row, cur_col + c, x)
    BY SplitRowsAre
  <1>2. cur_row \in Nat /\ cur_col \in Nat
    BY RowToWriteIs
  <1>3. ArePlaces(Placed(us)) /\ \A r, c, x : Place(r, c, x) \in Placed(us) <=> PlacedAt(us, r, c, x)
    <2> HIDE DEF us, C
    <2> QED BY <1>1, PlacedIs
  <1> HIDE DEF us, head, tail
  <1>4. ASSUME NEW r \in Nat, NEW c \in Nat, NEW x PROVE PlacedAt(us, r, c, x) <=> FedAt(r, c, x)
    <2>0. PlacedAt(us, r, c, x) <=> r < m + 1 /\ ShowsAt(us.data[r + 1], c, x)
      BY <1>1 DEF PlacedAt
    <2> HIDE DEF m
    <2>1. CASE r < cur_row
      <3>1. r + 1 \in 1 .. m + 1 /\ r + 1 <= cur_row /\ r < m /\ r < m + 1 /\ r # cur_row + 1
            /\ ~(r > cur_row + 1)
        BY <1>1, <1>2, <2>1
      <3>2. us.data[r + 1] = rows.data[r + 1]
        BY <1>1, <3>1
      <3>3. PlacedAt(rows, r, c, x) <=> ShowsAt(rows.data[r + 1], c, x)
        BY <3>1 DEF PlacedAt, m
      <3>4. FedAt(r, c, x) <=> PlacedAt(rows, r, c, x)
        BY <2>1, <3>1 DEF FedAt
      <3> QED BY <2>0, <3>1, <3>2, <3>3, <3>4
    <2>2. CASE r = cur_row
      <3>1. /\ r + 1 \in 1 .. m + 1 /\ ~(r + 1 <= cur_row) /\ r + 1 = cur_row + 1 /\ r < m
            /\ r < m + 1 /\ r # cur_row + 1 /\ ~(r > cur_row + 1) /\ ~(r < cur_row)
        BY <1>1, <1>2, <2>2
      <3>2. us.data[r + 1] = head
        BY <1>1, <3>1
      <3>3. PlacedAt(rows, r, c, x) <=> ShowsAt(row, c, x)
        BY <2>2, <3>1 DEF PlacedAt, m
      <3> HIDE DEF row
      <3> QED BY <1>1, <2>0, <2>2, <3>1, <3>2, <3>3 DEF FedAt
    <2>3. CASE r = cur_row + 1
      <3>1. /\ r + 1 \in 1 .. m + 1 /\ ~(r + 1 <= cur_row) /\ r + 1 # cur_row + 1
            /\ r + 1 = cur_row + 2
            /\ r < m + 1 /\ ~(r > cur_row + 1) /\ ~(r < cur_row) /\ r # cur_row
        BY <1>1, <1>2, <2>3
      <3>2. us.data[r + 1] = tail
        BY <1>1, <3>1
      <3>3. PlacedAt(rows, cur_row, cur_col + c, x) <=> ShowsAt(row, cur_col + c, x)
        BY <1>1, <1>2 DEF PlacedAt, m
      <3> HIDE DEF row
      <3> QED BY <1>1, <2>0, <2>3, <3>1, <3>2, <3>3 DEF FedAt
    <2>4. CASE r > cur_row + 1
      <3>1. /\ ~(r + 1 <= cur_row) /\ r + 1 # cur_row + 1 /\ r + 1 # cur_row + 2
            /\ ~(r < cur_row) /\ r # cur_row /\ r # cur_row + 1
            /\ r - 1 \in Nat /\ (r + 1) - 1 = (r - 1) + 1 /\ (r < m + 1 <=> r - 1 < m)
            /\ r < m + 1 => r + 1 \in 1 .. m + 1
        BY <1>1, <1>2, <2>4
      <3>2. r < m + 1 => us.data[r + 1] = rows.data[(r - 1) + 1]
        BY <1>1, <3>1
      <3>3. PlacedAt(rows, r - 1, c, x) <=> r - 1 < m /\ ShowsAt(rows.data[(r - 1) + 1], c, x)
        BY <3>1 DEF PlacedAt, m
      <3> QED BY <2>0, <2>4, <3>1, <3>2, <3>3 DEF FedAt
    <2> QED BY <1>2, <2>1, <2>2, <2>3, <2>4
  <1>5. \A r, c, x : PlacedAt(us, r, c, x) => r \in Nat /\ c \in Nat
    BY DEF PlacedAt, ShowsAt
  <1>6. \A r, c, x : FedAt(r, c, x) => c \in Nat
    BY DEF FedAt
  <1>7. \A r, c, x : PlacedAt(us, r, c, x) <=> r \in Nat /\ FedAt(r, c, x)
    BY <1>4, <1>5, <1>6
  <1> QED BY <1>3, <1>7 DEF us

\* That is where the grid feeds them.
LEMMA FedAre ==
  ASSUME Whole
  PROVE  LET F == {Grid!Fed(t) : t \in Placed(rows)} IN
         /\ ArePlaces(F)
         /\ \A r, c, x : Place(r, c, x) \in F <=> r \in Nat /\ FedAt(r, c, x)
  <1> DEFINE P == Placed(rows)  F == {Grid!Fed(t) : t \in P}
  <1>1. cur_row \in Nat /\ cur_col \in Nat
    BY RowToWriteIs
  <1>2. \A r, c, x : Place(r, c, x) \in P <=> PlacedAt(rows, r, c, x)
    BY PlacedIs DEF Whole
  <1>3. \A t \in P : /\ t = Place(t.row, t.col, t.text) /\ PlacedAt(rows, t.row, t.col, t.text)
                     /\ t.row \in Nat /\ t.col \in Nat
    BY PlacesOf
  <1> DEFINE To(r, c, x) == IF r = cur_row /\ c >= cur_col THEN Place(r + 1, c - cur_col, x)
                            ELSE IF r > cur_row THEN Place(r + 1, c, x) ELSE Place(r, c, x)
  <1>4. \A t \in P : Grid!Fed(t) = To(t.row, t.col, t.text)
    BY <1>3 DEF Grid!Fed, Grid!Behind, Grid!At, Place
  <1> HIDE DEF P
  <1>5. ArePlaces(F)
    BY <1>4 DEF ArePlaces, Place
  <1>6. ASSUME NEW r, NEW c, NEW x, Place(r, c, x) \in F PROVE r \in Nat /\ FedAt(r, c, x)
    <2>1. PICK t \in P : Place(r, c, x) = Grid!Fed(t)
      BY <1>6
    <2> DEFINE i == t.row  j == t.col  y == t.text
    <2>2. Place(r, c, x) = To(i, j, y) /\ PlacedAt(rows, i, j, y) /\ i \in Nat /\ j \in Nat
      BY <1>3, <1>4, <2>1
    <2> HIDE DEF i, j, y
    <2>3. CASE i = cur_row /\ j >= cur_col
      <3>1. r = i + 1 /\ c = j - cur_col /\ x = y
        BY <2>2, <2>3 DEF Place
      <3>2. r \in Nat /\ c \in Nat /\ r = cur_row + 1 /\ cur_col + c = j
        BY <1>1, <2>2, <2>3, <3>1
      <3> QED BY <2>2, <2>3, <3>1, <3>2 DEF FedAt
    <2>4. CASE ~(i = cur_row /\ j >= cur_col) /\ i > cur_row
      <3>1. r = i + 1 /\ c = j /\ x = y
        BY <2>2, <2>4 DEF Place
      <3>2. r \in Nat /\ r > cur_row + 1 /\ r - 1 = i
        BY <1>1, <2>2, <2>4, <3>1
      <3> QED BY <2>2, <3>1, <3>2 DEF FedAt
    <2>5. CASE ~(i = cur_row /\ j >= cur_col) /\ ~(i > cur_row)
      <3>1. r = i /\ c = j /\ x = y
        BY <2>2, <2>5 DEF Place
      <3>2. i \in Nat /\ j \in Nat
        BY <2>2
      <3>3. i < cur_row \/ (i = cur_row /\ j < cur_col)
        BY <1>1, <2>5, <3>2
      <3> QED BY <2>2, <3>1, <3>3 DEF FedAt
    <2> QED BY <2>3, <2>4, <2>5
  <1>7. ASSUME NEW r \in Nat, NEW c, NEW x, FedAt(r, c, x) PROVE Place(r, c, x) \in F
    <2>0. ASSUME NEW i \in Nat, NEW j \in Nat, PlacedAt(rows, i, j, x), To(i, j, x) = Place(r, c, x)
          PROVE  Place(r, c, x) \in F
      <3>1. Place(i, j, x) \in P
        BY <1>2, <2>0
      <3>2. Grid!Fed(Place(i, j, x)) = To(i, j, x)
        <4>1. Place(i, j, x).row = i /\ Place(i, j, x).col = j /\ Place(i, j, x).text = x
          BY DEF Place
        <4> HIDE DEF To
        <4> QED BY <1>4, <3>1, <4>1
      <3> HIDE DEF To
      <3> QED BY <2>0, <3>1, <3>2
    <2>1. CASE (r < cur_row \/ (r = cur_row /\ c < cur_col)) /\ PlacedAt(rows, r, c, x)
      <3>1. ~(r = cur_row /\ c >= cur_col) /\ ~(r > cur_row) /\ c \in Nat
        BY <1>1, <1>7, <2>1 DEF FedAt
      <3> QED BY <2>0, <2>1, <3>1
    <2>2. CASE r = cur_row + 1 /\ PlacedAt(rows, cur_row, cur_col + c, x)
      <3>1. cur_col + c >= cur_col /\ (cur_col + c) - cur_col = c /\ cur_col + c \in Nat
        BY <1>1, <1>7, <2>2 DEF FedAt
      <3>2. To(cur_row, cur_col + c, x) = Place(r, c, x)
        BY <2>2, <3>1
      <3> HIDE DEF To
      <3> QED BY <1>1, <2>0, <2>2, <3>1, <3>2
    <2>3. CASE r > cur_row + 1 /\ PlacedAt(rows, r - 1, c, x)
      <3>1. /\ r - 1 \in Nat /\ c \in Nat /\ r - 1 # cur_row /\ r - 1 > cur_row /\ (r - 1) + 1 = r
        BY <1>1, <1>7, <2>3 DEF FedAt
      <3>2. To(r - 1, c, x) = Place(r, c, x)
        BY <2>3, <3>1
      <3> HIDE DEF To
      <3> QED BY <2>0, <2>3, <3>1, <3>2
    <2> QED BY <1>7, <2>1, <2>2, <2>3 DEF FedAt
  <1> QED BY <1>5, <1>6, <1>7 DEF P

\* When the line feed fails after the split, the cells behind the cursor are gone.
LEMMA CutPlaced ==
  ASSUME Whole, InRow,
         rows' = VectorSet(rows, cur_row, SplitHead(vector_at(rows, cur_row), cur_col))
  PROVE  Placed(rows') = {t \in Placed(rows) : ~Grid!Behind(t)}
  <1> DEFINE m == Len(rows.data)  row == rows.data[cur_row + 1]
             head == SplitHead(row, cur_col)  P == Placed(rows')  Q == Placed(rows)
             N == {t \in Q : ~Grid!Behind(t)}
  <1>1. /\ rows' \in Vec(Vec(CellsUpTo(last))) /\ Len(rows'.data) = m
        /\ \A k \in 1 .. m : rows'.data[k] = IF k = cur_row + 1 THEN head ELSE rows.data[k]
        /\ m \in Nat /\ cur_row < m
        /\ \A c, x : ShowsAt(head, c, x) <=> c \in Nat /\ c < cur_col /\ ShowsAt(row, c, x)
    BY SplitRowsAre
  <1>2. cur_row \in Nat /\ cur_col \in Nat
    BY RowToWriteIs
  <1>3. ArePlaces(P) /\ \A r, c, x : Place(r, c, x) \in P <=> PlacedAt(rows', r, c, x)
    BY <1>1, PlacedIs
  <1>4. ArePlaces(Q) /\ \A r, c, x : Place(r, c, x) \in Q <=> PlacedAt(rows, r, c, x)
    BY PlacedIs DEF Whole
  <1> HIDE DEF P, Q, head
  <1>5. ArePlaces(N) /\ \A r, c, x : Place(r, c, x) \in N <=>
                          PlacedAt(rows, r, c, x) /\ ~(r = cur_row /\ c >= cur_col)
    <2>1. \A r, c, x : Grid!Behind(Place(r, c, x)) <=> r = cur_row /\ c >= cur_col
      BY DEF Grid!Behind, Place
    <2> QED BY <1>4, <2>1 DEF ArePlaces
  <1> HIDE DEF N
  <1>6. ASSUME NEW r, NEW c, NEW x
        PROVE  PlacedAt(rows', r, c, x) <=> PlacedAt(rows, r, c, x) /\ ~(r = cur_row /\ c >= cur_col)
    <2>1. r \in Nat /\ r < m => r + 1 \in 1 .. m /\ (r + 1 = cur_row + 1 <=> r = cur_row)
      BY <1>1, <1>2
    <2>2. c \in Nat => (c < cur_col <=> ~(c >= cur_col))
      BY <1>2
    <2>3. \A w : ShowsAt(w, c, x) => c \in Nat
      BY DEF ShowsAt
    <2> HIDE DEF m
    <2>4. CASE r = cur_row
      <3>1. PlacedAt(rows', r, c, x) <=> ShowsAt(head, c, x)
        BY <1>1, <1>2, <2>1, <2>4 DEF PlacedAt
      <3>2. PlacedAt(rows, r, c, x) <=> ShowsAt(row, c, x)
        BY <1>1, <1>2, <2>4 DEF PlacedAt, m
      <3> HIDE DEF row
      <3> QED BY <1>1, <2>2, <2>3, <2>4, <3>1, <3>2
    <2>5. CASE r # cur_row
      BY <1>1, <2>1, <2>5 DEF PlacedAt, m
    <2> QED BY <2>4, <2>5
  <1>7. P = N
    BY <1>3, <1>5, <1>6, SamePlaces
  <1> QED BY <1>7 DEF P, N, Q

\* A line ended is a line of the grid; its texts have the strategy's two ways.
LEMMA GridLn ==
  ASSUME Whole, add_strategy \in {"REPLACE", "INSERT"}, ft_ln
  PROVE  Grid!Call \/ UNCHANGED Grid!texts
  <1>1. add_strategy' = add_strategy /\ last' = last
    BY DEF ft_ln
  <1>2. CASE LnSplits
    <2> DEFINE P == Placed(SplitRow)  F == {Grid!Fed(t) : t \in Placed(rows)}
    <2>1. /\ add_strategy = "INSERT" /\ InRow /\ rows' = SplitRow
          /\ cur_row' = cur_row + 1 /\ cur_col' = 0
      BY <1>2 DEF LnSplits, NextLine
    <2>2. /\ ArePlaces(P)
          /\ \A r, c, x : Place(r, c, x) \in P <=> r \in Nat /\ FedAt(r, c, x)
      BY <2>1, SplitPlaced
    <2>3. /\ ArePlaces(F)
          /\ \A r, c, x : Place(r, c, x) \in F <=> r \in Nat /\ FedAt(r, c, x)
      BY FedAre
    <2> HIDE DEF P, F
    <2>4. P = F
      BY <2>2, <2>3, SamePlaces
    <2>5. Placed(rows') = F
      BY <2>1, <2>4 DEF P
    <2> QED BY <1>1, <2>1, <2>5 DEF F, Grid!Call, Grid!Line, Grid!cursor
  <1>3. CASE LnMoves
    <2>1. rows' = rows /\ cur_row' = cur_row + 1 /\ cur_col' = 0
      BY <1>3 DEF LnMoves, NextLine
    <2>2. ASSUME add_strategy = "INSERT", NEW t \in Placed(rows) PROVE ~Grid!Behind(t)
      <3> SUFFICES ASSUME t.row = cur_row, t.col >= cur_col PROVE FALSE
        BY DEF Grid!Behind
      <3>1. PlacedAt(rows, t.row, t.col, t.text) /\ t.col \in Nat
        BY PlacesOf
      <3>2. cur_row < Len(rows.data) /\ t.col < Len(rows.data[cur_row + 1].data)
        BY <3>1 DEF PlacedAt, ShowsAt
      <3>3. cur_row \in Nat /\ cur_col \in Nat /\ Len(rows.data) \in Nat /\ ft_row_count = Len(rows.data)
        BY RowToWriteIs, VecIs DEF Whole, ft_row_count
      <3>4. rows.data[cur_row + 1] \in Vec(CellsUpTo(last))
        <4>1. cur_row + 1 \in 1 .. Len(rows.data)
          BY <3>2, <3>3
        <4> QED BY <4>1, VecIs DEF Whole
      <3>5. columns_in_row(vector_at(rows, cur_row)) = Len(rows.data[cur_row + 1].data)
            /\ Len(rows.data[cur_row + 1].data) \in Nat
        BY <3>4, VecIs DEF columns_in_row, vector_at
      <3>6. InRow
        BY <3>1, <3>2, <3>3, <3>5 DEF InRow
      <3> QED BY <1>3, <2>2, <3>6 DEF LnMoves
    <2>3. add_strategy = "REPLACE" \/ \A t \in Placed(rows) : ~Grid!Behind(t)
      BY <2>2
    <2> QED BY <1>1, <2>1, <2>3 DEF Grid!Call, Grid!Line, Grid!cursor
  <1>4. CASE LnFails
    <2>1. add_strategy = "INSERT" /\ InRow /\ cur_row' = cur_row /\ cur_col' = cur_col
      BY <1>4 DEF LnFails, cursor
    <2>2. CASE rows' = rows
      BY <1>1, <2>1, <2>2 DEF Grid!texts, Grid!cursor
    <2>3. CASE rows' = VectorSet(rows, cur_row, SplitHead(vector_at(rows, cur_row), cur_col))
      <3>1. Placed(rows') = {t \in Placed(rows) : ~Grid!Behind(t)}
        BY <2>1, <2>3, CutPlaced
      <3> QED BY <1>1, <2>1, <3>1 DEF Grid!Call, Grid!LineFails, Grid!cursor
    <2> QED BY <1>4, <2>2, <2>3 DEF LnFails
  <1> QED BY <1>2, <1>3, <1>4 DEF ft_ln

\* What a row shows whose cells between left and right went, if it has so many.
LEMMA ErasedShows ==
  ASSUME NEW S, NEW row \in Vec(S), NEW left \in Nat, NEW right \in Nat, left <= right,
         NEW new, new = IF left <= Len(row.data) THEN EraseCells(row, left, right) ELSE row
  PROVE  \A c, x : ShowsAt(new, c, x) <=>
           /\ c \in Nat
           /\ \/ c < left /\ ShowsAt(row, c, x)
              \/ c >= left /\ ShowsAt(row, c + (right + 1 - left), x)
  <1> DEFINE m == Len(row.data)  p == Len(new.data)
  <1>1. m \in Nat
    BY VecIs
  <1>2. CASE left <= m
    <2>1. IsClosed(row, new, left, right)
      BY <1>2, EraseCellsIs
    <2>2. /\ p = left + (IF right + 1 < m THEN m - (right + 1) ELSE 0)
          /\ \A k \in 1 .. p :
               new.data[k] = IF k <= left THEN row.data[k] ELSE row.data[right + 1 + (k - left)]
      BY <2>1 DEF IsClosed
    <2> HIDE DEF m, p
    <2>3. ASSUME NEW c \in Nat, c < left
          PROVE  c < p /\ c < m /\ Shown(new, c + 1) = Shown(row, c + 1) /\ ~(c >= left)
      <3>1. c < p /\ c < m /\ c + 1 \in 1 .. p /\ c + 1 <= left /\ ~(c >= left)
        BY <1>1, <1>2, <2>2, <2>3
      <3> QED BY <2>2, <3>1 DEF Shown
    <2>4. ASSUME NEW c \in Nat, c >= left
          PROVE  LET d == c + (right + 1 - left) IN
                 /\ d \in Nat /\ (c < p <=> d < m) /\ ~(c < left)
                 /\ c < p => Shown(new, c + 1) = Shown(row, d + 1)
      <3> DEFINE d == c + (right + 1 - left)
      <3>1. /\ d \in Nat /\ (c < p <=> d < m) /\ ~(c < left)
            /\ right + 1 + ((c + 1) - left) = d + 1 /\ ~(c + 1 <= left)
            /\ c < p => c + 1 \in 1 .. p
        BY <1>1, <1>2, <2>2, <2>4
      <3> HIDE DEF d
      <3>2. c < p => Shown(new, c + 1) = Shown(row, d + 1)
        BY <2>2, <3>1 DEF Shown
      <3> QED BY <3>1, <3>2 DEF d
    <2>5. ASSUME NEW c \in Nat, NEW x
          PROVE  ShowsAt(new, c, x) <=>
                   \/ c < left /\ ShowsAt(row, c, x)
                   \/ c >= left /\ ShowsAt(row, c + (right + 1 - left), x)
      <3>1. CASE c < left
        BY <2>3, <3>1 DEF ShowsAt, m, p
      <3>2. CASE c >= left
        <4> DEFINE d == c + (right + 1 - left)
        <4>1. /\ d \in Nat /\ (c < p <=> d < m) /\ ~(c < left)
              /\ c < p => Shown(new, c + 1) = Shown(row, d + 1)
          BY <2>4, <3>2
        <4> HIDE DEF d
        <4>2. ShowsAt(new, c, x) <=> ShowsAt(row, d, x)
          BY <4>1 DEF ShowsAt, m, p
        <4> QED BY <3>2, <4>1, <4>2 DEF d
      <3> QED BY <3>1, <3>2
    <2>6. \A c, x : ShowsAt(new, c, x) => c \in Nat
      BY DEF ShowsAt
    <2> QED BY <2>5, <2>6
  <1>3. CASE ~(left <= m)
    <2>1. new = row
      BY <1>3
    <2>2. ASSUME NEW c \in Nat, c >= left
          PROVE  ~(c < m) /\ ~(c + (right + 1 - left) < m) /\ ~(c < left)
      BY <1>1, <1>3, <2>2
    <2>3. \A c \in Nat : c < left \/ c >= left
      OBVIOUS
    <2> HIDE DEF m
    <2>4. ASSUME NEW c \in Nat, NEW x, c >= left
          PROVE  ~ShowsAt(row, c, x) /\ ~ShowsAt(row, c + (right + 1 - left), x) /\ ~(c < left)
      BY <2>2, <2>4 DEF ShowsAt, m
    <2>5. \A c, x : ShowsAt(row, c, x) => c \in Nat
      BY DEF ShowsAt
    <2>6. ASSUME NEW c, NEW x
          PROVE  ShowsAt(row, c, x) <=>
                   /\ c \in Nat
                   /\ \/ c < left /\ ShowsAt(row, c, x)
                      \/ c >= left /\ ShowsAt(row, c + (right + 1 - left), x)
      BY <2>3, <2>4, <2>5
    <2> QED BY <2>1, <2>6
  <1> QED BY <1>2, <1>3

\* The row k of the table when a rectangle is erased.
RowErased(k, top, left, bottom, right) ==
  IF k - 1 \in top .. bottom /\ left <= columns_in_row(rows.data[k])
  THEN EraseCells(rows.data[k], left, right) ELSE rows.data[k]

\* Each row of the table is that.
LEMMA ErasedAt ==
  ASSUME Whole, NEW top, NEW left, NEW bottom, NEW right, NEW k \in 1 .. Len(rows.data)
  PROVE  Erased(top, left, bottom, right).data[k] = RowErased(k, top, left, bottom, right)
  <1> DEFINE S == Vec(CellsUpTo(last))
             d == [j \in DOMAIN rows.data |-> RowErased(j, top, left, bottom, right)]
  <1>1. rows \in Vec(S)
    BY DEF Whole
  <1> HIDE DEF S
  <1>2. k \in DOMAIN rows.data
    BY <1>1, VecIs
  <1>3. Erased(top, left, bottom, right) = [rows EXCEPT !.data = d]
    BY DEF Erased, RowErased
  <1>4. d[k] = RowErased(k, top, left, bottom, right)
    BY <1>2
  <1> HIDE DEF d
  <1>5. [rows EXCEPT !.data = d] = [data |-> d, cap |-> rows.cap]
    BY <1>1, DataSet
  <1> QED BY <1>3, <1>4, <1>5

\* Where the texts are once the cells of a rectangle are gone.
ClosedAt(top, left, bottom, right, r, c, x) ==
  /\ c \in Nat
  /\ \/ ~(r \in top .. bottom /\ c >= left) /\ PlacedAt(rows, r, c, x)
     \/ r \in top .. bottom /\ c >= left /\ PlacedAt(rows, r, c + (right + 1 - left), x)

\* Erasing a rectangle leaves the texts where ClosedAt says.
LEMMA ErasedPlaced ==
  ASSUME Whole, NEW top \in Nat, NEW left \in Nat,
         NEW bottom \in Nat, NEW right \in Nat, left <= right
  PROVE  LET P == Placed(Erased(top, left, bottom, right)) IN
         /\ ArePlaces(P)
         /\ \A r, c, x : Place(r, c, x) \in P <=> ClosedAt(top, left, bottom, right, r, c, x)
  <1> DEFINE C == CellsUpTo(last)  m == Len(rows.data)  us == Erased(top, left, bottom, right)
             In(r) == r \in top .. bottom
  <1>1. rows \in Vec(Vec(C)) /\ m \in Nat
    BY VecIs DEF Whole
  <1>2. us \in Vec(Vec(C)) /\ Len(us.data) = m
    <2> HIDE DEF C
    <2> QED BY <1>1, ErasedIs
  <1>3. ArePlaces(Placed(us)) /\ \A r, c, x : Place(r, c, x) \in Placed(us) <=> PlacedAt(us, r, c, x)
    <2> HIDE DEF C, us
    <2> QED BY <1>2, PlacedIs
  <1>4. ASSUME NEW r \in Nat, r < m, NEW c, NEW x
        PROVE  ShowsAt(us.data[r + 1], c, x) <=>
                 /\ c \in Nat
                 /\ \/ ~(In(r) /\ c >= left) /\ ShowsAt(rows.data[r + 1], c, x)
                    \/ In(r) /\ c >= left /\ ShowsAt(rows.data[r + 1], c + (right + 1 - left), x)
    <2> DEFINE row == rows.data[r + 1]  new == us.data[r + 1]
    <2>1. r + 1 \in 1 .. m /\ (r + 1) - 1 = r
      BY <1>1, <1>4
    <2>2. new = IF In(r) /\ left <= Len(row.data) THEN EraseCells(row, left, right) ELSE row
      <3>1. columns_in_row(row) = Len(row.data)
        BY <1>1, <2>1, VecIs DEF columns_in_row
      <3> DEFINE k == r + 1
      <3>2. k \in 1 .. Len(rows.data) /\ k - 1 = r
        BY <2>1
      <3> HIDE DEF k, m, us, In, row, new
      <3>3. Erased(top, left, bottom, right).data[k] = RowErased(k, top, left, bottom, right)
        BY <3>2, ErasedAt
      <3> QED BY <3>1, <3>2, <3>3 DEF us, k, In, row, new, RowErased
    <2>3. row \in Vec(C)
      BY <1>1, <2>1, VecIs
    <2> HIDE DEF us, C, row, new
    <2>4. CASE In(r)
      <3>1. new = IF left <= Len(row.data) THEN EraseCells(row, left, right) ELSE row
        BY <2>2, <2>4
      <3> HIDE DEF In
      <3>2. ShowsAt(new, c, x) <=>
              /\ c \in Nat
              /\ \/ c < left /\ ShowsAt(row, c, x)
                 \/ c >= left /\ ShowsAt(row, c + (right + 1 - left), x)
        BY <2>3, <3>1, ErasedShows
      <3>3. c \in Nat => (c < left <=> ~(c >= left))
        OBVIOUS
      <3> QED BY <2>4, <3>2, <3>3 DEF row, new
    <2>5. CASE ~In(r)
      <3>1. new = row /\ \A y : ShowsAt(row, c, y) => c \in Nat
        BY <2>2, <2>5 DEF ShowsAt
      <3> HIDE DEF In
      <3> QED BY <2>5, <3>1 DEF row, new
    <2> QED BY <2>4, <2>5
  <1> HIDE DEF us, C
  <1>5. \A r, c, x : PlacedAt(us, r, c, x) <=> ClosedAt(top, left, bottom, right, r, c, x)
    <2> SUFFICES ASSUME NEW r, NEW c, NEW x
                 PROVE  PlacedAt(us, r, c, x) <=> ClosedAt(top, left, bottom, right, r, c, x)
      OBVIOUS
    <2>1. \A w : PlacedAt(w, r, c, x) => r \in Nat /\ c \in Nat
      BY DEF PlacedAt, ShowsAt
    <2>2. ClosedAt(top, left, bottom, right, r, c, x) => r \in Nat /\ r < m /\ c \in Nat
      BY DEF ClosedAt, PlacedAt
    <2>3. PlacedAt(us, r, c, x) => r \in Nat /\ r < m /\ c \in Nat
      BY <1>2, <2>1 DEF PlacedAt
    <2>4. ASSUME r \in Nat, r < m, c \in Nat
          PROVE  PlacedAt(us, r, c, x) <=> ClosedAt(top, left, bottom, right, r, c, x)
      <3>1. PlacedAt(us, r, c, x) <=> ShowsAt(us.data[r + 1], c, x)
        BY <1>2, <2>4 DEF PlacedAt
      <3>2. \A d : PlacedAt(rows, r, d, x) <=> ShowsAt(rows.data[r + 1], d, x)
        BY <2>4 DEF PlacedAt, m
      <3>3. ClosedAt(top, left, bottom, right, r, c, x) <=>
                 \/ ~(In(r) /\ c >= left) /\ ShowsAt(rows.data[r + 1], c, x)
                 \/ In(r) /\ c >= left /\ ShowsAt(rows.data[r + 1], c + (right + 1 - left), x)
        BY <2>4, <3>2 DEF ClosedAt
      <3> HIDE DEF In
      <3> QED BY <1>4, <2>4, <3>1, <3>3
    <2> QED BY <2>2, <2>3, <2>4
  <1> QED BY <1>3, <1>5 DEF us

\* That is where the grid closes them up.
LEMMA ClosedAre ==
  ASSUME Whole, NEW top \in Nat, NEW left \in Nat,
         NEW bottom \in Nat, NEW right \in Nat, left <= right
  PROVE  LET F == Grid!Closed(top, left, bottom, right) IN
         /\ ArePlaces(F)
         /\ \A r, c, x : Place(r, c, x) \in F <=> ClosedAt(top, left, bottom, right, r, c, x)
  <1> DEFINE P == Placed(rows)  F == Grid!Closed(top, left, bottom, right)
             In(r) == r \in top .. bottom
             n == right + 1 - left
             Staying == {u \in P : ~(In(u.row) /\ u.col \in left .. right)}
             To(t) == IF In(t.row) /\ t.col > right THEN Place(t.row, t.col - n, t.text) ELSE t
  <1>1. n \in Nat /\ n > 0 /\ left + n = right + 1
    OBVIOUS
  <1>2. \A r, c, x : Place(r, c, x) \in P <=> PlacedAt(rows, r, c, x)
    BY PlacedIs DEF Whole
  <1>3. \A t \in P : /\ t = Place(t.row, t.col, t.text) /\ PlacedAt(rows, t.row, t.col, t.text)
                     /\ t.row \in Nat /\ t.col \in Nat
    BY PlacesOf
  <1>4. F = {To(t) : t \in Staying}
    BY DEF Grid!Closed, Grid!At, Place
  <1> HIDE DEF P, F, In, n
  <1>5. ArePlaces(F)
    <2>1. \A t \in Staying : To(t) = Place(To(t).row, To(t).col, To(t).text)
      BY <1>3 DEF Place
    <2> HIDE DEF To, Staying
    <2> QED BY <1>4, <2>1 DEF ArePlaces
  <1>6. ASSUME NEW r, NEW c, NEW x, Place(r, c, x) \in F
        PROVE  ClosedAt(top, left, bottom, right, r, c, x)
    <2>1. PICK t \in Staying : Place(r, c, x) = To(t)
      BY <1>4, <1>6
    <2> DEFINE i == t.row  j == t.col  y == t.text
    <2>2. /\ t = Place(i, j, y) /\ PlacedAt(rows, i, j, y) /\ i \in Nat /\ j \in Nat
          /\ ~(In(i) /\ j \in left .. right)
      BY <1>3
    <2>3. CASE In(i) /\ j > right
      <3>1. r = i /\ c = j - n /\ x = y
        BY <2>1, <2>3 DEF Place
      <3> HIDE DEF i, j, y
      <3>2. j \in Nat
        BY <2>2
      <3>3. c \in Nat /\ c >= left /\ c + n = j
        BY <1>1, <2>3, <3>1, <3>2
      <3> QED BY <2>2, <2>3, <3>1, <3>3 DEF ClosedAt, In, n
    <2>4. CASE ~(In(i) /\ j > right)
      <3>1. r = i /\ c = j /\ x = y
        <4>1. To(t) = t
          BY <2>4
        <4>2. Place(r, c, x) = Place(i, j, y)
          BY <2>1, <2>2, <4>1
        <4> QED BY <4>2 DEF Place
      <3> HIDE DEF i, j, y
      <3>2. j \in Nat
        BY <2>2
      <3>3. ~(In(i) /\ j >= left)
        BY <2>2, <2>4, <3>2
      <3> QED BY <2>2, <3>1, <3>3 DEF ClosedAt, In
    <2> QED BY <2>3, <2>4
  <1>7. ASSUME NEW r, NEW c, NEW x, ClosedAt(top, left, bottom, right, r, c, x)
        PROVE  Place(r, c, x) \in F
    <2>0. ASSUME NEW j \in Nat, PlacedAt(rows, r, j, x), ~(In(r) /\ j \in left .. right),
                 To(Place(r, j, x)) = Place(r, c, x)
          PROVE  Place(r, c, x) \in F
      <3>1. Place(r, j, x) \in P
        BY <1>2, <2>0
      <3>2. Place(r, j, x) \in Staying
        BY <2>0, <3>1 DEF Place
      <3> HIDE DEF To, Staying
      <3> QED BY <1>4, <2>0, <3>2
    <2>1. c \in Nat
      BY <1>7 DEF ClosedAt
    <2>2. CASE ~(In(r) /\ c >= left) /\ PlacedAt(rows, r, c, x)
      <3>1. ~(In(r) /\ c \in left .. right) /\ ~(In(r) /\ c > right)
        BY <2>1, <2>2
      <3>2. To(Place(r, c, x)) = Place(r, c, x)
        BY <3>1 DEF Place
      <3> HIDE DEF To
      <3> QED BY <2>0, <2>1, <2>2, <3>1, <3>2
    <2>3. CASE In(r) /\ c >= left /\ PlacedAt(rows, r, c + n, x)
      <3>1. c + n > right /\ c + n \in Nat /\ (c + n) - n = c /\ ~(c + n \in left .. right)
        BY <1>1, <2>1, <2>3
      <3>2. To(Place(r, c + n, x)) = Place(r, c, x)
        BY <2>3, <3>1 DEF Place
      <3> HIDE DEF To
      <3> QED BY <2>0, <2>3, <3>1, <3>2
    <2> QED BY <1>7, <2>2, <2>3 DEF ClosedAt, In, n
  <1> QED BY <1>5, <1>6, <1>7 DEF F

\* The grid counts as the table does.
LEMMA GridCounts ==
  ASSUME NEW S
  PROVE  Grid!Cardinality(S) = Cardinality(S)
BY DEF Grid!Cardinality, Cardinality

\* What a row becomes when rows go: those before it do not count twice, and one
\* behind it does not count.
LEMMA RowLeftIs ==
  ASSUME NEW S, NEW r \in Int
  PROVE  /\ (\A s \in S : s < r) => Grid!RowLeft(S, r) = r - Cardinality(S)
         /\ \A o \in Int : r <= o => Grid!RowLeft(S \cup {o}, r) = Grid!RowLeft(S, r)
  <1>1. (\A s \in S : s < r) => {k \in S : k < r} = S
    OBVIOUS
  <1>2. ASSUME NEW o \in Int, r <= o PROVE {k \in S \cup {o} : k < r} = {k \in S : k < r}
    <2>1. ~(o < r)
      BY <1>2
    <2> DEFINE A == {k \in S \cup {o} : k < r}  B == {k \in S : k < r}
    <2>2. \A k : k \in A <=> k \in B
      BY <2>1
    <2> HIDE DEF A, B
    <2>3. A = B
      BY <2>2
    <2> QED BY <2>3 DEF A, B
  <1>3. (\A s \in S : s < r) => Grid!RowLeft(S, r) = r - Cardinality(S)
    BY <1>1, GridCounts DEF Grid!RowLeft
  <1>4. \A o \in Int : r <= o => Grid!RowLeft(S \cup {o}, r) = Grid!RowLeft(S, r)
    BY <1>2 DEF Grid!RowLeft
  <1> QED BY <1>3, <1>4

\* In a turn w of the loop the rows S of rs are gone: they were empty, those
\* before the next one moved up by the rows gone before each, the others by all.
Gone(rs, w, S) ==
  LET o == Was(rs, w) IN
  /\ o = w.i + Cardinality(S) /\ w.i <= Len(w.rs.data)
  /\ \A s \in S : /\ s \in Nat /\ s < o /\ s < Len(rs.data)
                  /\ Len(rs.data[s + 1].data) = 0
  /\ \A r \in Nat : r < o /\ r \notin S =>
       /\ Grid!RowLeft(S, r) \in Nat /\ Grid!RowLeft(S, r) < w.i
       /\ w.rs.data[Grid!RowLeft(S, r) + 1] = rs.data[r + 1]
  /\ \A i \in Nat : i < w.i => \E r \in Nat : r < o /\ r \notin S /\ Grid!RowLeft(S, r) = i
  /\ \A r \in Nat : o <= r /\ r < Len(rs.data) =>
       w.rs.data[w.i + (r - o) + 1] = rs.data[r + 1]

\* Before the loop none is gone.
LEMMA GoneNone ==
  ASSUME NEW C, NEW rs \in Vec(Vec(C)), NEW top \in Nat, top <= Len(rs.data), NEW sep
  PROVE  Gone(rs, [i |-> top, rs |-> rs, sep |-> sep], {})
  <1> DEFINE w == [i |-> top, rs |-> rs, sep |-> sep]
  <1>1. Len(rs.data) \in Nat
    BY VecIs
  <1>2. w.i = top /\ w.rs = rs
    OBVIOUS
  <1> HIDE DEF w
  <1>3. Was(rs, w) = top
    BY <1>1, <1>2 DEF Was
  <1>4. Cardinality({}) = 0
    BY FS_EmptySet
  <1>5. \A r \in Nat : Grid!RowLeft({}, r) = r
    BY <1>4, RowLeftIs
  <1>6. \A r \in Nat : top + (r - top) + 1 = r + 1
    OBVIOUS
  <1>7. top = top + 0
    OBVIOUS
  <1>8. \A r \in Nat : r \notin {}
    OBVIOUS
  <1>9. Gone(rs, w, {}) <=>
          /\ top = top + Cardinality({}) /\ top <= Len(rs.data)
          /\ \A s \in {} : /\ s \in Nat /\ s < top /\ s < Len(rs.data)
                           /\ Len(rs.data[s + 1].data) = 0
          /\ \A r \in Nat : r < top /\ r \notin {} =>
               /\ Grid!RowLeft({}, r) \in Nat /\ Grid!RowLeft({}, r) < top
               /\ rs.data[Grid!RowLeft({}, r) + 1] = rs.data[r + 1]
          /\ \A i \in Nat : i < top =>
               \E r \in Nat : r < top /\ r \notin {} /\ Grid!RowLeft({}, r) = i
          /\ \A r \in Nat : top <= r /\ r < Len(rs.data) =>
               rs.data[top + (r - top) + 1] = rs.data[r + 1]
    BY <1>2, <1>3 DEF Gone
  <1>10. Gone(rs, w, {})
    BY <1>4, <1>5, <1>6, <1>7, <1>8, <1>9
  <1> QED BY <1>10 DEF w

\* A row with cells is passed by.
LEMMA GonePass ==
  ASSUME NEW C, NEW rs \in Vec(Vec(C)), NEW w \in Loop(C), w.i < Len(w.rs.data),
         NEW S, IsFiniteSet(S), Gone(rs, w, S),
         NEW u, u.i = w.i + 1, u.rs = w.rs
  PROVE  Gone(rs, u, S)
  <1> DEFINE o == Was(rs, w)  j == w.i  p == Len(rs.data)  q == Len(w.rs.data)
             n == Cardinality(S)
  <1>1. j \in Nat /\ p \in Nat /\ q \in Nat /\ n \in Nat
    BY VecIs, FS_CardinalityType DEF Loop
  <1>2. /\ o = j + n /\ o = j + (p - q) /\ j < q
        /\ \A s \in S : /\ s \in Nat /\ s < o /\ s < p
                        /\ Len(rs.data[s + 1].data) = 0
        /\ \A r \in Nat : r < o /\ r \notin S =>
             /\ Grid!RowLeft(S, r) \in Nat /\ Grid!RowLeft(S, r) < j
             /\ w.rs.data[Grid!RowLeft(S, r) + 1] = rs.data[r + 1]
        /\ \A i \in Nat : i < j => \E r \in Nat : r < o /\ r \notin S /\ Grid!RowLeft(S, r) = i
        /\ \A r \in Nat : o <= r /\ r < p => w.rs.data[j + (r - o) + 1] = rs.data[r + 1]
    BY DEF Gone, Was
  <1>3. Was(rs, u) = (j + 1) + (p - q)
    BY DEF Was
  <1> HIDE DEF o, j, p, q, n
  <1>0. o = j + n /\ o = j + (p - q) /\ j < q
    BY <1>2
  <1>4. /\ o \in Nat /\ o < p /\ Was(rs, u) = o + 1 /\ o + 1 = (j + 1) + n
        /\ j + (o - o) + 1 = j + 1 /\ j + 1 <= q
    BY <1>0, <1>1, <1>3
  <1>5. o \notin S /\ Grid!RowLeft(S, o) = j
    <2>1. Grid!RowLeft(S, o) = o - n
      BY <1>2, <1>4, RowLeftIs DEF n
    <2>2. o \notin S
      BY <1>2, <1>4
    <2> QED BY <1>0, <1>1, <2>1, <2>2
  <1>6. w.rs.data[j + 1] = rs.data[o + 1]
    BY <1>2, <1>4
  <1>7. ASSUME NEW s \in S PROVE s \in Nat /\ s < o + 1 /\ s < p /\ Len(rs.data[s + 1].data) = 0
    BY <1>2, <1>4
  <1>8. ASSUME NEW r \in Nat, r < o + 1, r \notin S
        PROVE  /\ Grid!RowLeft(S, r) \in Nat /\ Grid!RowLeft(S, r) < j + 1
               /\ w.rs.data[Grid!RowLeft(S, r) + 1] = rs.data[r + 1]
    <2>1. CASE r < o
      <3>1. /\ Grid!RowLeft(S, r) \in Nat /\ Grid!RowLeft(S, r) < j
            /\ w.rs.data[Grid!RowLeft(S, r) + 1] = rs.data[r + 1]
        BY <1>2, <1>8, <2>1
      <3> QED BY <1>1, <3>1
    <2>2. CASE r = o
      <3>1. j < j + 1
        BY <1>1
      <3> QED BY <1>1, <1>5, <1>6, <2>2, <3>1
    <2>3. r < o \/ r = o
      BY <1>4, <1>8
    <2> QED BY <2>1, <2>2, <2>3
  <1>9. ASSUME NEW i \in Nat, i < j + 1
        PROVE  \E r \in Nat : r < o + 1 /\ r \notin S /\ Grid!RowLeft(S, r) = i
    <2>1. CASE i < j
      <3>1. PICK r \in Nat : r < o /\ r \notin S /\ Grid!RowLeft(S, r) = i
        BY <1>2, <2>1
      <3>2. r < o + 1
        BY <1>4, <3>1
      <3> QED BY <3>1, <3>2
    <2>2. CASE i = j
      <3>1. o < o + 1
        BY <1>4
      <3> QED BY <1>4, <1>5, <2>2, <3>1
    <2>3. i < j \/ i = j
      BY <1>1, <1>9
    <2> QED BY <2>1, <2>2, <2>3
  <1>10. ASSUME NEW r \in Nat, o + 1 <= r, r < p
         PROVE  w.rs.data[(j + 1) + (r - (o + 1)) + 1] = rs.data[r + 1]
    <2>1. (j + 1) + (r - (o + 1)) + 1 = j + (r - o) + 1 /\ o <= r
      BY <1>1, <1>4, <1>10
    <2> QED BY <1>2, <1>10, <2>1
  <1> QED BY <1>4, <1>7, <1>8, <1>9, <1>10 DEF Gone, j, p, q, n

\* A row without goes.
LEMMA GoneMore ==
  ASSUME NEW C, NEW rs \in Vec(Vec(C)), NEW w \in Loop(C), w.i < Len(w.rs.data),
         NEW S, IsFiniteSet(S), Gone(rs, w, S), Len(w.rs.data[w.i + 1].data) = 0,
         NEW u, u.i = w.i, u.rs = vector_erase(w.rs, w.i)
  PROVE  Gone(rs, u, S \cup {Was(rs, w)})
  <1> DEFINE o == Was(rs, w)  j == w.i  p == Len(rs.data)  q == Len(w.rs.data)
             n == Cardinality(S)
             T == S \cup {o}
  <1>1. j \in Nat /\ p \in Nat /\ q \in Nat /\ n \in Nat /\ w.rs \in Vec(Vec(C))
    BY VecIs, FS_CardinalityType DEF Loop
  <1>2. /\ o = j + n /\ o = j + (p - q) /\ j < q
        /\ \A s \in S : /\ s \in Nat /\ s < o /\ s < p
                        /\ Len(rs.data[s + 1].data) = 0
        /\ \A r \in Nat : r < o /\ r \notin S =>
             /\ Grid!RowLeft(S, r) \in Nat /\ Grid!RowLeft(S, r) < j
             /\ w.rs.data[Grid!RowLeft(S, r) + 1] = rs.data[r + 1]
        /\ \A i \in Nat : i < j => \E r \in Nat : r < o /\ r \notin S /\ Grid!RowLeft(S, r) = i
        /\ \A r \in Nat : o <= r /\ r < p => w.rs.data[j + (r - o) + 1] = rs.data[r + 1]
    BY DEF Gone, Was
  <1>3. /\ Len(u.rs.data) = q - 1
        /\ \A k \in 1 .. q - 1 : u.rs.data[k] = IF k <= j THEN w.rs.data[k] ELSE w.rs.data[k + 1]
    <2> DEFINE v == w.rs  e == vector_erase(v, j)  D == Vec(C)
    <2>1. v \in Vec(D) /\ j \in Nat /\ j < Len(v.data) /\ u.rs = e
      BY <1>1
    <2> HIDE DEF v, e, D, j
    <2>2. /\ Len(e.data) = Len(v.data) - 1
          /\ \A k \in 1 .. Len(e.data) : e.data[k] = IF k <= j THEN v.data[k] ELSE v.data[k + 1]
      BY <2>1, EraseIs DEF e
    <2> QED BY <2>1, <2>2 DEF v
  <1>4. Was(rs, u) = j + (p - (q - 1)) /\ Len(w.rs.data[j + 1].data) = 0
    BY <1>3 DEF Was
  <1> HIDE DEF o, j, p, q, n
  <1>0. o = j + n /\ o = j + (p - q) /\ j < q
    BY <1>2
  <1>5. /\ o \in Nat /\ o < p /\ Was(rs, u) = o + 1 /\ j + (o - o) + 1 = j + 1
        /\ j <= Len(u.rs.data)
    <2>1. Was(rs, u) = j + (p - (q - 1)) /\ Len(u.rs.data) = q - 1
      BY <1>3, <1>4
    <2> QED BY <1>0, <1>1, <2>1
  <1>6. o \notin S
    BY <1>2, <1>5
  <1>7. o + 1 = j + Cardinality(T)
    <2>1. Cardinality(T) = n + 1
      BY <1>6, FS_AddElement DEF n
    <2> QED BY <1>0, <1>1, <2>1
  <1>8. Len(rs.data[o + 1].data) = 0
    <2>1. w.rs.data[j + 1] = rs.data[o + 1]
      BY <1>2, <1>5
    <2> QED BY <1>4, <2>1
  <1>9. ASSUME NEW s \in T PROVE s \in Nat /\ s < o + 1 /\ s < p /\ Len(rs.data[s + 1].data) = 0
    <2>1. CASE s \in S
      BY <1>2, <1>5, <2>1
    <2>2. CASE s = o
      BY <1>5, <1>8, <2>2
    <2> QED BY <2>1, <2>2
  <1>10. ASSUME NEW r \in Nat, r < o + 1, r \notin T
         PROVE  /\ Grid!RowLeft(T, r) \in Nat /\ Grid!RowLeft(T, r) < j
                /\ u.rs.data[Grid!RowLeft(T, r) + 1] = rs.data[r + 1]
    <2>1. r < o /\ r \notin S /\ r <= o
      BY <1>5, <1>10
    <2>2. Grid!RowLeft(T, r) = Grid!RowLeft(S, r)
      BY <1>5, <2>1, RowLeftIs
    <2> DEFINE l == Grid!RowLeft(S, r)
    <2>3. l \in Nat /\ l < j /\ w.rs.data[l + 1] = rs.data[r + 1]
      BY <1>2, <2>1
    <2> HIDE DEF l
    <2>4. l + 1 \in 1 .. q - 1 /\ l + 1 <= j
      BY <1>0, <1>1, <2>3
    <2>5. u.rs.data[l + 1] = rs.data[r + 1]
      BY <1>3, <2>3, <2>4
    <2> QED BY <2>2, <2>3, <2>5 DEF l
  <1>11. ASSUME NEW i \in Nat, i < j
         PROVE  \E r \in Nat : r < o + 1 /\ r \notin T /\ Grid!RowLeft(T, r) = i
    <2>1. PICK r \in Nat : r < o /\ r \notin S /\ Grid!RowLeft(S, r) = i
      BY <1>2, <1>11
    <2>2. r < o + 1 /\ r <= o /\ r # o
      BY <1>5, <2>1
    <2>3. Grid!RowLeft(T, r) = i
      BY <1>5, <2>1, <2>2, RowLeftIs
    <2> QED BY <2>1, <2>2, <2>3
  <1>12. ASSUME NEW r \in Nat, o + 1 <= r, r < p
         PROVE  u.rs.data[j + (r - (o + 1)) + 1] = rs.data[r + 1]
    <2> DEFINE k == j + (r - (o + 1)) + 1
    <2>1. k + 1 = j + (r - o) + 1 /\ o <= r /\ ~(k <= j) /\ k \in 1 .. q - 1
      BY <1>0, <1>1, <1>5, <1>12
    <2> HIDE DEF k
    <2>2. u.rs.data[k] = w.rs.data[k + 1]
      BY <1>3, <2>1
    <2>3. w.rs.data[k + 1] = rs.data[r + 1]
      BY <1>2, <1>12, <2>1
    <2> QED BY <2>2, <2>3 DEF k
  <1> HIDE DEF T
  <1>13. Gone(rs, u, T)
    BY <1>5, <1>7, <1>9, <1>10, <1>11, <1>12 DEF Gone, j, p
  <1> QED BY <1>13 DEF T, o

\* The texts that are left, and where.
LEMMA GonePlaced ==
  ASSUME NEW C, NEW rs \in Vec(Vec(C)), NEW w \in Loop(C),
         NEW S, IsFiniteSet(S), Gone(rs, w, S)
  PROVE  Placed(w.rs) = {Grid!At(Grid!RowLeft(S, t.row), t.col, t.text) : t \in Placed(rs)}
  <1> DEFINE o == Was(rs, w)  j == w.i  p == Len(rs.data)  q == Len(w.rs.data)
             n == Cardinality(S)
             P == Placed(w.rs)  R == Placed(rs)
             To(t) == Place(Grid!RowLeft(S, t.row), t.col, t.text)
             Q == {To(t) : t \in R}
  <1>1. j \in Nat /\ p \in Nat /\ q \in Nat /\ n \in Nat /\ w.rs \in Vec(Vec(C))
    BY VecIs, FS_CardinalityType DEF Loop
  <1>2. /\ o = j + n /\ o = j + (p - q) /\ j <= q
        /\ \A s \in S : /\ s \in Nat /\ s < o /\ s < p
                        /\ Len(rs.data[s + 1].data) = 0
        /\ \A r \in Nat : r < o /\ r \notin S =>
             /\ Grid!RowLeft(S, r) \in Nat /\ Grid!RowLeft(S, r) < j
             /\ w.rs.data[Grid!RowLeft(S, r) + 1] = rs.data[r + 1]
        /\ \A i \in Nat : i < j => \E r \in Nat : r < o /\ r \notin S /\ Grid!RowLeft(S, r) = i
        /\ \A r \in Nat : o <= r /\ r < p => w.rs.data[j + (r - o) + 1] = rs.data[r + 1]
    BY DEF Gone, Was
  <1>3. /\ ArePlaces(P) /\ ArePlaces(R)
        /\ \A r, c, x : Place(r, c, x) \in P <=> PlacedAt(w.rs, r, c, x)
        /\ \A r, c, x : Place(r, c, x) \in R <=> PlacedAt(rs, r, c, x)
    BY <1>1, PlacedIs
  <1>4. {Grid!At(Grid!RowLeft(S, t.row), t.col, t.text) : t \in Placed(rs)} = Q
    BY DEF Grid!At, Place
  <1> HIDE DEF P, R, o, j, p, q, n
  <1>0. o = j + n /\ o = j + (p - q) /\ j <= q
    BY <1>2
  <1>5. o \in Nat
    BY <1>0, <1>1
  <1>6. \A r \in Nat : o <= r => Grid!RowLeft(S, r) = j + (r - o)
    <2> SUFFICES ASSUME NEW r \in Nat, o <= r PROVE Grid!RowLeft(S, r) = j + (r - o)
      OBVIOUS
    <2>1. \A s \in S : s < r
      BY <1>2, <1>5
    <2>2. Grid!RowLeft(S, r) = r - n
      BY <2>1, RowLeftIs DEF n
    <2> QED BY <1>0, <1>1, <2>2
  <1>7. ArePlaces(Q)
    BY DEF ArePlaces, Place
  <1>8. ASSUME NEW i, NEW c, NEW x, Place(i, c, x) \in P PROVE Place(i, c, x) \in Q
    <2>1. i \in Nat /\ i < q /\ ShowsAt(w.rs.data[i + 1], c, x)
      BY <1>3, <1>8 DEF PlacedAt, q
    <2>2. ASSUME NEW r \in Nat, r < p, Grid!RowLeft(S, r) = i, rs.data[r + 1] = w.rs.data[i + 1]
          PROVE  Place(i, c, x) \in Q
      <3>1. Place(r, c, x) \in R
        BY <1>3, <2>1, <2>2 DEF PlacedAt, p
      <3>2. To(Place(r, c, x)) = Place(i, c, x)
        BY <2>2 DEF Place
      <3> HIDE DEF To
      <3> QED BY <3>1, <3>2
    <2>3. CASE i < j
      <3>1. PICK r \in Nat : r < o /\ r \notin S /\ Grid!RowLeft(S, r) = i
        BY <1>2, <2>1, <2>3
      <3>2. w.rs.data[i + 1] = rs.data[r + 1]
        BY <1>2, <3>1
      <3>3. r < p
        BY <1>0, <1>1, <2>3, <3>1
      <3> QED BY <2>2, <3>1, <3>2, <3>3
    <2>4. CASE ~(i < j)
      <3> DEFINE r == o + (i - j)
      <3>1. r \in Nat /\ r < p /\ o <= r /\ j + (r - o) = i
        <4>1. i \in Nat /\ i < q
          BY <2>1
        <4> QED BY <1>0, <1>1, <1>5, <2>4, <4>1
      <3> HIDE DEF r
      <3>2. w.rs.data[i + 1] = rs.data[r + 1] /\ Grid!RowLeft(S, r) = i
        BY <1>2, <1>6, <3>1
      <3> QED BY <2>2, <3>1, <3>2
    <2> QED BY <2>3, <2>4
  <1>9. ASSUME NEW t \in R PROVE To(t) \in P
    <2> DEFINE r == t.row  c == t.col  x == t.text
    <2>1. t = Place(r, c, x)
      BY <1>3 DEF ArePlaces
    <2>2. PlacedAt(rs, r, c, x)
      BY <1>3, <2>1
    <2>3. To(t) = Place(Grid!RowLeft(S, r), c, x)
      OBVIOUS
    <2> HIDE DEF r, c, x, To
    <2>4. r \in Nat /\ r < p /\ ShowsAt(rs.data[r + 1], c, x)
      BY <2>2 DEF PlacedAt, p
    <2>5. ASSUME Grid!RowLeft(S, r) \in Nat, Grid!RowLeft(S, r) < q,
                 w.rs.data[Grid!RowLeft(S, r) + 1] = rs.data[r + 1]
          PROVE  To(t) \in P
      BY <1>3, <2>3, <2>4, <2>5 DEF PlacedAt, q
    <2>6. r \notin S
      BY <1>2, <2>4 DEF ShowsAt
    <2>7. CASE r < o
      <3>1. /\ Grid!RowLeft(S, r) \in Nat /\ Grid!RowLeft(S, r) < j
            /\ w.rs.data[Grid!RowLeft(S, r) + 1] = rs.data[r + 1]
        BY <1>2, <2>4, <2>6, <2>7
      <3>2. Grid!RowLeft(S, r) < q
        BY <1>0, <1>1, <3>1
      <3> QED BY <2>5, <3>1, <3>2
    <2>8. CASE ~(r < o)
      <3>1. Grid!RowLeft(S, r) = j + (r - o) /\ w.rs.data[j + (r - o) + 1] = rs.data[r + 1]
        <4>1. o <= r
          BY <1>5, <2>4, <2>8
        <4> QED BY <1>2, <1>6, <2>4, <4>1
      <3>2. j + (r - o) \in Nat /\ j + (r - o) < q
        BY <1>0, <1>1, <1>5, <2>4, <2>8
      <3> QED BY <2>5, <3>1, <3>2
    <2> QED BY <2>7, <2>8
  <1>10. \A r, c, x : Place(r, c, x) \in P <=> Place(r, c, x) \in Q
    <2> HIDE DEF To
    <2> QED BY <1>8, <1>9
  <1> HIDE DEF Q
  <1>11. P = Q
    BY <1>3, <1>7, <1>10, SamePlaces
  <1> QED BY <1>4, <1>11 DEF P

\* What is erased in the program is erased in the grid, with the rows that go.
LEMMA GridErase ==
  ASSUME Whole, AnyErase
  PROVE  Grid!Call \/ UNCHANGED Grid!texts
  <1> DEFINE C == CellsUpTo(last)
  <1>1. PICK top \in RowArgs, bottom \in RowArgs, left \in ColArgs, right \in ColArgs :
               ft_erase_range(top, left, bottom, right)
    BY DEF AnyErase
  <1>2. /\ top \in Nat /\ bottom \in Nat /\ left \in Nat /\ right \in Nat
        /\ top <= bottom /\ left <= right
    BY <1>1, ArgsAre DEF ft_erase_range
  <1>3. last \in Nat /\ rows \in Vec(Vec(C)) /\ separators \in Vec(BOOLEAN) /\ Len(rows.data) \in Nat
    BY RowToWriteIs, VecIs DEF Whole, IInv
  <1>4. /\ cur_row' = cur_row /\ cur_col' = cur_col /\ add_strategy' = add_strategy
        /\ last' = last
    BY <1>1 DEF ft_erase_range, cursor
  <1>5. CASE ~InTable(top, left, bottom)
    <2>1. rows' = rows
      BY <1>1, <1>5 DEF ft_erase_range
    <2> QED BY <1>4, <2>1 DEF Grid!texts, Grid!cursor
  <1>6. CASE InTable(top, left, bottom)
    <2> DEFINE rs == Erased(top, left, bottom, right)
               n == Smaller(ft_row_count, bottom + 1) - top
               base == [i |-> top, rs |-> rs, sep |-> separators]
    <2>1. RemoveRows(rs, top, n)
      BY <1>1, <1>6 DEF ft_erase_range
    <2>2. rs \in Vec(Vec(C)) /\ Len(rs.data) = Len(rows.data)
      <3>1. /\ rows \in Vec(Vec(C)) /\ left <= right
            /\ top \in Nat /\ bottom \in Nat /\ left \in Nat /\ right \in Nat
        BY <1>2, <1>3
      <3> HIDE DEF C
      <3>2. /\ Erased(top, left, bottom, right) \in Vec(Vec(C))
            /\ Len(Erased(top, left, bottom, right).data) = Len(rows.data)
        BY <3>1, ErasedIs
      <3> QED BY <3>2
    <2>3. n \in Nat /\ top + n <= Len(rs.data)
      BY <1>2, <1>6, <2>2, LoopInTable
    <2>4. top + n <= bottom + 1
      <3>1. ft_row_count \in Nat
        BY <1>3, VecIs DEF ft_row_count
      <3> QED BY <1>2, <3>1 DEF Smaller
    <2>5. Placed(rs) = Grid!Closed(top, left, bottom, right)
      <3> DEFINE P == Placed(rs)  F == Grid!Closed(top, left, bottom, right)
      <3>1. /\ ArePlaces(P)
            /\ \A r, c, x : Place(r, c, x) \in P <=> ClosedAt(top, left, bottom, right, r, c, x)
        BY <1>2, ErasedPlaced
      <3>2. /\ ArePlaces(F)
            /\ \A r, c, x : Place(r, c, x) \in F <=> ClosedAt(top, left, bottom, right, r, c, x)
        BY <1>2, ClosedAre
      <3> HIDE DEF P, F
      <3>3. P = F
        BY <3>1, <3>2, SamePlaces
      <3> QED BY <3>3 DEF P, F
    <2> HIDE DEF rs, n, C
    <2> DEFINE In == top .. bottom
               I == {w \in Loop(C) : top <= w.i /\ \E S \in SUBSET In : Gone(rs, w, S)}
    <2>6. \A S \in SUBSET In : IsFiniteSet(S) /\ Cardinality(S) \in Nat
      <3>1. IsFiniteSet(In)
        BY <1>2, FS_Interval
      <3> HIDE DEF In
      <3> QED BY <3>1, FS_Subset, FS_CardinalityType
    <2>7. base \in I
      <3>1. base \in Loop(C) /\ top <= base.i
        BY <1>2, <1>3, <2>2 DEF Loop
      <3>2. top <= Len(rs.data)
        BY <1>2, <1>3, <2>2, <2>3
      <3>3. Gone(rs, base, {})
        BY <1>2, <2>2, <3>2, GoneNone
      <3>4. {} \in SUBSET In
        OBVIOUS
      <3> HIDE DEF base, In
      <3> QED BY <3>1, <3>3, <3>4
    <2>8. ASSUME NEW w \in I, w.i < Len(w.rs.data), Was(rs, w) < top + n
          PROVE  RemoveOne(w) \in I
      <3> DEFINE u == RemoveOne(w)
      <3>1. w \in Loop(C) /\ top <= w.i
        OBVIOUS
      <3>2. PICK S \in SUBSET In : Gone(rs, w, S)
        OBVIOUS
      <3>3. /\ u \in Loop(C)
            /\ \/ u.i = w.i + 1 /\ Len(u.rs.data) = Len(w.rs.data)
               \/ u.i = w.i /\ Len(u.rs.data) = Len(w.rs.data) - 1
            /\ \/ u.rs = w.rs /\ u.sep = w.sep
               \/ /\ Len(w.rs.data[w.i + 1].data) = 0
                  /\ u.rs = vector_erase(w.rs, w.i)
                  /\ u.sep = IF w.i < Len(w.sep.data) THEN vector_erase(w.sep, w.i) ELSE w.sep
        BY <2>8, <3>1, RemoveOneIs
      <3>4. w.i \in Nat /\ Len(w.rs.data) \in Nat /\ w.rs \in Vec(Vec(C))
        BY <3>1, VecIs DEF Loop
      <3> HIDE DEF u, In
      <3>5. CASE u.i = w.i + 1 /\ Len(u.rs.data) = Len(w.rs.data)
        <4>1. u.rs = w.rs
          <5>1. CASE u.rs = vector_erase(w.rs, w.i)
            <6> DEFINE D == Vec(C)  v == w.rs
            <6>1. v \in Vec(D) /\ w.i \in Nat /\ w.i < Len(v.data)
              BY <2>8, <3>4
            <6> HIDE DEF D, v
            <6>2. Len(vector_erase(v, w.i).data) = Len(v.data) - 1
              BY <6>1, EraseIs
            <6>3. Len(u.rs.data) = Len(w.rs.data) - 1
              BY <5>1, <6>2 DEF v
            <6> QED BY <3>4, <3>5, <6>3
          <5> QED BY <3>3, <5>1
        <4>2. IsFiniteSet(S)
          BY <2>6, <3>2
        <4>3. Gone(rs, u, S)
          BY <2>2, <2>8, <3>1, <3>2, <3>5, <4>1, <4>2, GonePass
        <4>4. top <= u.i
          BY <1>2, <3>1, <3>4, <3>5
        <4> QED BY <3>3, <4>3, <4>4 DEF u
      <3>6. CASE u.i = w.i /\ Len(u.rs.data) = Len(w.rs.data) - 1
        <4>1. Len(w.rs.data[w.i + 1].data) = 0 /\ u.rs = vector_erase(w.rs, w.i)
          <5>1. u.rs # w.rs
            BY <3>4, <3>6
          <5> QED BY <3>3, <5>1
        <4>2. IsFiniteSet(S) /\ Cardinality(S) \in Nat
          BY <2>6, <3>2
        <4> DEFINE o == Was(rs, w)
        <4>3. Gone(rs, u, S \cup {o})
          BY <2>2, <2>8, <3>1, <3>2, <3>6, <4>1, <4>2, GoneMore
        <4>4. o = w.i + Cardinality(S)
          BY <3>2 DEF Gone
        <4> HIDE DEF o
        <4>5. o \in In
          <5>1. o \in Nat /\ top <= o
            BY <1>2, <3>1, <3>4, <4>2, <4>4
          <5>2. o < top + n
            BY <2>8 DEF o
          <5> QED BY <1>2, <2>3, <2>4, <5>1, <5>2 DEF In
        <4>6. S \cup {o} \in SUBSET In
          BY <4>5
        <4>7. top <= u.i
          BY <3>1, <3>6
        <4> QED BY <3>3, <4>3, <4>6, <4>7 DEF u
      <3> QED BY <3>3, <3>5, <3>6
    <2>9. I \in SUBSET Loop(C)
      OBVIOUS
    <2> HIDE DEF I, In
    <2>10. PICK w \in I : rows' = w.rs
      <3>1. \E w \in I : rows' = w.rs /\ separators' = w.sep
        BY <1>2, <1>3, <2>1, <2>2, <2>3, <2>7, <2>8, <2>9, RemoveRule
      <3> QED BY <3>1
    <2>11. PICK S \in SUBSET In : Gone(rs, w, S) /\ w \in Loop(C)
      BY <2>10 DEF I
    <2> DEFINE closed == Grid!Closed(top, left, bottom, right)
               Empty == {r \in top .. bottom : \A t \in closed : t.row # r}
    <2>12. Placed(rows') = {Grid!At(Grid!RowLeft(S, t.row), t.col, t.text) : t \in closed}
      <3>1. IsFiniteSet(S)
        BY <2>6
      <3>2. Placed(w.rs) = {Grid!At(Grid!RowLeft(S, t.row), t.col, t.text) : t \in Placed(rs)}
        BY <2>2, <2>11, <3>1, GonePlaced
      <3> QED BY <2>5, <2>10, <3>2
    <2>13. S \in SUBSET Empty
      <3> SUFFICES ASSUME NEW s \in S, NEW t \in closed, t.row = s PROVE FALSE
        BY DEF In
      <3>1. Len(rs.data[s + 1].data) = 0
        BY <2>11 DEF Gone
      <3>2. /\ ArePlaces(Placed(rs))
            /\ \A r, c, x : Place(r, c, x) \in Placed(rs) <=> PlacedAt(rs, r, c, x)
        BY <2>2, PlacedIs
      <3>3. t \in Placed(rs)
        BY <2>5
      <3>4. t = Place(t.row, t.col, t.text)
        BY <3>2, <3>3 DEF ArePlaces
      <3>5. PlacedAt(rs, t.row, t.col, t.text)
        BY <3>2, <3>3, <3>4
      <3>6. t.col \in Nat /\ t.col < Len(rs.data[s + 1].data)
        BY <3>5 DEF PlacedAt, ShowsAt
      <3> QED BY <3>1, <3>6
    <2>14. Grid!Erase(top, left, bottom, right)
      BY <2>12, <2>13 DEF Grid!Erase
    <2>15. Grid!EraseSome
      <3>1. /\ top \in 0 .. MaxRows - 1 /\ bottom \in 0 .. MaxRows - 1
            /\ left \in 0 .. MaxCols - 1 \cup 0 .. MaxRows - 1
            /\ right \in 0 .. MaxCols - 1 \cup 0 .. MaxRows - 1
        BY ArgsAre
      <3> QED BY <1>2, <1>4, <2>14, <3>1 DEF Grid!EraseSome, Grid!cursor
    <2> QED BY <2>15 DEF Grid!Call
  <1> QED BY <1>5, <1>6

\* Tables of as many rows, with the same cells in each, have their texts at the
\* same places.
LEMMA SamePlaced ==
  ASSUME NEW us, NEW ws, Len(us.data) = Len(ws.data),
         \A q \in 0 .. Len(us.data) - 1 : us.data[q + 1].data = ws.data[q + 1].data
  PROVE  Placed(us) = Placed(ws)
  <1>1. vector_size(us) = vector_size(ws) /\ vector_size(us) = Len(us.data)
    BY DEF vector_size
  <1>2. ASSUME NEW q \in 0 .. vector_size(us) - 1
        PROVE  TextsOfRow(q, vector_at(us, q)) = TextsOfRow(q, vector_at(ws, q))
    <2>1. vector_at(us, q).data = vector_at(ws, q).data
      BY <1>1 DEF vector_at
    <2> QED BY <2>1 DEF TextsOfRow, columns_in_row, vector_size, vector_at
  <1> QED BY <1>1, <1>2 DEF Placed

\* A row that could not grow takes its texts along, and no others.
LEMMA RowLostPlaced ==
  ASSUME Whole, NEW r \in Nat
  PROVE  Placed(WithRow(r, Nowhere)) = {t \in Placed(rows) : t.row # r}
  <1> DEFINE us == WithRow(r, Nowhere)  ws == WithRow(r, create_row)
             P == Placed(ws)  F == {t \in Placed(rows) : t.row # r}
  <1>1. create_row \in Vec(CellsUpTo(last)) /\ create_row \in Vec(AnyCell)
        /\ Len(create_row.data) = 0 /\ create_row.data = Nowhere.data
    BY NewRowIs DEF create_row, create_vector, Nowhere
  <1>2. /\ Len(us.data) = Larger(r + 1, Len(rows.data))
        /\ \A k \in 1 .. Len(us.data) :
             us.data[k] = IF k = r + 1 THEN Nowhere
                          ELSE IF k <= Len(rows.data) THEN rows.data[k] ELSE create_row
    BY RowLostIs
  <1>3. /\ Len(ws.data) = Larger(r + 1, Len(rows.data))
        /\ \A k \in 1 .. Len(ws.data) :
             ws.data[k] = IF k = r + 1 THEN create_row
                          ELSE IF k <= Len(rows.data) THEN rows.data[k] ELSE create_row
    <2> DEFINE C == CellsUpTo(last)
    <2>1. rows \in Vec(Vec(C)) /\ create_row \in Vec(C) /\ C \subseteq C
      BY <1>1 DEF Whole
    <2> HIDE DEF C
    <2> QED BY <2>1, WithRowIs
  <1>4. Len(rows.data) \in Nat
    BY VecIs DEF Whole
  <1> HIDE DEF us, ws
  <1>5. Placed(us) = P
    <2>1. ASSUME NEW q \in 0 .. Len(us.data) - 1 PROVE us.data[q + 1].data = ws.data[q + 1].data
      <3>1. q + 1 \in 1 .. Len(us.data) /\ Len(us.data) = Len(ws.data)
        BY <1>2, <1>3, <1>4 DEF Larger
      <3> QED BY <1>1, <1>2, <1>3, <3>1
    <2> QED BY <1>2, <1>3, <2>1, SamePlaced
  <1>6. /\ ArePlaces(P)
        /\ \A q, c, x : Place(q, c, x) \in P <=> \/ q = r /\ ShowsAt(create_row, c, x)
                                                 \/ q # r /\ PlacedAt(rows, q, c, x)
    BY <1>1, PlacedWithRow DEF ws
  <1>7. \A c, x : ~ShowsAt(create_row, c, x)
    BY <1>1 DEF ShowsAt
  <1>8. /\ ArePlaces(Placed(rows))
        /\ \A q, c, x : Place(q, c, x) \in Placed(rows) <=> PlacedAt(rows, q, c, x)
    BY PlacedIs DEF Whole
  <1>9. /\ ArePlaces(F)
        /\ \A q, c, x : Place(q, c, x) \in F <=> q # r /\ PlacedAt(rows, q, c, x)
    BY <1>8 DEF ArePlaces, Place
  <1> HIDE DEF P, F
  <1>10. P = F
    BY <1>6, <1>7, <1>9, SamePlaces
  <1> QED BY <1>5, <1>10 DEF us, F

\* The loss of a vector is the end of the grid.
LEMMA GridLost ==
  ASSUME Whole, GrowthFails
  PROVE  Grid!End
  <1>1. spoiled' = TRUE
    BY DEF GrowthFails
  <1>2. /\ UNCHANGED <<cur_row, cur_col, add_strategy, last>>
        /\ \/ rows' = rows \/ rows' = Nowhere
           \/ \E r \in 0 .. MaxRows - 1 : rows' = WithRow(r, Nowhere)
    BY GrowthIs
  <1>3. CASE rows' = rows
    BY <1>1, <1>2, <1>3 DEF Grid!End, Grid!cursor
  <1>4. CASE rows' = Nowhere
    <2>1. \A q \in 0 .. 0 - 1 : FALSE
      OBVIOUS
    <2>2. vector_size(Nowhere) = 0
      BY DEF vector_size, Nowhere
    <2>3. Placed(rows') = {}
      BY <1>4, <2>1, <2>2 DEF Placed
    <2> QED BY <1>1, <1>2, <2>3 DEF Grid!End, Grid!cursor
  <1>5. ASSUME NEW r \in 0 .. MaxRows - 1, rows' = WithRow(r, Nowhere) PROVE Grid!End
    <2>1. r \in Nat
      BY FortAssumption
    <2>2. Placed(rows') = {t \in Placed(rows) : t.row # r}
      BY <1>5, <2>1, RowLostPlaced
    <2> QED BY <1>1, <1>2, <2>2 DEF Grid!End, Grid!cursor
  <1> QED BY <1>2, <1>3, <1>4, <1>5

\* The caller has one of two strategies.
Strategy == add_strategy \in {"REPLACE", "INSERT"}

\* It starts as one of them, and is only ever set to one.
LEMMA StrategyKept == (Init => Strategy) /\ (Strategy /\ [Next]_vars => Strategy')
  <1>1. Init => Strategy
    BY DEF Init, Strategy
  <1>2. ASSUME Strategy, Next PROVE Strategy'
    <2>1. CASE ft_set_tbl_prop
      BY <2>1 DEF ft_set_tbl_prop, Strategy
    <2>2. CASE ~ft_set_tbl_prop
      <3>1. add_strategy' = add_strategy
        BY <1>2, <2>2 DEF Next, Call, ft_write, ft_printf, ft_ln, ft_set_cur_cell, ft_copy_table,
             AnyErase, ft_erase_range, AnySpan, ft_set_cell_span, ft_add_separator, GrowthFails
      <3> QED BY <1>2, <3>1 DEF Strategy
    <2> QED BY <2>1, <2>2
  <1>3. Strategy /\ UNCHANGED vars => Strategy'
    BY DEF Strategy, vars
  <1> QED BY <1>1, <1>2, <1>3

\* Every call that leaves the table usable is one of the grid, or shows nothing
\* there.
LEMMA GridCall ==
  ASSUME Whole, Strategy, Next, ~GrowthFails
  PROVE  Grid!Call \/ UNCHANGED Grid!texts
  <1>1. CASE Call
    BY <1>1 DEF Call, cursor, Grid!texts, Grid!cursor
  <1>2. CASE ft_write
    BY <1>2, GridWrite
  <1>3. CASE ft_printf
    BY <1>3, GridPrintf
  <1>4. CASE ft_ln
    BY <1>4, GridLn DEF Strategy
  <1>5. CASE ft_set_cur_cell
    <2>1. Grid!Move
      BY <1>5 DEF ft_set_cur_cell, Grid!Move
    <2> QED BY <2>1 DEF Grid!Call
  <1>6. CASE ft_set_tbl_prop
    <2>1. Grid!SetStrategy
      BY <1>6 DEF ft_set_tbl_prop, cursor, Grid!SetStrategy, Grid!cursor
    <2> QED BY <2>1 DEF Grid!Call
  <1>7. CASE ft_copy_table
    BY <1>7, GridCopy
  <1>8. CASE AnyErase
    BY <1>8, GridErase
  <1>9. CASE AnySpan
    BY <1>9, GridSpan
  <1>10. CASE ft_add_separator
    BY <1>10 DEF ft_add_separator, cursor, Grid!texts, Grid!cursor
  <1> QED BY <1>1, <1>2, <1>3, <1>4, <1>5, <1>6, <1>7, <1>8, <1>9, <1>10 DEF Next

\* A call that does not is one outside the table, or loses a vector: the grid
\* comes to its end.
LEMMA GridEnd ==
  ASSUME Whole, Next, spoiled' # spoiled
  PROVE  Grid!End
  <1>1. CASE GrowthFails
    BY <1>1, GridLost
  <1>2. CASE ~GrowthFails
    <2>1. AnyErase
      BY <1>2 DEF Next, Call, ft_write, ft_printf, ft_ln, ft_set_cur_cell, ft_set_tbl_prop,
           ft_copy_table, AnySpan, ft_set_cell_span, ft_add_separator
    <2>2. PICK top, left, bottom, right : ft_erase_range(top, left, bottom, right)
      BY <2>1 DEF AnyErase
    <2>3. /\ spoiled' = TRUE /\ rows' = rows /\ last' = last /\ add_strategy' = add_strategy
          /\ cur_row' = cur_row /\ cur_col' = cur_col
      BY <2>2 DEF ft_erase_range, cursor
    <2> QED BY <2>3 DEF Grid!End, Grid!cursor
  <1> QED BY <1>1, <1>2

\* Every step of the table is one of the grid, or shows nothing there.
LEMMA GridStep == FInv /\ Strategy /\ [Next]_vars => [Grid!Next]_Grid!gridVars
  <1> SUFFICES ASSUME FInv, Strategy, [Next]_vars PROVE Grid!Next \/ UNCHANGED Grid!gridVars
    OBVIOUS
  <1>1. CASE UNCHANGED vars
    BY <1>1 DEF vars, cursor, Grid!gridVars, Grid!texts, Grid!cursor
  <1>2. CASE Next
    <2>1. Whole /\ ~spoiled
      BY <1>2, NextWhole DEF Next
    <2>2. CASE spoiled' # spoiled
      BY <1>2, <2>1, <2>2, GridEnd DEF Grid!Next
    <2>3. CASE GrowthFails
      BY <2>1, <2>3, GridLost DEF Grid!Next
    <2>4. CASE spoiled' = spoiled /\ ~GrowthFails
      BY <1>2, <2>1, <2>4, GridCall DEF Grid!Next, Grid!gridVars
    <2> QED BY <2>2, <2>3, <2>4
  <1> QED BY <1>1, <1>2

\* An empty table has no text, like an empty grid.
LEMMA GridInit == Init => Grid!Init
  <1> SUFFICES ASSUME Init PROVE Grid!Init
    OBVIOUS
  <1> DEFINE P == Placed(rows)  Q == {}
  <1>1. rows \in Vec(Vec({})) /\ Len(rows.data) = 0
    <2> DEFINE D == Vec({})
    <2>1. rows = create_row
      BY DEF Init, create_row
    <2> HIDE DEF D
    <2>2. create_row \in Vec(D) /\ Len(create_row.data) = 0
      BY NewRowIs
    <2> QED BY <2>1, <2>2 DEF D
  <1>2. ArePlaces(P) /\ \A r, c, x : Place(r, c, x) \in P <=> PlacedAt(rows, r, c, x)
    BY <1>1, PlacedIs
  <1>3. \A r, c, x : ~PlacedAt(rows, r, c, x)
    BY <1>1 DEF PlacedAt
  <1>4. ArePlaces(Q) /\ \A r, c, x : Place(r, c, x) \notin Q
    BY DEF ArePlaces
  <1> HIDE DEF P, Q
  <1>5. P = Q
    BY <1>2, <1>3, <1>4, SamePlaces
  <1> QED BY <1>5 DEF Init, Grid!Init, Grid!cursor, P, Q

\* Whatever becomes of rows, cells and memory, and whichever allocation fails, the
\* texts of a table are where module FortGrid says: behind the cursor they are
\* pushed on or overwritten, a line feed takes them along, and what is erased is
\* closed up, for tables of any size; a vector that cannot grow ends the table and
\* takes the texts of its row along, or all (ft_write_impl_, ft_row_printf_impl_,
\* ft_ln, ft_erase_range, ft_set_cell_span, ft_copy_table, vector_reallocate_).
THEOREM TableIsGrid == Spec => ImplementsGrid
  <1>1. Spec => []Strategy
    BY StrategyKept, PTL DEF Spec
  <1>2. Init => Grid!Init
    BY GridInit
  <1>3. FInv /\ Strategy /\ [Next]_vars => [Grid!Next]_Grid!gridVars
    BY GridStep
  <1> QED BY <1>1, <1>2, <1>3, FortInvariant, PTL DEF Spec, ImplementsGrid, Grid!Spec

=============================================================================
