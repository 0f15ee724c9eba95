------------------------------- MODULE FortGrid -------------------------------
(***************************************************************************)
(* What the calls of fort.h do to the texts of a table, without rows,      *)
(* cells, memory or types: `placed` is the texts with the places they are  *)
(* at.  Under the strategy REPLACE a text overwrites, under INSERT it      *)
(* pushes the rest of its row to the right.                                *)
(***************************************************************************)
EXTENDS Integers, FiniteSets

CONSTANTS Rows, Cols     \* the places a caller names

VARIABLES placed, cur_row, cur_col, add_strategy, last,
          spoiled    \* the table has come to its end

cursor == <<cur_row, cur_col>>
texts == <<placed, cursor, add_strategy, last>>
gridVars == <<texts, spoiled>>

At(r, c, x) == [row |-> r, col |-> c, text |-> x]

Init ==
  /\ placed = {}
  /\ cursor = <<0, 0>> /\ last = 0
  /\ add_strategy \in {"REPLACE", "INSERT"}
  /\ spoiled = FALSE

\* The texts at the cursor and right of it.
Behind(t) == t.row = cur_row /\ t.col >= cur_col

\* The other texts, when n places at the cursor are needed.
Others(n) ==
  IF add_strategy = "INSERT"
  THEN {IF Behind(t) THEN At(t.row, t.col + n, t.text) ELSE t : t \in placed}
  ELSE {t \in placed : ~(Behind(t) /\ t.col < cur_col + n)}

Put(n) ==
  /\ placed' = Others(n) \cup {At(cur_row, cur_col + k - 1, last + k) : k \in 1 .. n}
  /\ last' = last + n
  /\ cur_col' = cur_col + n
  /\ UNCHANGED <<cur_row, add_strategy>>

\* A write that fails may have inserted its cell all the same.
PutFails ==
  /\ add_strategy = "INSERT"
  /\ placed' = Others(1)
  /\ UNCHANGED <<cursor, add_strategy, last>>

\* Where a text is once the row of the cursor is split.
Fed(t) ==
  IF Behind(t) THEN At(t.row + 1, t.col - cur_col, t.text)
  ELSE IF t.row > cur_row THEN At(t.row + 1, t.col, t.text)
  ELSE t

Line ==
  /\ cursor' = <<cur_row + 1, 0>>
  /\ \/ add_strategy = "INSERT" /\ placed' = {Fed(t) : t \in placed}
     \/ /\ add_strategy = "REPLACE" \/ \A t \in placed : ~Behind(t)
        /\ UNCHANGED placed
  /\ UNCHANGED <<add_strategy, last>>

\* A line feed that fails may lose what it was to move.
LineFails ==
  /\ add_strategy = "INSERT"
  /\ placed' = {t \in placed : ~Behind(t)}
  /\ UNCHANGED <<cursor, add_strategy, last>>

Move ==
  /\ cur_row' \in Rows /\ cur_col' \in Cols
  /\ UNCHANGED <<placed, add_strategy, last>>

SetStrategy ==
  /\ add_strategy' \in {"REPLACE", "INSERT"}
  /\ UNCHANGED <<placed, cursor, last>>

\* The texts of a rectangle go, and what was right of them closes up.
Closed(top, left, bottom, right) ==
  {IF t.row \in top .. bottom /\ t.col > right
   THEN At(t.row, t.col - (right + 1 - left), t.text) ELSE t :
     t \in {u \in placed : ~(u.row \in top .. bottom /\ u.col \in left .. right)}}

\* The row that row r is when those of S are gone.
RowLeft(S, r) == r - Cardinality({k \in S : k < r})

\* Rows left without a text may go.
Erase(top, left, bottom, right) ==
  LET closed == Closed(top, left, bottom, right)
      Empty == {r \in top .. bottom : \A t \in closed : t.row # r}
  IN  \E S \in SUBSET Empty :
        placed' = {At(RowLeft(S, t.row), t.col, t.text) : t \in closed}

EraseSome ==
  /\ UNCHANGED <<cursor, add_strategy, last>>
  /\ \E t, b \in Rows, l, r \in Cols \cup Rows : t <= b /\ l <= r /\ Erase(t, l, b, r)

Call ==
  (\E c \in Cols : Put(c + 1)) \/ PutFails \/ Line \/ LineFails \/ Move
    \/ SetStrategy \/ EraseSome

\* The end: all texts are lost, or those of a row, or the table just stays as it
\* is.
End ==
  /\ spoiled' = TRUE
  /\ placed' \in {placed, {}} \cup {{t \in placed : t.row # r} : r \in Rows}
  /\ UNCHANGED <<cursor, add_strategy, last>>

Next == ~spoiled /\ ((Call /\ UNCHANGED spoiled) \/ End)

Spec == Init /\ [][Next]_gridVars
=============================================================================
