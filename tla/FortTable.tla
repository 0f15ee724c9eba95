------------------------------ MODULE FortTable ------------------------------
(***************************************************************************)
(* A table of libfort under the calls of fort.h that write cells, move the *)
(* cursor, erase, span and separate.  The text of a cell is a number, 0 if *)
(* it has none; every write takes a new one.  Any allocation may fail.  A   *)
(* vector that cannot grow loses all it holds, and that is the end of the  *)
(* table: whatever is called next reaches for what is gone.                *)
(*                                                                         *)
(* The calls that write several cells (ft_nwrite, ft_row_write,            *)
(* ft_table_write and the like) are sequences of ft_write and ft_ln.       *)
(***************************************************************************)
EXTENDS FortVector, FiniteSets

CONSTANTS
  Capacity,   \* DEFAULT_VECTOR_CAPACITY (10)
  MaxRows,    \* bound: the cursor stays in so many rows and columns
  MaxCols,
  MaxCalls    \* bound: calls made

ASSUME FortAssumption ==
  /\ Capacity \in Nat \ {0} /\ MaxRows \in Nat \ {0}
  /\ MaxCols \in Nat /\ MaxCalls \in Nat

CellTypes == {"COMMON", "MASTER", "SLAVE"}

\* What nobody has written is not a cell.
ASSUME JunkAssumption == Junk \notin [text: Nat, type: CellTypes]

VARIABLES
  rows, separators,
  cur_row, cur_col,
  add_strategy,
  todo,      \* what is left of the call under way
  calls,     \* calls made so far
  last,      \* the last text written
  strayed,   \* history: the caller had the cursor behind the end of its row
  spoiled    \* the end: a call that does not come back, or a lost vector

cursor == <<cur_row, cur_col>>
vars == <<rows, separators, cursor, add_strategy, todo, calls, last, strayed, spoiled>>

Cell(text) == [text |-> text, type |-> "COMMON"]
create_cell == Cell(0)
create_row == create_vector(Capacity)

columns_in_row(row) == vector_size(row)
ft_row_count == vector_size(rows)

Init ==
  /\ rows = create_vector(Capacity) /\ separators = create_vector(Capacity)
  /\ cur_row = 0 /\ cur_col = 0
  /\ add_strategy \in {"REPLACE", "INSERT"}
  /\ todo = << >> /\ calls = 0 /\ last = 0
  /\ strayed = FALSE /\ spoiled = FALSE

-----------------------------------------------------------------------------
(* ft_write_impl_ *)

\* The rows once the first n rows exist, and once row r is as given.
RowsTo(n) == PadTo(rows, n, create_row)
WithRow(r, row) == VectorSet(RowsTo(r + 1), r, row)
RowToWrite == vector_at(RowsTo(cur_row + 1), cur_row)

\* get_cell_and_create_if_not_exists
CellsTo(row, n) == PadTo(row, n, create_cell)

PutReplace(row, col, text) ==
  LET r == CellsTo(row, col + 1) IN [r EXCEPT !.data[col + 1].text = text]

\* get_cur_str_buffer_and_create_if_not_exists, and the text
PutCell(row, text) ==
  IF add_strategy = "INSERT" THEN vector_insert(row, Cell(text), cur_col)
  ELSE PutReplace(row, cur_col, text)

Write ==
  /\ rows' = WithRow(cur_row, PutCell(RowToWrite, last + 1))
  /\ last' = last + 1
  /\ cur_col' = cur_col + 1
  /\ todo' = Tail(todo)

\* What an allocation that fails leaves: some of the rows, or of the cells, or
\* a cell without its text.
HalfWritten(row) ==
  IF add_strategy = "INSERT" THEN {row, vector_insert(row, create_cell, cur_col)}
  ELSE {row} \cup {CellsTo(row, n) : n \in columns_in_row(row) .. cur_col + 1}

WriteFails ==
  /\ rows' \in {RowsTo(n) : n \in ft_row_count .. cur_row}
               \cup {WithRow(cur_row, r) : r \in HalfWritten(RowToWrite)}
  /\ todo' = << >>
  /\ UNCHANGED <<last, cur_col>>

ft_write ==
  /\ todo # << >> /\ Head(todo) = "write"
  /\ cur_col < MaxCols
  /\ Write \/ WriteFails
  /\ UNCHANGED <<separators, cur_row, add_strategy, calls, strayed, spoiled>>

-----------------------------------------------------------------------------
(* ft_row_printf_impl_: create_row_from_fmt_string makes a row of n cells. *)

NewRow(n) == CellsTo(create_row, n)
FmtRow(n) == [NewRow(n) EXCEPT !.data = [k \in 1 .. n |-> Cell(last + k)]]

\* mutant: every cell is inserted at the cursor
InsertAllAtCursor(row, ins) ==
  LET Inserted[k \in 0 .. columns_in_row(ins)] ==
        IF k = 0 THEN CellsTo(row, cur_col)
        ELSE vector_insert(Inserted[k - 1], ins.data[k], cur_col)
  IN  Inserted[columns_in_row(ins)]

insert_row(row, ins) ==
  LET Inserted[k \in 0 .. columns_in_row(ins)] ==
        IF k = 0 THEN CellsTo(row, cur_col)
        ELSE vector_insert(Inserted[k - 1], ins.data[k], cur_col + k - 1)
  IN  Inserted[columns_in_row(ins)]

swap_row(row, ins) ==
  IF columns_in_row(row) = 0 /\ cur_col = 0 THEN ins
  ELSE vector_swap(row, ins, cur_col)

Printf(n) ==
  /\ rows' = WithRow(cur_row, IF add_strategy = "INSERT"
                              THEN insert_row(RowToWrite, FmtRow(n))
                              ELSE swap_row(RowToWrite, FmtRow(n)))
  /\ last' = last + n
  /\ cur_col' = cur_col + n
  /\ todo' = Tail(todo)

HalfPrinted(row, n) ==
  IF add_strategy = "INSERT"
  THEN {CellsTo(row, k) : k \in columns_in_row(row) .. cur_col - 1}
  ELSE IF cur_col < columns_in_row(row) THEN {SwapRoom(row, FmtRow(n), cur_col)}
  ELSE {}

PrintfFails(n) ==
  /\ rows' \in {rows} \cup {RowsTo(k) : k \in ft_row_count .. cur_row + 1}
               \cup {WithRow(cur_row, r) : r \in HalfPrinted(RowToWrite, n)}
  /\ todo' = << >>
  /\ UNCHANGED <<last, cur_col>>

ft_printf ==
  /\ todo # << >> /\ Head(todo) = "printf"
  /\ \E n \in 1 .. MaxCols :
       /\ cur_col + n <= MaxCols
       /\ Printf(n) \/ PrintfFails(n)
  /\ UNCHANGED <<separators, cur_row, add_strategy, calls, strayed, spoiled>>

-----------------------------------------------------------------------------
(* ft_ln *)

InRow == cur_row < ft_row_count /\ cur_col < columns_in_row(vector_at(rows, cur_row))

\* mutant: the column is kept
NextLineSameColumn == cur_row' = cur_row + 1 /\ UNCHANGED cur_col

NextLine == cur_row' = cur_row + 1 /\ cur_col' = 0

SplitRow ==
  LET row == vector_at(rows, cur_row) IN
  vector_insert(VectorSet(rows, cur_row, SplitHead(row, cur_col)),
                SplitTail(row, cur_col), cur_row + 1)

\* The cells right of the cursor become a row of their own.
LnSplits ==
  /\ add_strategy = "INSERT" /\ InRow
  /\ ft_row_count < MaxRows
  /\ rows' = SplitRow
  /\ NextLine

LnMoves ==
  /\ add_strategy = "INSERT" => ~InRow
  /\ NextLine /\ UNCHANGED rows

\* The new row cannot be made: before the split, or after it, and then the
\* cells are destroyed.
LnFails ==
  /\ add_strategy = "INSERT" /\ InRow
  /\ \/ UNCHANGED rows
     \/ rows' = VectorSet(rows, cur_row, SplitHead(vector_at(rows, cur_row), cur_col))
  /\ UNCHANGED cursor

\* Its callers do not look at the result.
ft_ln ==
  /\ todo # << >> /\ Head(todo) = "ln"
  /\ cur_row + 1 < MaxRows
  /\ LnSplits \/ LnMoves \/ LnFails
  /\ todo' = Tail(todo)
  /\ UNCHANGED <<separators, add_strategy, calls, last, strayed, spoiled>>

-----------------------------------------------------------------------------
(* A vector cannot grow (vector_reallocate_). *)

RowsLost(r) == r >= rows.cap /\ rows' = Nowhere
CellsLost(r) == rows' = WithRow(r, Nowhere)

\* Row r has to be there, with n cells.
RowLost(r, n) ==
  RowsLost(r) \/ (n > vector_at(RowsTo(r + 1), r).cap /\ CellsLost(r))

\* The cells of a row once n are written at the cursor.
Wanted(row, n) ==
  IF add_strategy = "INSERT" THEN Larger(cur_col, columns_in_row(row)) + n ELSE cur_col + n

WriteLoses == Head(todo) = "write" /\ cur_col < MaxCols /\ RowLost(cur_row, Wanted(RowToWrite, 1))

\* An empty row is swapped as a whole.  The row to print is destroyed when it
\* cannot grow, through the pointer that is null.
PrintfLoses ==
  /\ Head(todo) = "printf"
  /\ \E n \in 1 .. MaxCols :
       /\ cur_col + n <= MaxCols
       /\ \/ n > Capacity /\ UNCHANGED rows
          \/ RowLost(cur_row, IF add_strategy = "REPLACE" /\ cur_col = 0
                                 /\ columns_in_row(RowToWrite) = 0
                              THEN 0 ELSE Wanted(RowToWrite, n))

LnLoses ==
  /\ Head(todo) = "ln"
  /\ add_strategy = "INSERT" /\ InRow
  /\ ft_row_count = rows.cap /\ rows' = Nowhere

-----------------------------------------------------------------------------
(* The caller.  ft_table_write makes a table of two rows and columns here. *)

Begin == todo = << >> /\ calls < MaxCalls /\ calls' = calls + 1

Calls ==
  {<<"write">>, <<"write", "ln">>, <<"printf">>, <<"printf", "ln">>, <<"ln">>,
   <<"write", "write", "ln", "write", "write">>}

Call ==
  /\ Begin
  /\ todo' \in Calls
  /\ UNCHANGED <<rows, separators, cursor, add_strategy, last, strayed, spoiled>>

BehindEnd(rs, r, c) ==
  c > (IF r < vector_size(rs) THEN columns_in_row(vector_at(rs, r)) ELSE 0)

ft_set_cur_cell ==
  /\ Begin
  /\ cur_row' \in 0 .. MaxRows - 1 /\ cur_col' \in 0 .. MaxCols - 1
  /\ strayed' = (strayed \/ BehindEnd(rows, cur_row', cur_col'))
  /\ UNCHANGED <<rows, separators, add_strategy, todo, last, spoiled>>

ft_set_tbl_prop ==
  /\ Begin
  /\ add_strategy' \in {"REPLACE", "INSERT"}
  /\ UNCHANGED <<rows, separators, cursor, todo, last, strayed, spoiled>>

EraseCells(row, left, right) ==
  [row EXCEPT !.data = Before(row, left) \o From(row, right + 1)]

Erased(top, left, bottom, right) ==
  [rows EXCEPT !.data = [k \in DOMAIN @ |->
     IF k - 1 \in top .. bottom /\ left <= columns_in_row(@[k])
     THEN EraseCells(@[k], left, right) ELSE @[k]]]

\* mutant: the separators stay where they are
EraseRowOnly(w) == [w EXCEPT !.rs = vector_erase(@, w.i)]

EraseRow(w) ==
  [w EXCEPT !.rs = vector_erase(@, w.i),
            !.sep = IF w.i < vector_size(@) THEN vector_erase(@, w.i) ELSE @]

\* Of n rows from top on, those left without cells go, and the separators above
\* them.
RemoveRows(rs, top, n) ==
  LET Kept[j \in 0 .. n] ==
        IF j = 0 THEN [i |-> top, rs |-> rs, sep |-> separators]
        ELSE IF columns_in_row(vector_at(Kept[j - 1].rs, Kept[j - 1].i)) > 0
        THEN [Kept[j - 1] EXCEPT !.i = @ + 1]
        ELSE EraseRow(Kept[j - 1])
  IN  rows' = Kept[n].rs /\ separators' = Kept[n].sep

\* Left of a row's end and not below the last row; elsewhere the number of cells
\* or rows to remove wraps, and the call does not come back.
InTable(top, left, bottom) ==
  /\ ft_row_count > 0 /\ top <= ft_row_count
  /\ \A i \in 0 .. ft_row_count - 1 :
       i \in top .. bottom /\ columns_in_row(vector_at(rows, i)) > 0
         => left <= columns_in_row(vector_at(rows, i))

ft_erase_range(top, left, bottom, right) ==
  /\ Begin
  /\ top <= bottom /\ left <= right
  /\ IF InTable(top, left, bottom)
     THEN /\ RemoveRows(Erased(top, left, bottom, right), top,
                        Smaller(ft_row_count, bottom + 1) - top)
          /\ UNCHANGED spoiled
     ELSE spoiled' = TRUE /\ UNCHANGED <<rows, separators>>
  /\ strayed' = (strayed \/ BehindEnd(rows', cur_row, cur_col))
  /\ UNCHANGED <<cursor, add_strategy, todo, last>>

\* mutant: the first cell of the group is a slave too
SpannedSlaves(row, col, span) ==
  LET r == CellsTo(row, col + span) IN
  [r EXCEPT !.data = [k \in DOMAIN @ |->
     IF k \in col + 1 .. col + span THEN [@[k] EXCEPT !.type = "SLAVE"] ELSE @[k]]]

\* A master and its slaves; what follows keeps its type.
Spanned(row, col, span) ==
  LET r == CellsTo(row, col + span) IN
  [r EXCEPT !.data = [k \in DOMAIN @ |->
     IF k = col + 1 THEN [@[k] EXCEPT !.type = "MASTER"]
     ELSE IF k \in col + 2 .. col + span THEN [@[k] EXCEPT !.type = "SLAVE"]
     ELSE @[k]]]

\* When a cell cannot be made, those made so far have their types.
row_set_cell_span(row, col, span) ==
  {Spanned(row, col, n) : n \in 1 .. span}
    \cup {CellsTo(row, n) : n \in columns_in_row(row) .. col}

ft_set_cell_span(r, col, span) ==
  /\ Begin
  /\ col + span <= MaxCols
  /\ rows' \in {RowsTo(n) : n \in ft_row_count .. r}
       \cup {WithRow(r, w) : w \in
              row_set_cell_span(vector_at(RowsTo(r + 1), r), col, span)}
  /\ UNCHANGED <<separators, cursor, add_strategy, todo, last, strayed, spoiled>>

\* FT_CUR_COLUMN is never replaced, the test for it looks at the row: the row
\* gets cells until memory is out.
FT_CUR_COLUMN == -1

SpanLoses(r, col, span) ==
  /\ Begin
  /\ IF col = FT_CUR_COLUMN THEN RowsLost(r) \/ CellsLost(r)
     ELSE col + span <= MaxCols /\ RowLost(r, col + span)
  /\ UNCHANGED <<separators, todo>>

ft_add_separator ==
  /\ Begin
  /\ separators' \in
       {VectorSet(PadTo(separators, cur_row + 1, FALSE), cur_row, TRUE)}
       \cup {PadTo(separators, n, FALSE) : n \in vector_size(separators) .. cur_row}
  /\ UNCHANGED <<rows, cursor, add_strategy, todo, last, strayed, spoiled>>

SeparatorLoses ==
  /\ Begin
  /\ cur_row >= separators.cap /\ separators' = Nowhere
  /\ UNCHANGED <<rows, todo>>

\* The caller goes on with the copy.
CopyOf(v) == PadTo(create_vector(Capacity), vector_size(v), Junk)

copy_row(row) == [CopyOf(row) EXCEPT !.data = row.data]

ft_copy_table ==
  /\ Begin
  /\ rows' = [CopyOf(rows) EXCEPT
                !.data = [k \in DOMAIN rows.data |-> copy_row(rows.data[k])]]
  /\ separators' = [CopyOf(separators) EXCEPT !.data = separators.data]
  /\ UNCHANGED <<cursor, add_strategy, todo, last, strayed, spoiled>>

\* The copy's vectors start small, and nobody looks whether they could grow:
\* nothing in it can be relied on.
CopyLoses ==
  /\ Begin
  /\ \/ ft_row_count > Capacity \/ vector_size(separators) > Capacity
     \/ \E row \in Range(rows.data) : columns_in_row(row) > Capacity
  /\ rows' = Nowhere /\ separators' = Nowhere
  /\ UNCHANGED todo

-----------------------------------------------------------------------------
Cells == UNION {Range(rows.data[k].data) : k \in DOMAIN rows.data}

\* A cell nobody has written is a pointer to nowhere for the next call.
Gap == Junk \in Cells

\* FT_CUR_ROW is the row of the cursor, and in ft_erase_range FT_CUR_COLUMN is
\* that row, too.
RowArgs == 0 .. MaxRows - 1 \cup {cur_row}
ColArgs == 0 .. MaxCols - 1 \cup {cur_row}

AnyErase ==
  \E t, b \in RowArgs, l, r \in ColArgs : ft_erase_range(t, l, b, r)

\* Spans of fewer than two cells are refused.
AnySpan ==
  \E r \in RowArgs, c \in 0 .. MaxCols - 2, n \in 2 .. MaxCols : ft_set_cell_span(r, c, n)

GrowthFails ==
  /\ \/ /\ todo # << >> /\ todo' = << >>
        /\ WriteLoses \/ PrintfLoses \/ LnLoses
        /\ UNCHANGED <<separators, calls>>
     \/ \E r \in RowArgs, c \in 0 .. MaxCols - 2 \cup {FT_CUR_COLUMN}, n \in 2 .. MaxCols :
          SpanLoses(r, c, n)
     \/ SeparatorLoses \/ CopyLoses
  /\ spoiled' = TRUE
  /\ UNCHANGED <<cursor, add_strategy, last, strayed>>

Next ==
  /\ ~Gap /\ ~spoiled
  /\ \/ Call \/ ft_write \/ ft_printf \/ ft_ln
     \/ ft_set_cur_cell \/ ft_set_tbl_prop \/ ft_copy_table
     \/ AnyErase \/ AnySpan \/ ft_add_separator
     \/ GrowthFails

Spec == Init /\ [][Next]_vars

-----------------------------------------------------------------------------
\* A vector fits its memory and can be doubled, or it could not grow.
Fits(v) == VectorFits(v) \/ (spoiled /\ v = Nowhere)

\* Every vector of the table does, and all that is in it has its type.
TypeOK ==
  /\ Fits(rows) /\ Fits(separators) /\ \A row \in Range(rows.data) : Fits(row)
  /\ Cells \ {Junk} \subseteq [text: 0 .. last, type: CellTypes]
  /\ Range(separators.data) \subseteq BOOLEAN
  /\ cur_row \in 0 .. MaxRows - 1 /\ cur_col \in 0 .. MaxCols

(***************************************************************************)
(* No call makes a cell of memory nobody has written, unless the caller    *)
(* has put the cursor behind the end of a row, or has erased the row under *)
(* it (create_cell_in_position, swap_row).                                 *)
(***************************************************************************)
GapsOnlyBehindEnd == Gap => strayed

(***************************************************************************)
(* A separator stays above the texts it was above, whatever is written or  *)
(* erased, but for ft_ln under the strategy INSERT, which moves rows and   *)
(* not the separators, and for the loss of a vector.                       *)
(***************************************************************************)
TextAt(i) == {c.text : c \in Range(rows.data[i].data) \ {Junk}} \ {0}

SeparatorAbove(x) ==
  \E i \in DOMAIN rows.data \cap DOMAIN separators.data :
    x \in TextAt(i) /\ separators.data[i]

Texts == UNION {TextAt(i) : i \in DOMAIN rows.data}

SeparatorsStay ==
  [][ft_ln \/ ft_add_separator \/ GrowthFails
       \/ \A x \in Texts \cap Texts' : SeparatorAbove(x) <=> SeparatorAbove(x)']_vars

\* A slave without a master: it is printed as a cell of its own, in a column
\* whose width leaves it out.
Orphaned ==
  \E k \in DOMAIN rows.data : LET d == rows.data[k].data IN
    \E j \in DOMAIN d : /\ d[j] # Junk /\ d[j].type = "SLAVE"
                        /\ j = 1 \/ d[j - 1] = Junk \/ d[j - 1].type = "COMMON"

\* Only erasing, replacing cells by formatted ones, and inserting tear a group
\* apart; spans laid over each other, failing calls and lost rows do not.
OnlyThreeTear ==
  [][Orphaned' => \/ Orphaned \/ ft_printf \/ AnyErase
                  \/ add_strategy = "INSERT" /\ (ft_write \/ ft_ln)]_vars

-----------------------------------------------------------------------------
\* The texts of a table with their places.
CellText(cell) == IF cell = Junk THEN 0 ELSE cell.text

TextsOfRow(r, row) ==
  {[row |-> r, col |-> c, text |-> CellText(vector_at(row, c))] :
     c \in 0 .. columns_in_row(row) - 1}

Placed(rs) ==
  {t \in UNION {TextsOfRow(r, vector_at(rs, r)) : r \in 0 .. vector_size(rs) - 1} :
     t.text # 0}

Grid == INSTANCE FortGrid WITH
          Rows <- 0 .. MaxRows - 1, Cols <- 0 .. MaxCols - 1, placed <- Placed(rows)

\* Whatever becomes of rows, cells and memory, the texts are where module
\* FortGrid says, also after calls that fail half way; a vector that cannot grow
\* takes no texts but its own along.
ImplementsGrid == Grid!Spec
=============================================================================
