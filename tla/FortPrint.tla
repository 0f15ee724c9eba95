------------------------------ MODULE FortPrint ------------------------------
(***************************************************************************)
(* ft_to_string: how libfort measures a table, takes a buffer of that size *)
(* and prints into it, while the caller sets properties and styles between *)
(* printings.  Text is measured and not spelt: a cell has the lengths of   *)
(* the lines of its text, and a printed line is its length on the screen   *)
(* and in bytes.  All lines of a row are equally long, as cell_printf      *)
(* fills a cell up to its width and writes its style tags on every line.   *)
(***************************************************************************)
EXTENDS FortProps

CONSTANTS
  Tables,      \* sequences of rows, a row a sequence of cells
  Separators,  \* the sets of rows with a separator above them
  Positions,   \* where properties are set
  Settings,    \* <<property, value>>
  Styles,      \* border styles
  Margins,     \* <<left, right, top, bottom>>
  MaxCalls     \* bound: calls made before the table is no longer changed

CellType == {"COMMON", "MASTER", "SLAVE"}

\* What the types of the C calls admit.
ASSUME PrintAssumption ==
  /\ Tables \subseteq Seq(Seq([type : CellType, lines : Seq(Nat)]))
  /\ Positions \subseteq (Nat \cup {ANY}) \X (Nat \cup {ANY})
  /\ \A s \in Settings : s[1] \in Property /\ MayBe(s[1], s[2])
  /\ Styles \subseteq BorderStyles
  /\ Margins \subseteq Nat \X Nat \X Nat \X Nat

VARIABLES
  rows, separators,
  cell_properties,   \* position -> entry
  defaults,          \* g_default_cell_properties, an entry
  border_style, margins,
  conv_buffer,       \* its size, 0 if there is none yet
  shown,             \* what ft_to_string made of the table, as a set of lines
  calls

props == <<cell_properties, defaults, border_style, margins>>
vars == <<rows, separators, props, conv_buffer, shown, calls>>

Outcome(status, lines) == [status |-> status, lines |-> lines]
NotShown == Outcome("not shown", {})
Growing  == Outcome("growing", {})   \* ft_to_string doubles the buffer

Init ==
  /\ rows \in Tables /\ separators \in Separators
  /\ cell_properties = << >>
  /\ defaults = g_default_cell_properties
  /\ border_style = BASIC_STYLE
  /\ margins = <<0, 0, 0, 0>>
  /\ conv_buffer = 0 /\ shown = NotShown /\ calls = 0

-----------------------------------------------------------------------------
(* Cells.  Rows and columns count from 0. *)

Prop(r, c, p) == get_cell_property_hierarchically(cell_properties, defaults, r, c, p)

\* f[0] + ... + f[n - 1]
Total(f, n) ==
  LET upto[k \in 0 .. n] == IF k = 0 THEN 0 ELSE upto[k - 1] + f[k - 1]
  IN  upto[n]

NRows == Len(rows)
RowSize(r) == Len(rows[r + 1])
NCols == Max({0} \cup {RowSize(r) : r \in 0 .. NRows - 1})

Present(r, c) == c < RowSize(r)
Cell(r, c) == rows[r + 1][c + 1]
Type(r, c) == IF Present(r, c) THEN Cell(r, c).type ELSE "COMMON"

CellPos == {p \in (0 .. NRows - 1) \X (0 .. NCols - 1) : Present(p[1], p[2])}

cell_vis_width(r, c) ==
  Max({Prop(r, c, "LEFT_PADDING") + Prop(r, c, "RIGHT_PADDING")
         + Max({0} \cup Range(Cell(r, c).lines)),
       Prop(r, c, "MIN_WIDTH")})

\* LIGHT_WHYTE has none.
FgTag(colour) == IF colour = 0 THEN 0 ELSE 5
BgTag(colour) == IF colour = 0 THEN 0 ELSE IF colour <= 8 THEN 5 ELSE 6
StyleTag(r, c, p) == 4 * Cardinality(Prop(r, c, p))

CellTag(r, c) == StyleTag(r, c, "CELL_TEXT_STYLE") + BgTag(Prop(r, c, "CELL_BG_COLOR"))
ContentTag(r, c) == StyleTag(r, c, "CONT_TEXT_STYLE")
                      + FgTag(Prop(r, c, "CONT_FG_COLOR")) + BgTag(Prop(r, c, "CONT_BG_COLOR"))

\* The tags and what ends them; the end of the content's takes up the cell's.
cell_invis_codes_width(r, c) ==
  LET reset(tag, more) == IF tag = 0 THEN 0 ELSE 4 + more
  IN  CellTag(r, c) + reset(CellTag(r, c), 0)
        + ContentTag(r, c) + reset(ContentTag(r, c), CellTag(r, c))

hint_height_cell(r, c) ==
  LET padding == Prop(r, c, "TOP_PADDING") + Prop(r, c, "BOTTOM_PADDING")
      empty   == Prop(r, c, "EMPTY_STR_HEIGHT")
  IN  IF Present(r, c)
      THEN padding + (IF Cell(r, c).lines = << >> THEN empty ELSE Len(Cell(r, c).lines))
      ELSE IF empty = 0 THEN 0 ELSE padding + empty

-----------------------------------------------------------------------------
(* table_rows_and_cols_geometry: for the size of the buffer the tags count  *)
(* (intern), for what is seen they do not.                                  *)

Column(c) == {p \in CellPos : p[2] = c}

BaseWidth(c, intern) ==
  Max({0} \cup {cell_vis_width(p[1], c) : p \in {q \in Column(c) : Cell(q[1], c).type = "COMMON"}})
  + (IF intern THEN Max({0} \cup {cell_invis_codes_width(p[1], c) : p \in Column(c)}) ELSE 0)

group_cell_number(r, c) ==
  IF Type(r, c) # "MASTER" THEN 1
  ELSE Max({n \in 1 .. RowSize(r) - c : \A k \in c + 1 .. c + n - 1 : Type(r, k) = "SLAVE"})

\* The columns from a up to b.
Between(widths, a, b) == Total(widths, b) - Total(widths, a)

\* mutant: without the separators between the columns of a group
GroupWithoutSeparators(widths, r, c) == Between(widths, c, c + group_cell_number(r, c))

GroupWidth(widths, r, c) ==
  LET n == group_cell_number(r, c) IN Between(widths, c, c + n) + n - 1

\* What a group lacks its columns get in turn, the first one first.
Widen(widths, r, c, intern) ==
  LET n    == group_cell_number(r, c)
      hint == cell_vis_width(r, c) + (IF intern THEN cell_invis_codes_width(r, c) ELSE 0)
      lack == Max({0, hint - GroupWidth(widths, r, c)})
  IN  [k \in DOMAIN widths |->
         IF k \in c .. c + n - 1
         THEN widths[k] + lack \div n + (IF k - c < lack % n THEN 1 ELSE 0)
         ELSE widths[k]]

\* Column by column, and in a column downwards, as widening one group may
\* spare another.
WidenColumn(widths, c, intern) ==
  LET down[r \in 0 .. NRows] ==
        IF r = 0 THEN widths
        ELSE IF Type(r - 1, c) = "MASTER" THEN Widen(down[r - 1], r - 1, c, intern)
        ELSE down[r - 1]
  IN  down[NRows]

ColWidths(intern) ==
  LET along[c \in 0 .. NCols] ==
        IF c = 0 THEN [k \in 0 .. NCols - 1 |-> BaseWidth(k, intern)]
        ELSE WidenColumn(along[c - 1], c - 1, intern)
  IN  along[NCols]

RowHeight(r) == Max({0} \cup {hint_height_cell(r, c) : c \in 0 .. NCols - 1})

left == margins[1]
right == margins[2]

\* table_geometry
CodWidth ==
  (2 + Max({1, NCols}) + Total(ColWidths(TRUE), NCols) + left + right)
    * max_border_elem_strlen(border_style)

CodHeight ==
  1 + Max({1, NRows}) + Total([r \in 0 .. NRows - 1 |-> RowHeight(r)], NRows)
    + margins[3] + margins[4]

-----------------------------------------------------------------------------
(* Printed lines. *)

Elem(bytes) == [vis |-> IF bytes = 0 THEN 0 ELSE 1, bytes |-> bytes]
Nothing == Elem(0)
Times(n, e) == [vis |-> n * e.vis, bytes |-> n * e.bytes]
Plus(a, b) == [vis |-> a.vis + b.vis, bytes |-> a.bytes + b.bytes]

\* A piece for every column, between the ends and the margins; and the newline.
FullLine(first, pieces, last) ==
  [vis   |-> left + first.vis + Total([c \in DOMAIN pieces |-> pieces[c].vis], NCols)
               + last.vis + right,
   bytes |-> left + first.bytes + Total([c \in DOMAIN pieces |-> pieces[c].bytes], NCols)
               + last.bytes + right + 1]

Header(r) ==
  r \in 0 .. NRows - 1 /\ Prop(r, ANY, "ROW_TYPE") = "HEADER"
Chars4(header) == IF header THEN border_style.header ELSE border_style.border

\* A slave without a master is printed as a cell of its own.
Printed(r) ==
  {c \in 0 .. NCols - 1 :
     ~\E m \in 0 .. c - 1 : Type(r, m) = "MASTER" /\ m + group_cell_number(r, m) > c}

\* A cell takes the columns of its group, and has a separator behind it if it
\* is not the last.
snprintf_row(r, w) ==
  LET b == Chars4(Header(r))
      cell(c) == [vis   |-> GroupWidth(w, r, c),
                  bytes |-> GroupWidth(w, r, c)
                              + (IF Present(r, c) THEN cell_invis_codes_width(r, c) ELSE 0)]
      piece(c) == Plus(cell(c), IF c + group_cell_number(r, c) < NCols
                                THEN Elem(b["IV"]) ELSE Nothing)
  IN  FullLine(Elem(b["LL"]),
               [c \in 0 .. NCols - 1 |-> IF c \in Printed(r) THEN piece(c) ELSE Nothing],
               Elem(b["RR"]))

\* cell_printf refuses a cell that is wider than its place.
CellFails(r, w) ==
  RowHeight(r) > 0 /\
  \E c \in Printed(r) : Present(r, c) /\ GroupWidth(w, r, c) < cell_vis_width(r, c)

\* Above the first row and below the last there are only slaves.
TypeAt(r, c) == IF r \in 0 .. NRows - 1 THEN Type(r, c) ELSE "SLAVE"

\* The elements of the line above row i: ends, line, and crossings where cells
\* meet above and below (IV), below only (IT), above only (IB), not at all (II).
SepChars(i) ==
  LET b == Chars4(Header(i) \/ Header(i - 1))
      s == border_style.separator
      own == i \in separators
      line(L, I, IV, R, IT, IB) == [L |-> b[L], I |-> b[I], IV |-> b[IV], R |-> b[R],
                                    IT |-> b[IT], IB |-> b[IB], II |-> b[I]]
      plain == IF i = 0 THEN line("TL", "TT", "TV", "TR", "TV", "TV")
               ELSE IF i = NRows THEN line("BL", "BB", "BV", "BR", "BV", "BV")
               ELSE line("LH", "IH", "II", "RH", "TI", "BI")
      inside == i \in 1 .. NRows - 1
  IN  IF own
      THEN [L |-> IF inside THEN s["LH"] ELSE plain.L, I |-> s["IH"], IV |-> s["II"],
            R |-> IF inside THEN s["RH"] ELSE plain.R,
            IT |-> s["TI"], IB |-> s["BI"], II |-> s["IH"]]
      ELSE plain

Crossing(ch, i, c) ==
  IF TypeAt(i - 1, c) = "SLAVE" /\ TypeAt(i, c) = "SLAVE" THEN ch.II
  ELSE IF TypeAt(i - 1, c) = "SLAVE" THEN ch.IT
  ELSE IF TypeAt(i, c) = "SLAVE" THEN ch.IB ELSE ch.IV

\* Nothing at all if its elements are empty.
print_row_separator(i, w) ==
  LET ch == SepChars(i)
      piece(c) == Plus(Elem(IF c = 0 THEN ch.L ELSE Crossing(ch, i, c)),
                       Times(w[c], Elem(ch.I)))
  IN  IF {ch.L, ch.I, ch.IV, ch.R} = {0} THEN Nothing
      ELSE FullLine(Nothing, [c \in 0 .. NCols - 1 |-> piece(c)], Elem(ch.R))

TableLines(w) ==
  ({print_row_separator(i, w) : i \in 0 .. NRows}
     \cup {snprintf_row(r, w) : r \in {q \in 0 .. NRows - 1 : RowHeight(q) > 0}}) \ {Nothing}

\* With the lines of the top and the bottom margin.
Bytes(w) ==
  Total([i \in 0 .. NRows |-> print_row_separator(i, w).bytes], NRows + 1)
    + Total([r \in 0 .. NRows - 1 |-> RowHeight(r) * snprintf_row(r, w).bytes], NRows)
    + (margins[3] + margins[4]) * CodWidth

-----------------------------------------------------------------------------
\* mutant: one unit short of the closing zero
NoRoomForZero == CodHeight * CodWidth

n_codepoints == CodHeight * CodWidth + 1

Pending == shown \in {NotShown, Growing}

\* A cell of a colour that has no tag.
Untagged == \E at \in CellPos, p \in Colours : Prop(at[1], at[2], p) = LIGHT_WHYTE

\* Where its tag is looked up an assertion ends the program.
Abort ==
  /\ shown = NotShown /\ Untagged
  /\ shown' = Outcome("aborted", {})
  /\ UNCHANGED <<rows, separators, props, conv_buffer, calls>>

\* The buffer is made to measure, and later doubled until it is large enough;
\* it never shrinks.
Grow ==
  /\ Pending /\ ~Untagged /\ conv_buffer < n_codepoints
  /\ conv_buffer' = IF conv_buffer = 0 THEN n_codepoints ELSE 2 * conv_buffer
  /\ shown' = Growing
  /\ UNCHANGED <<rows, separators, props, calls>>

\* A printing that runs out of buffer is given up, or overruns it: the test of
\* ft_nprint leaves no room for the closing zero and lets a text pass that is one
\* byte too long.  Which text meets the end of the buffer is not modelled.
Rendered(size) ==
  LET w == ColWidths(FALSE)
  IN  IF NRows = 0 THEN {Outcome("string", {})}
      ELSE IF Bytes(w) >= size THEN {Outcome("failed", {}), Outcome("overrun", {})}
      ELSE IF \E r \in 0 .. NRows - 1 : CellFails(r, w) THEN {Outcome("failed", {})}
      ELSE {Outcome("string", TableLines(w))}

ft_to_string ==
  /\ Pending /\ ~Untagged /\ conv_buffer >= n_codepoints
  /\ shown' \in Rendered(conv_buffer)
  /\ UNCHANGED <<rows, separators, props, conv_buffer, calls>>

\* There is no memory for the buffer, for doubling it (once more), or for the
\* widths and heights.
NoMemory ==
  /\ Pending
  /\ shown' = Outcome("no memory", {})
  /\ UNCHANGED <<rows, separators, props, conv_buffer, calls>>

\* The caller calls again once ft_to_string is back.
Change ==
  /\ calls < MaxCalls /\ calls' = calls + 1
  /\ shown.status \notin {"growing", "aborted", "overrun"} /\ shown' = NotShown

ft_set_cell_prop(at, p, v) ==
  /\ Change
  /\ cell_properties' = set_cell_property(cell_properties, at, p, v, defaults)
  /\ UNCHANGED <<rows, separators, defaults, border_style, margins, conv_buffer>>

\* The defaults are those of every table, also of this one.
ft_set_default_cell_prop(p, v) ==
  /\ Change
  /\ defaults' = set_cell_property_impl(defaults, p, v)
  /\ UNCHANGED <<rows, separators, cell_properties, border_style, margins, conv_buffer>>

ft_set_border_style(style) ==
  /\ Change
  /\ border_style' = style
  /\ UNCHANGED <<rows, separators, cell_properties, defaults, margins, conv_buffer>>

\* The margins; the strategy is module FortTable's.
ft_set_tbl_prop(m) ==
  /\ Change
  /\ margins' = m
  /\ UNCHANGED <<rows, separators, cell_properties, defaults, border_style, conv_buffer>>

Next ==
  \/ Grow \/ ft_to_string \/ NoMemory \/ Abort
  \/ \E at \in Positions, s \in Settings : ft_set_cell_prop(at, s[1], s[2])
  \/ \E s \in Settings : ft_set_default_cell_prop(s[1], s[2])
  \/ \E style \in Styles : ft_set_border_style(style)
  \/ \E m \in Margins : ft_set_tbl_prop(m)

Spec == Init /\ [][Next]_vars

-----------------------------------------------------------------------------
\* A slave without a master, as erasing makes it (OnlyThreeTear of FortTable).
Orphaned ==
  \E p \in CellPos : Cell(p[1], p[2]).type = "SLAVE" /\ p[2] \in Printed(p[1])

Grouped == \E p \in CellPos : Cell(p[1], p[2]).type = "MASTER"

Tagged == \E p \in CellPos : cell_invis_codes_width(p[1], p[2]) > 0

(***************************************************************************)
(* With memory, a table gets its string and its buffer is not overrun:     *)
(* what table_geometry reckons is enough for what is printed afterwards,   *)
(* with the tags, the groups, the margins and the elements of several      *)
(* bytes, in a buffer made for another printing or not.  There are two     *)
(* exceptions.  A slave without a master may be wider than its column; and *)
(* when a group is wide enough thanks to the tags in its columns,          *)
(* table_geometry widens nothing for it, though what is printed has both   *)
(* the group's width and the tags.                                         *)
(***************************************************************************)
FailsOnlySpanned ==
  shown.status \in {"failed", "overrun"} => Orphaned \/ (Grouped /\ Tagged)

Alike(m, n) == (m = 0) <=> (n = 0)

\* The line above row i is not printed, or has ends and crossings where rows
\* have ends and separators.
Fits(i) ==
  LET ch == SepChars(i)  b == border_style.border
  IN  \/ {ch.L, ch.I, ch.IV, ch.R} = {0}
      \/ /\ ch.I > 0 /\ Alike(ch.L, b["LL"]) /\ Alike(ch.R, b["RR"])
         /\ \A crossing \in {ch.IV, ch.IT, ch.IB} : Alike(crossing, b["IV"])

\* Styles whose lines cannot be level: the header's rows have other ends or
\* separators; a line does not fit the rows; or a group fills the place of a
\* separator that is empty.
Ragged ==
  \/ \E item \in {"LL", "IV", "RR"} :
       ~Alike(border_style.border[item], border_style.header[item])
  \/ \E i \in 0 .. NRows : ~Fits(i)
  \/ /\ border_style.border["IV"] = 0
     /\ \E p \in CellPos : Cell(p[1], p[2]).type # "COMMON"

(***************************************************************************)
(* The lines of a printed table are equally long on the screen, whatever   *)
(* groups overlap, however many bytes tags and elements take.              *)
(***************************************************************************)
LinesLevel ==
  ~Ragged /\ NCols > 0 =>
    \A one, other \in shown.lines : one.vis = other.vis

Reaches(at, r, c) == at[1] \in {ANY, r} /\ at[2] \in {ANY, c}

\* Set closer to the cell: in what `at` itself contains, or in its column
\* if `at` is its row.
Closer(at, r, c, p) ==
  \E b \in DOMAIN cell_properties \ {at} :
    /\ p \in cell_properties[b].flags /\ Reaches(b, r, c)
    /\ \/ b[1] # ANY /\ b[2] # ANY
       \/ at = <<ANY, ANY>>
       \/ at[2] = ANY /\ b[2] # ANY

(***************************************************************************)
(* A property that is set reaches exactly the cells of its position for    *)
(* which nothing closer was ever set, and no other property or cell        *)
(* changes, though the first call for a position makes an entry with all   *)
(* properties in it.  A value that is refused changes nothing, or clears    *)
(* the property where it was not set before.                               *)
(***************************************************************************)
SetReachesItsCells ==
  [][\A at \in Positions, s \in Settings : ft_set_cell_prop(at, s[1], s[2]) =>
       \A cell \in CellPos, p \in Property : LET r == cell[1]  c == cell[2] IN
         IF p = s[1] /\ Reaches(at, r, c) /\ ~Closer(at, r, c, p)
         THEN \/ Refused(p, s[2]) /\ Prop(r, c, p)' \in {Prop(r, c, p), 0}
              \/ p \in TStyles /\ s[2] \subseteq Prop(r, c, p)'
              \/ p \notin TStyles /\ Prop(r, c, p)' = s[2]
         ELSE Prop(r, c, p)' = Prop(r, c, p)]_vars
=============================================================================
