------------------------------ MODULE FortProps -------------------------------
(***************************************************************************)
(* The properties of a libfort table (properties.c).  A table keeps an     *)
(* entry for a cell, a whole row, a whole column or all cells; an entry    *)
(* says which properties were set (flags) and holds a value for each.      *)
(* Positions are <<row, column>>; a text style is the set of its           *)
(* attributes.                                                             *)
(***************************************************************************)
EXTENDS Integers, Sequences, FiniteSetsExt

ANY == -1      \* FT_ANY_ROW, FT_ANY_COLUMN

Counts   == {"MIN_WIDTH", "TOP_PADDING", "BOTTOM_PADDING", "LEFT_PADDING",
             "RIGHT_PADDING", "EMPTY_STR_HEIGHT"}
Colours  == {"CONT_FG_COLOR", "CONT_BG_COLOR", "CELL_BG_COLOR"}
TStyles  == {"CELL_TEXT_STYLE", "CONT_TEXT_STYLE"}
Property == Counts \cup Colours \cup TStyles \cup {"TEXT_ALIGN", "ROW_TYPE"}

LIGHT_WHYTE == 17     \* the last of the colours; DEFAULT is 0

\* The attributes of a style, which has none if it is DEFAULT.
TextStyle == {"BOLD", "DIM", "ITALIC", "UNDERLINED", "BLINK", "INVERTED", "HIDDEN"}

\* The values a call may give a property: fort.h has an enumeration of the
\* colours and one of the attributes.
MayBe(p, v) ==
  /\ p \in Counts => v \in Int
  /\ p \in Colours => v \in 0 .. LIGHT_WHYTE
  /\ p \in TStyles => v \subseteq TextStyle

\* What memset makes of an entry.
Zeroed ==
  [p \in Property |-> IF p \in Counts \cup Colours THEN 0
                     ELSE IF p \in TStyles THEN {}
                     ELSE IF p = "TEXT_ALIGN" THEN "LEFT" ELSE "COMMON"]

g_default_cell_properties ==
  [flags |-> Property \ {"ROW_TYPE"},
   val   |-> [Zeroed EXCEPT !.LEFT_PADDING = 1, !.RIGHT_PADDING = 1, !.EMPTY_STR_HEIGHT = 1]]

NoFlags == [flags |-> {}, val |-> Zeroed]

Refused(p, v) == p \in Counts /\ v < 0

\* The flag is set before the value is looked at.
set_cell_property_impl(entry, p, v) ==
  [flags |-> entry.flags \cup {p},
   val   |-> IF Refused(p, v) THEN entry.val
             ELSE IF p \in TStyles /\ v # {} THEN [entry.val EXCEPT ![p] = @ \cup v]
             ELSE [entry.val EXCEPT ![p] = v]]

\* mutant: the entry for all cells starts from nothing, but has its flags
AllFromNothing(cont, at, defaults) ==
  IF at \in DOMAIN cont THEN cont[at]
  ELSE IF at = <<ANY, ANY>> THEN [defaults EXCEPT !.val = Zeroed]
  ELSE NoFlags

get_cell_prop_and_create(cont, at, defaults) ==
  IF at \in DOMAIN cont THEN cont[at]
  ELSE IF at = <<ANY, ANY>> THEN defaults
  ELSE NoFlags

set_cell_property(cont, at, p, v, defaults) ==
  LET e == set_cell_property_impl(get_cell_prop_and_create(cont, at, defaults), p, v)
  IN  [q \in DOMAIN cont \cup {at} |-> IF q = at THEN e ELSE cont[q]]

\* Where a property of a cell is looked for: the cell, its column, its row, all.
Hierarchy(row, col) == <<<<row, col>>, <<ANY, col>>, <<row, ANY>>, <<ANY, ANY>>>>

\* The first of them with the property among its flags decides.
get_cell_property_hierarchically(cont, defaults, row, col, p) ==
  LET places == Hierarchy(row, col)
      set == {k \in 1 .. 4 : places[k] \in DOMAIN cont /\ p \in cont[places[k]].flags}
  IN  IF set = {} THEN defaults.val[p] ELSE cont[places[Min(set)]].val[p]

-----------------------------------------------------------------------------
(* Border styles.  An element is its length in bytes, 0 if it is empty; it  *)
(* takes one column on the screen.                                          *)

Inside == {"LH", "IH", "II", "RH"}
BorderItems ==
  Inside \cup {"TL", "TT", "TV", "TR", "LL", "IV", "RR", "BL", "BB", "BV", "BR",
               "LI", "TI", "RI", "BI"}
SepItems == Inside \cup {"TI", "BI"}

BorderStyles ==
  [border : [BorderItems -> Nat], header : [BorderItems -> Nat], separator : [SepItems -> Nat]]

Only(S, bytes) == [i \in BorderItems |-> IF i \in S THEN bytes ELSE 0]
OnlySep(S, bytes) == [i \in SepItems |-> IF i \in S THEN bytes ELSE 0]

BASIC_STYLE  == [border    |-> Only(BorderItems \ Inside, 1),
                 header    |-> Only(BorderItems, 1),
                 separator |-> OnlySep(SepItems, 1)]
BASIC2_STYLE == [BASIC_STYLE EXCEPT !.border = Only(BorderItems, 1)]
BOLD_STYLE   == [border    |-> Only(BorderItems \ Inside, 3),
                 header    |-> Only(BorderItems, 3),
                 separator |-> OnlySep(SepItems, 3)]
SIMPLE_STYLE == [border    |-> Only({"IV"}, 1),
                 header    |-> Only({"IV", "IH", "II", "BB", "BV", "LI", "TI", "RI", "BI"}, 1),
                 separator |-> OnlySep({"IH", "II", "TI", "BI"}, 1)]
EMPTY_STYLE  == [border    |-> Only({}, 0), header |-> Only({}, 0),
                 separator |-> OnlySep({"IH"}, 1)]

\* The elements of a style of the caller's: b and h are ft_border_chars.
Chars(b) ==
  [i \in BorderItems |->
     CASE i = "TT" -> b.top [] i = "IH" -> b.separator [] i = "BB" -> b.bottom
       [] i \in {"LL", "IV", "RR"} -> b.side
       [] i \in {"TL", "TV", "TR", "LH", "RH", "BL", "BV", "BR"} -> b.out
       [] OTHER -> b.in]

\* Both tests clear the ends of the plain lines, the second one too (3531).
set_border_props_for_props(b, h, hor) ==
  [border    |-> [i \in BorderItems |->
                    IF /\ i \in {"LH", "RH"}
                       /\ \E c \in {b, h} : c.separator = 0 /\ c.in = 0
                    THEN 0 ELSE Chars(b)[i]],
   header    |-> Chars(h),
   separator |-> [i \in SepItems |-> IF i = "IH" THEN hor ELSE h.out]]

max_border_elem_strlen(style) ==
  Max({1} \cup Range(style.border) \cup Range(style.header) \cup Range(style.separator))
=============================================================================
