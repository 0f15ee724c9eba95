----------------------------- MODULE MCFortPrint ------------------------------
(* Small tables: cells missing, a title over two columns, groups that      *)
(* overlap, slaves whose master was erased, an empty row, no row.          *)
EXTENDS FortPrint

C(n) == [type |-> "COMMON", lines |-> <<n>>]
E    == [type |-> "COMMON", lines |-> << >>]
Two  == [type |-> "COMMON", lines |-> <<1, 2>>]
M(n) == [type |-> "MASTER", lines |-> <<n>>]
S(n) == [type |-> "SLAVE", lines |-> <<n>>]
S0   == [type |-> "SLAVE", lines |-> << >>]

SmallTables ==
  { << >>, << << >>, <<C(1)>> >>,
    << <<C(3), E>>, <<Two>> >>,
    << <<M(14), S0>>, <<C(1), C(1)>> >>,
    << <<M(6), S(3), C(1)>>, <<C(1), M(9), S0>>, <<C(2)>> >>,
    << <<S(4), C(1)>>, <<C(1), S0>>, <<C(1), S0>> >> }

RowSeparators == {{}, {0, 1, 2}}

AllPositions == {<<1, 0>>, <<ANY, 0>>, <<1, ANY>>, <<ANY, ANY>>}

AllSettings ==
  { <<"MIN_WIDTH", 7>>, <<"LEFT_PADDING", -1>>, <<"TOP_PADDING", 1>>,
    <<"EMPTY_STR_HEIGHT", 0>>, <<"ROW_TYPE", "HEADER">>,
    <<"CELL_BG_COLOR", 9>>, <<"CONT_FG_COLOR", LIGHT_WHYTE>>,
    <<"CONT_TEXT_STYLE", {"BOLD"}>> }

Border(n, inside) ==
  [top |-> n, separator |-> inside, bottom |-> n, side |-> n, out |-> n, in |-> inside]

AllStyles ==
  { BASIC2_STYLE, BOLD_STYLE, SIMPLE_STYLE, EMPTY_STYLE,
    set_border_props_for_props(Border(1, 1), Border(1, 0), 1),
    set_border_props_for_props(Border(1, 0), Border(3, 3), 1) }

SomeMargins == {<<2, 1, 1, 2>>}
=============================================================================
