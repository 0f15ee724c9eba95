SPECIFICATION Spec
CONSTANTS
  Tables <- SmallTables
  Separators <- RowSeparators
  Positions <- AllPositions
  Settings <- AllSettings
  Styles <- AllStyles
  Margins <- SomeMargins
  MaxCalls = 2
\* A table that has been printed need not be changed.
CHECK_DEADLOCK FALSE
INVARIANTS
  FailsOnlySpanned
  LinesLevel
PROPERTIES
  SetReachesItsCells
