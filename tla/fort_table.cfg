SPECIFICATION Spec
\* A caller need not call, and a spoiled table ends the program.
CHECK_DEADLOCK FALSE
CONSTANTS
  Junk = Junk
  Capacity = 1
  MaxRows = 2
  MaxCols = 3
  MaxCalls = 4
INVARIANTS
  TypeOK
  GapsOnlyBehindEnd
PROPERTIES
  SeparatorsStay
  OnlyThreeTear
  ImplementsGrid
