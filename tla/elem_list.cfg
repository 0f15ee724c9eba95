SPECIFICATION Spec
CONSTANTS
  Nodes = {n1, n2, n3, n4}
  Keys = {1, 2, 3, 4}
  Root = Root
  Null = Null
  Junk = Junk
INVARIANTS
  WellLinked
  NeverDangles
PROPERTIES
  KeepsOrder
