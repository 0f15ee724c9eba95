SPECIFICATION FairSpec
CONSTANTS
  MaxMsgs = 2
INVARIANTS
  NoneTwice
  LostOnlyInWindow
PROPERTIES
  EveryCounterReset
