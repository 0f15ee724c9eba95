SPECIFICATION StartSpec
\* main may give up (mpc = "exit"), and clients may have nothing left to push.
CHECK_DEADLOCK FALSE
CONSTANTS
  SleepSuffices = TRUE
  CreateFails = TRUE
  MaxPush = 3
INVARIANTS
  NothingPostedNowhere
PROPERTIES
  EarlyServed
