SPECIFICATION FairSpec
CONSTANTS
  Uuids = {"u1", "u2"}
  Services = {"svc"}
  MAX_MSGSIZE_BYTE = 2
  Expiry = 1
  Rank <- PairRanks
  SvcOf <- Pair
  Strays <- NoStrays
  MaxQueue = 2
  MaxEvents = 2
  Paces = {"lagging", "prompt", "punctual"}
PROPERTIES
  DeadForgotten
  DeadServiceClosed
  ServiceOpened
  OnlySilentExpire
