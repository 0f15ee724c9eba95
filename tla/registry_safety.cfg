SPECIFICATION Spec
CONSTANTS
  Uuids = {"u1", "u2", "u3"}
  Services = {"svc"}
  MAX_MSGSIZE_BYTE = 2
  Expiry = 0
  Rank <- Ranks
  SvcOf <- PairAndNameless
  Strays <- Odd
  MaxQueue = 2
  MaxEvents = 3
  Paces = {"lagging"}
INVARIANTS
  SocketFollowsRegistry
  NoLostAnnouncement
