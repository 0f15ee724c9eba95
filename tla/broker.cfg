SPECIFICATION BrokerSpec
CONSTANTS
  Uuids = {"u1", "u2"}
  Services = {"svc"}
  MAX_MSGSIZE_BYTE = 2
  MAX_MSGCTX_NUM = 2
  Temps = {}
  NoCtx = NoCtx
  Envelopes <- OneEnvelope
  MaxMsgs = 1
  MaxMgnt = 2
  Expiry = 0
  Rank <- Ranks
  SvcOf <- PairOfOne
  Strays <- NoStrays
  MaxQueue = 1
  Paces = {"lagging"}
INVARIANTS
  SocketWaits
PROPERTIES
  ImplementsRelay
  ImplementsRegistry
