SPECIFICATION Spec
CONSTANTS
  Uuids = {"u1", "u2"}
  Services = {"svc"}
  MAX_MSGSIZE_BYTE = 2
  MAX_MSGCTX_NUM = 2
  Temps = {t1,t2}
  NoCtx = NoCtx
  Envelopes <- PoolEnvelopes
  MaxMsgs = 4
  MaxMgnt = 0
SYMMETRY TempSymmetry
INVARIANTS
  ContextOwnership
  MallocMeansExhausted
  ExactlyOnce
  RelayOrder
