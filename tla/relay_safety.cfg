SPECIFICATION FairSpec
CONSTANTS
  Uuids = {"u1", "u2"}
  Services = {"svc","ROUTER"}
  MAX_MSGSIZE_BYTE = 2
  MAX_MSGCTX_NUM = 2
  Temps = {t1}
  NoCtx = NoCtx
  Envelopes <- AllEnvelopes
  MaxMsgs = 2
  MaxMgnt = 1
INVARIANTS
  TypeOK
  MessageBoundary
  NoLostWakeup
  FaithfulDelivery
  StatBalance
  RouterKept
PROPERTIES
  EverySettled
  KeepsPromise
