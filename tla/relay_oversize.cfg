SPECIFICATION Spec
CONSTANTS
  Uuids = {"u1", "u2"}
  Services = {"svc"}
  MAX_MSGSIZE_BYTE = 2
  MAX_MSGCTX_NUM = 2
  Temps = {t1,t2}
  NoCtx = NoCtx
  Envelopes <- BigEnvelopes
  MaxMsgs = 2
  MaxMgnt = 0
INVARIANTS
  BodyFitsBuffer
