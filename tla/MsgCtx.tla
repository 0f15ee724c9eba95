------------------------------- MODULE MsgCtx -------------------------------
(***************************************************************************)
(* The pool of message contexts (tr_recv.c): MAX_MSGCTX_NUM slots scanned  *)
(* from CURR_POS, and a malloc-ed context when the scan finds none free.   *)
(* TR_RECV alone takes contexts; TR_SEND gives them back while TR_RECV is  *)
(* scanning, so the scan is one step per slot it looks at.  The `occupied` *)
(* flags are plain ints shared without a lock: a read returns what the     *)
(* other thread has or has not yet written, which is that interleaving.    *)
(***************************************************************************)
EXTENDS ZMessage

CONSTANTS
  MAX_MSGCTX_NUM,   \* slots of the pool
  Temps             \* the contexts malloc can return (bound for TLC)

Slots    == 0 .. MAX_MSGCTX_NUM - 1
Contexts == Slots \cup Temps

ASSUME PoolAssumption ==
  /\ MAX_MSGCTX_NUM \in Nat /\ MAX_MSGCTX_NUM > 1
  /\ Temps \cap Int = {}

VARIABLES
  busy,       \* slots with occupied = 1 and the malloc-ed contexts not freed
  ctx,        \* contents of each context
  CURR_POS,   \* where the next scan starts
  probe,      \* i of the scan in progress
  scanned     \* history: the slots that were occupied when the scan began

poolVars == <<busy, ctx, CURR_POS, probe, scanned>>

(***************************************************************************)
(* A context's head remembers the message it was filled from (of = 0 after *)
(* the memset) and what the broker changes in it; buf is the message whose *)
(* body the buffer was last filled from, 0 after calloc, and how many of   *)
(* the body's bytes were stored.  The reason string is kept as the numbers *)
(* it prints for a size mismatch.                                          *)
(***************************************************************************)
Buffer == [of: Nat, len: 0 .. MAX_MSGSIZE_BYTE]

Zeros == [of |-> 0, len |-> 0]

Context == [of: Nat, n_bytes: Nat, resp_code: zmsg_resp_t,
            reason: {<< >>} \cup (Nat \X Nat), buf: Buffer]

ZeroHead(buf) ==
  [of |-> 0, n_bytes |-> 0, resp_code |-> "OK", reason |-> << >>, buf |-> buf]

InitPool ==
  /\ busy = {}
  /\ ctx = [c \in Contexts |-> ZeroHead(Zeros)]
  /\ CURR_POS = 0
  /\ probe = 0
  /\ scanned = {}

\* mutant: a malloc-ed context is numbered as if it followed the last slot
IdPastPool(c) == IF c \in Slots THEN c ELSE MAX_MSGCTX_NUM

msg_ctx_id(c) == IF c \in Slots THEN c ELSE -1

\* mutant: the scan does not wrap around
PosNoWrap(i) == IF CURR_POS + i < MAX_MSGCTX_NUM THEN CURR_POS + i
                                                 ELSE MAX_MSGCTX_NUM - 1

Pos(i) == (CURR_POS + i) % MAX_MSGCTX_NUM

StartScan ==
  /\ probe' = 0
  /\ scanned' = busy \cap Slots
  /\ UNCHANGED <<busy, ctx, CURR_POS>>

SkipOccupied ==
  /\ probe < MAX_MSGCTX_NUM
  /\ Pos(probe) \in busy
  /\ probe' = probe + 1
  /\ UNCHANGED <<busy, ctx, CURR_POS, scanned>>

\* CURR_POS = (msg_ctx->msg_ctx_id) + 1 % MAX_MSGCTX_NUM, as C reads it: the
\* remainder binds first, so CURR_POS may be MAX_MSGCTX_NUM, never beyond.
Take(c) ==
  /\ busy' = busy \cup {c}
  /\ ctx' = [ctx EXCEPT ![c] = ZeroHead(IF c \in Slots THEN @.buf ELSE Zeros)]
  /\ CURR_POS' = msg_ctx_id(c) + (1 % MAX_MSGCTX_NUM)
  /\ UNCHANGED <<probe, scanned>>

get_msg_ctx(c) ==
  \/ probe < MAX_MSGCTX_NUM /\ Pos(probe) \notin busy /\ c = Pos(probe) /\ Take(c)
  \/ probe = MAX_MSGCTX_NUM /\ c \in Temps \ busy /\ Take(c)

\* mutant: a malloc-ed context is treated as a slot and never freed
FreeSlotOnly(c) ==
  /\ busy' = IF c \in Slots THEN busy \ {c} ELSE busy
  /\ UNCHANGED <<CURR_POS, probe, scanned>>

\* occupied = 0 for a slot, free() for a malloc-ed context.
free_msg_ctx(c) ==
  /\ busy' = busy \ {c}
  /\ UNCHANGED <<CURR_POS, probe, scanned>>
=============================================================================
