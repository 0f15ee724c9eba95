---------------------------- MODULE RelayProofs ----------------------------
(***************************************************************************)
(* Proofs about module Relay, for a pool, a set of messages and a number   *)
(* of pending socket events of any size: IInv is inductive, and the safety *)
(* properties of the relay path follow from it.  The last two parts add    *)
(* where messages and statistics are, and that the path keeps the promise  *)
(* of module Delivery.                                                     *)
(*                                                                         *)
(* One lemma per group of IInv's conjuncts says that every step keeps it   *)
(* (TypeStep, OwnershipStep, ReadyStep, CountStep, WireStep, RouterStep,   *)
(* SocketStep, LastStep, OrderStep); they share lemmas about what an event *)
(* posted or run does to TR_SEND's queue, what receiving does to the       *)
(* socket, and where the events and the wire entries of a step come from.  *)
(***************************************************************************)
EXTENDS Relay, TLAPS, SequenceTheorems, FiniteSetTheorems

-----------------------------------------------------------------------------
(* Data. *)

\* A scan looks at slots only, wherever it starts.
LEMMA PosInSlots ==
  ASSUME CURR_POS \in 0 .. MAX_MSGCTX_NUM, NEW i \in Nat
  PROVE  Pos(i) \in Slots
BY PoolAssumption, SMT DEF Pos, Slots

\* CURR_POS stays within the pool after a context was taken, malloc-ed or not.
LEMMA TakenPos ==
  ASSUME NEW c \in Contexts
  PROVE  msg_ctx_id(c) + (1 % MAX_MSGCTX_NUM) \in 0 .. MAX_MSGCTX_NUM
BY PoolAssumption, SMT DEF msg_ctx_id, Contexts, Slots

\* What the PULL socket's operations keep.
LEMMA ZSockTypes ==
  ASSUME NEW s \in ZSockOf(Nat)
  PROVE  /\ Attach(s) \in ZSockOf(Nat)
         /\ ReadEvents(s) \in ZSockOf(Nat)
         /\ Again(s) \in ZSockOf(Nat)
         /\ zsock_drain_remain_part(s) \in ZSockOf(Nat)
BY DEF Attach, ReadEvents, Again, zsock_drain_remain_part, ZSockOf

\* A message arrives.
LEMMA ArriveType ==
  ASSUME NEW s \in ZSockOf(Nat), NEW i \in Nat
  PROVE  Arrive(s, i) \in ZSockOf(Nat)
  <1> DEFINE q == Append(s.q, i)  b == s.signal \/ s.armed
  <1>1. q \in Seq(Nat)
    BY DEF ZSockOf
  <1>2. b \in BOOLEAN
    OBVIOUS
  <1>3. Arrive(s, i) = [s EXCEPT !.q = q, !.signal = b, !.armed = FALSE]
    BY DEF Arrive
  <1> HIDE DEF q, b
  <1> QED BY <1>1, <1>2, <1>3 DEF ZSockOf

\* A message is received, k of its parts beyond the first.
LEMMA TakeHeadType ==
  ASSUME NEW s \in ZSockOf(Nat), s.q # << >>, NEW p \in Nat \ {0}, NEW k \in 0 .. p - 1
  PROVE  [TakeHead(s, p) EXCEPT !.more = @ - k] \in ZSockOf(Nat)
  <1> DEFINE q == Tail(s.q)  n == p - 1  m == n - k
  <1>1. q \in Seq(Nat)
    BY DEF ZSockOf
  <1>2. n \in Nat /\ m \in Nat
    OBVIOUS
  <1>3. TakeHead(s, p) = [s EXCEPT !.q = q, !.more = n]
    BY DEF TakeHead
  <1> HIDE DEF q, n
  <1>4. [TakeHead(s, p) EXCEPT !.more = @ - k] = [s EXCEPT !.q = q, !.more = m]
    BY <1>1, <1>2, <1>3 DEF ZSockOf
  <1> HIDE DEF m
  <1> QED BY <1>1, <1>2, <1>4 DEF ZSockOf

\* err_msg_reply changes the code and the reason of a context, nothing else.
LEMMA FailedType ==
  ASSUME NEW c \in Context,
         NEW code \in zmsg_resp_t, NEW why \in {<< >>} \cup (Nat \X Nat)
  PROVE  /\ Failed(c, code, why) \in Context
         /\ Failed(c, code, why).resp_code = code
         /\ Failed(c, code, why).of = c.of
         /\ Failed(c, code, why).n_bytes = c.n_bytes
         /\ Failed(c, code, why).buf = c.buf
BY DEF Failed, Context

\* What Receive leaves in the context of message i: with its head read, and
\* with its body read too.
HeadRead(c, i, n) == [c EXCEPT !.of = i, !.n_bytes = n]
BodyRead(c, i, n) == [c EXCEPT !.of = i, !.n_bytes = n, !.buf = Stored(i)]

\* The size a message really has is the one OwnBody asks of what is stored of it.
LEMMA StoredIs ==
  ASSUME NEW i \in Nat, NEW n \in Nat, msgs[i].size = n
  PROVE  /\ Stored(i) \in Buffer /\ Stored(i).of = i
         /\ n <= MAX_MSGSIZE_BYTE => Stored(i).len = n
         /\ n > MAX_MSGSIZE_BYTE => Stored(i).len = MAX_MSGSIZE_BYTE
  <1>1. MAX_MSGSIZE_BYTE \in Nat
    BY MsgSizeAssumption
  <1> DEFINE len == IF n <= MAX_MSGSIZE_BYTE THEN n ELSE MAX_MSGSIZE_BYTE
  <1>2. /\ len \in 0 .. MAX_MSGSIZE_BYTE
        /\ n <= MAX_MSGSIZE_BYTE => len = n
        /\ n > MAX_MSGSIZE_BYTE => len = MAX_MSGSIZE_BYTE
    BY <1>1
  <1>3. Stored(i) = [of |-> i, len |-> len]
    BY DEF Stored
  <1> HIDE DEF len
  <1> QED BY <1>2, <1>3 DEF Buffer

\* The context of a message refused on its head.
LEMMA RejectedHead ==
  ASSUME NEW c \in Context, NEW i \in Nat, NEW code \in zmsg_resp_t
  PROVE  \E d \in Context :
           /\ d = Failed(HeadRead(c, i, 0), code, << >>)
           /\ d.of = i /\ d.n_bytes = 0 /\ d.resp_code = code
  <1> DEFINE d == Failed(HeadRead(c, i, 0), code, << >>)
  <1>1. d \in Context /\ d.of = i /\ d.n_bytes = 0 /\ d.resp_code = code
    BY DEF Failed, HeadRead, Context
  <1> HIDE DEF d
  <1> QED BY <1>1 DEF d

\* The context of a message refused on the size of its body.
LEMMA RejectedBody ==
  ASSUME NEW c \in Context, NEW i \in Nat, NEW n \in Nat, msgs[i].size = n,
         NEW code \in zmsg_resp_t
  PROVE  \E d \in Context :
           /\ d = Failed(BodyRead(c, i, n), code, <<n, n>>)
           /\ d.of = i /\ OwnBody(d) /\ d.resp_code = code
  <1> DEFINE d == Failed(BodyRead(c, i, n), code, <<n, n>>)
             b == Stored(i)
  <1>0. b \in Buffer /\ b.of = i /\ (n <= MAX_MSGSIZE_BYTE => b.len = n)
        /\ (n > MAX_MSGSIZE_BYTE => b.len = MAX_MSGSIZE_BYTE)
    BY StoredIs
  <1> HIDE DEF b
  <1>1. d \in Context /\ d.of = i /\ d.buf = b /\ d.n_bytes = n /\ d.resp_code = code
    BY <1>0 DEF Failed, BodyRead, Context, b
  <1> HIDE DEF d
  <1>2. OwnBody(d)
    BY <1>0, <1>1 DEF OwnBody
  <1> QED BY <1>1, <1>2 DEF d

\* The context of a message to relay.
LEMMA AcceptedBody ==
  ASSUME NEW c \in Context, NEW i \in Nat, NEW n \in Nat, msgs[i].size = n
  PROVE  \E d \in Context :
           /\ d = BodyRead(c, i, n)
           /\ d.of = i /\ OwnBody(d) /\ d.n_bytes = n /\ d.resp_code = c.resp_code
  <1> DEFINE d == BodyRead(c, i, n)
             b == Stored(i)
  <1>0. b \in Buffer /\ b.of = i /\ (n <= MAX_MSGSIZE_BYTE => b.len = n)
        /\ (n > MAX_MSGSIZE_BYTE => b.len = MAX_MSGSIZE_BYTE)
    BY StoredIs
  <1> HIDE DEF b
  <1>1. d \in Context /\ d.of = i /\ d.buf = b /\ d.n_bytes = n /\ d.resp_code = c.resp_code
    BY <1>0 DEF BodyRead, Context, b
  <1> HIDE DEF d
  <1>2. OwnBody(d)
    BY <1>0, <1>1 DEF OwnBody
  <1> QED BY <1>1, <1>2 DEF d

\* The message at the head of the socket is the next one to be received.
LEMMA HeadReceived ==
  ASSUME TypeOK, QueueIsRest, pull.q # << >>
  PROVE  /\ Head(pull.q) \in 1 .. Len(msgs)
         /\ Head(pull.q) \in Nat
         /\ Head(pull.q) = Len(msgs) - Len(pull.q) + 1
         /\ msgs[Head(pull.q)] \in envelop_t
  <1>1. pull.q \in Seq(Nat) /\ msgs \in Seq(envelop_t)
    BY DEF TypeOK, ZSockOf
  <1>2. Len(pull.q) \in Nat /\ Len(pull.q) > 0 /\ Len(msgs) \in Nat
        /\ 1 \in DOMAIN pull.q /\ Head(pull.q) = pull.q[1]
    BY <1>1
  <1>3. Head(pull.q) = Len(msgs) - Len(pull.q) + 1 /\ Len(pull.q) <= Len(msgs)
    BY <1>2 DEF QueueIsRest, NReceived
  <1>4. Head(pull.q) \in 1 .. Len(msgs)
    <2> DEFINE a == Len(msgs)  b == Len(pull.q)  h == Head(pull.q)
    <2>1. a \in Nat /\ b \in Nat /\ b > 0 /\ h = a - b + 1 /\ b <= a
      BY <1>2, <1>3
    <2> HIDE DEF a, b, h
    <2>2. h \in 1 .. a
      BY <2>1
    <2> QED BY <2>2 DEF a, h
  <1>5. msgs[Head(pull.q)] \in envelop_t
    BY <1>1, <1>4, ElementOfSeq
  <1>6. Head(pull.q) \in Nat
    BY <1>1, HeadTailProperties
  <1> QED BY <1>3, <1>4, <1>5, <1>6

\* Whatever TR_RECV finds, it takes one message off the socket, k of its
\* parts, fills its context d with it and leaves it ready for the handler h.
Filled(k, d, h) ==
  /\ rpc = "read" /\ pull.q # << >> /\ cur \in Contexts
  /\ msgs[Head(pull.q)].parts >= k
  /\ Receive(k, d, h)
  /\ d.of = Head(pull.q) /\ (d.n_bytes > 0 => OwnBody(d))
  /\ h = "push_relay" => /\ d.resp_code = "OK" /\ msgs[d.of].type = "TRAFFIC"
                         /\ d.n_bytes = msgs[d.of].size
  /\ h = "router_err_reply" => d.resp_code # "OK"

\* Each of the four ends of evsock_pull_read's checks fills the context so.
LEMMA HeadFills ==
  ASSUME TypeOK, QueueIsRest, ContextsReady, PullHead
  PROVE  \E k \in {1, 2}, d \in Context, h \in {"push_relay", "router_err_reply"} :
           Filled(k, d, h)
  <1>1. rpc = "read" /\ pull.q # << >> /\ cur \in Contexts /\ ctx[cur].resp_code = "OK"
    BY DEF PullHead, PullBadType, PullNullBody, PullDiffSize, PullAccept, ContextsReady, Holding
  <1>2. PICK i \in Nat : i = Head(pull.q)
    BY <1>1, HeadReceived
  <1>3. PICK m \in envelop_t : m = msgs[i]
    BY <1>1, <1>2, HeadReceived
  <1>4. PICK c \in Context : c = ctx[cur]
    BY <1>1 DEF TypeOK
  <1>5. m.size \in Nat /\ m.parts \in Nat \ {0}
    BY DEF envelop_t
  <1>6. CASE PullBadType
    <2>2. PICK d \in Context :
            /\ d = Failed(HeadRead(c, i, 0), "INVALID_TYPE", << >>)
            /\ d.of = i /\ d.n_bytes = 0 /\ d.resp_code = "INVALID_TYPE"
      BY RejectedHead DEF zmsg_resp_t
    <2>3. Receive(1, d, "router_err_reply")
      BY <1>2, <1>4, <1>6, <2>2 DEF PullBadType, HeadRead
    <2>4. m.parts >= 1
      BY <1>5
    <2> QED BY <1>1, <1>2, <1>3, <2>2, <2>3, <2>4 DEF Filled
  <1>7. CASE PullNullBody
    <2>2. PICK d \in Context :
            /\ d = Failed(HeadRead(c, i, 0), "NULL_RECV", << >>)
            /\ d.of = i /\ d.n_bytes = 0 /\ d.resp_code = "NULL_RECV"
      BY RejectedHead DEF zmsg_resp_t
    <2>3. Receive(1, d, "router_err_reply")
      BY <1>2, <1>4, <1>7, <2>2 DEF PullNullBody, HeadRead
    <2>4. m.parts >= 1
      BY <1>5
    <2> QED BY <1>1, <1>2, <1>3, <2>2, <2>3, <2>4 DEF Filled
  <1>8. CASE PullDiffSize
    <2>2. PICK d \in Context :
            /\ d = Failed(BodyRead(c, i, m.size), "DIFF_RECV", <<m.size, m.size>>)
            /\ d.of = i /\ OwnBody(d) /\ d.resp_code = "DIFF_RECV"
      BY <1>3, <1>5, RejectedBody DEF zmsg_resp_t
    <2>3. Receive(2, d, "router_err_reply")
      BY <1>2, <1>3, <1>4, <1>8, <2>2 DEF PullDiffSize, BodyRead
    <2>4. m.parts >= 2
      BY <1>2, <1>3, <1>5, <1>8 DEF PullDiffSize
    <2> QED BY <1>1, <1>2, <1>3, <2>2, <2>3, <2>4 DEF Filled
  <1>9. CASE PullAccept
    <2>1. m.n_bytes = m.size /\ m.type = "TRAFFIC" /\ Receive(2, BodyRead(c, i, m.n_bytes), "push_relay")
      BY <1>2, <1>3, <1>4, <1>9 DEF PullAccept, BodyRead
    <2>n. PICK n \in Nat : n = m.size
      BY <1>5
    <2>2. PICK d \in Context :
            /\ d = BodyRead(c, i, n) /\ d.of = i /\ OwnBody(d)
            /\ d.n_bytes = n /\ d.resp_code = c.resp_code
      <3>1. msgs[i].size = n
        BY <1>3, <2>n
      <3> QED BY ONLY AcceptedBody, n \in Nat, i \in Nat, c \in Context, <3>1
    <2>4. m.parts >= 2
      BY <1>2, <1>3, <1>5, <1>9 DEF PullAccept
    <2>5. Receive(2, d, "push_relay") /\ c.resp_code = "OK"
      BY <1>1, <1>4, <2>1, <2>n, <2>2
    <2> QED BY <1>1, <1>2, <1>3, <2>1, <2>n, <2>2, <2>4, <2>5 DEF Filled
  <1> QED BY <1>6, <1>7, <1>8, <1>9 DEF PullHead

\* The event at the head of the queue points to a context ready for it.
LEMMA HeadCtx ==
  ASSUME TypeOK, ContextsReady, QueueIsRest,
         NextIs("push_relay") \/ NextIs("router_err_reply")
  PROVE  /\ arg \in Contexts
         /\ ctx[arg] \in Context
         /\ head \in envelop_t
         /\ ctx[arg].of \in Received
         /\ ctx[arg].of \in 1 .. Len(msgs)
         /\ ReadyFor(Head(sendq).h, ctx[arg])
  <1>1. sendq # << >> /\ Head(sendq) \in Events /\ 1 \in DOMAIN sendq /\ sendq[1] = Head(sendq)
    BY DEF NextIs, TypeOK
  <1>2. arg \in Contexts
    BY <1>1 DEF NextIs, arg, Events
  <1>3. ReadyFor(sendq[1].h, ctx[arg])
    BY <1>1 DEF ContextsReady, CtxEvents, IsCtxEvent, NextIs, arg
  <1>4. Len(msgs) \in Nat /\ Len(pull.q) \in Nat /\ DOMAIN msgs = 1 .. Len(msgs)
    BY DEF TypeOK, ZSockOf
  <1>5. ctx[arg].of \in 1 .. Len(msgs) /\ ctx[arg].of \in Received
    BY <1>3, <1>4 DEF ReadyFor, Received, NReceived, QueueIsRest
  <1>6. head \in envelop_t
    BY <1>4, <1>5 DEF TypeOK, head
  <1> QED BY <1>1, <1>2, <1>3, <1>5, <1>6 DEF TypeOK

\* STAT_INC keeps the types of the statistics.
LEMMA StatTypes ==
  ASSUME TypeOK, NEW which, NEW code \in zmsg_resp_t, StatInc(which, code)
  PROVE  /\ stat' \in [{"att", "succ", "fail"} -> Nat]
         /\ reasons' \in [zmsg_resp_t -> Nat]
  <1>1. stat \in [{"att", "succ", "fail"} -> Nat] /\ reasons \in [zmsg_resp_t -> Nat]
    BY DEF TypeOK
  <1>2. \A s \in {"att", "succ", "fail"} : stat[s] + 1 \in Nat
    BY <1>1
  <1>3. reasons[code] + 1 \in Nat
    BY <1>1
  <1> QED BY <1>1, <1>2, <1>3 DEF StatInc

\* The statistics keep their types while TR_RECV counts a message.
LEMMA HeadStats ==
  ASSUME TypeOK, PullHead
  PROVE  /\ stat' \in [{"att", "succ", "fail"} -> Nat]
         /\ reasons' \in [zmsg_resp_t -> Nat]
  <1>1. CASE PullAccept
    BY <1>1 DEF PullAccept, TypeOK
  <1>2. ASSUME NEW code \in zmsg_resp_t, StatInc({"att", "fail"}, code)
        PROVE  /\ stat' \in [{"att", "succ", "fail"} -> Nat]
               /\ reasons' \in [zmsg_resp_t -> Nat]
    BY <1>2, StatTypes
  <1>3. CASE PullBadType
    BY <1>2, <1>3 DEF PullBadType, zmsg_resp_t
  <1>4. CASE PullNullBody
    BY <1>2, <1>4 DEF PullNullBody, zmsg_resp_t
  <1>5. CASE PullDiffSize
    BY <1>2, <1>5 DEF PullDiffSize, zmsg_resp_t
  <1> QED BY <1>1, <1>3, <1>4, <1>5 DEF PullHead

\* Receive keeps the types of the socket, the contexts and the pc.
LEMMA ReceiveTypes ==
  ASSUME TypeOK, QueueIsRest, pull.q # << >>, cur \in Contexts,
         NEW k \in {1, 2}, msgs[Head(pull.q)].parts >= k,
         NEW c \in Context, NEW next \in RecvPcs, Receive(k, c, next)
  PROVE  /\ pull' \in ZSockOf(Nat)
         /\ ctx' \in [Contexts -> Context]
         /\ rpc' \in RecvPcs
  <1> DEFINE p == msgs[Head(pull.q)].parts
  <1>1. p \in Nat \ {0} /\ k - 1 \in 0 .. p - 1
    BY HeadReceived DEF envelop_t
  <1>2. pull \in ZSockOf(Nat)
    BY DEF TypeOK
  <1>3. pull' = [TakeHead(pull, p) EXCEPT !.more = @ - (k - 1)]
    BY DEF Receive
  <1> HIDE DEF p
  <1>4. pull' \in ZSockOf(Nat)
    BY <1>1, <1>2, <1>3, TakeHeadType
  <1>5. ctx' \in [Contexts -> Context]
    BY DEF TypeOK, Receive
  <1>6. rpc' \in RecvPcs
    BY DEF Receive
  <1> QED BY <1>4, <1>5, <1>6

\* The queue of TR_SEND holds events after a post and after a run.
LEMMA PostTypes ==
  ASSUME TypeOK, NEW e \in Events, sendq # << >>
  PROVE  /\ Append(sendq, e) \in Seq(Events)
         /\ RunEvent(<<e>>) => sendq' \in Seq(Events)
         /\ RunEvent(<< >>) => sendq' \in Seq(Events)
  <1>1. sendq \in Seq(Events) /\ Tail(sendq) \in Seq(Events)
    BY HeadTailProperties DEF TypeOK
  <1>2. Append(sendq, e) \in Seq(Events)
    BY <1>1, AppendProperties
  <1>3. <<e>> \in Seq(Events) /\ << >> \in Seq(Events)
    OBVIOUS
  <1>4. Tail(sendq) \o <<e>> \in Seq(Events) /\ Tail(sendq) \o << >> \in Seq(Events)
    BY <1>1, <1>3, ConcatProperties
  <1> QED BY <1>2, <1>4 DEF RunEvent

\* Every step keeps the types.
LEMMA TypeStep == IInv /\ [Next]_vars => TypeOK'
  <1> SUFFICES ASSUME IInv, [Next]_vars PROVE TypeOK'
    OBVIOUS
  <1>0. TypeOK /\ QueueIsRest /\ ContextsReady
    BY DEF IInv
  <1>1. ASSUME NEW m \in Envelopes, Push(m), UNCHANGED wire PROVE TypeOK'
    <2>1. msgs' \in Seq(envelop_t) /\ Len(msgs) + 1 \in Nat
      BY <1>0, <1>1, EnvelopesAssumption DEF TypeOK, Push
    <2>2. pull' \in ZSockOf(Nat)
      BY <1>0, <1>1, <2>1, ArriveType DEF TypeOK, Push
    <2> QED BY <1>0, <1>1, <2>1, <2>2 DEF TypeOK, Push, statVars, poolVars, sendVars
  <1>2. CASE Connect /\ UNCHANGED wire
    <2>1. pull' \in ZSockOf(Nat)
      BY <1>0, <1>2, ZSockTypes DEF TypeOK, Connect
    <2> QED BY <1>0, <1>2, <2>1 DEF TypeOK, Connect, statVars, poolVars, sendVars
  <1>3. CASE MgntPost
    <2>1. PICK h \in {"push_create", "push_remove"}, s \in Services :
            sendq' = Append(sendq, Event(h, s))
      BY <1>3 DEF MgntPost, event_base_once
    <2>2. Event(h, s) \in Events
      BY DEF Event, Events
    <2>3. sendq' \in Seq(Events)
      BY <1>0, <2>1, <2>2, AppendProperties DEF TypeOK
    <2> QED BY <1>0, <1>3, <2>3 DEF TypeOK, MgntPost, recvVars, statVars, poolVars
  <1>4. CASE PullWake /\ UNCHANGED wire
    <2>1. pull' \in ZSockOf(Nat)
      BY <1>0, <1>4, ZSockTypes DEF TypeOK, PullWake
    <2> QED BY <1>0, <1>4, <2>1 DEF TypeOK, PullWake, RecvPcs, statVars, poolVars, sendVars
  <1>5. CASE PullTry /\ UNCHANGED wire
    <2>1. pull' \in ZSockOf(Nat)
      BY <1>0, <1>5, ZSockTypes DEF TypeOK, PullTry
    <2>2. probe' \in 0 .. MAX_MSGCTX_NUM /\ scanned' \in SUBSET Slots
      BY <1>5, PoolAssumption DEF PullTry, StartScan
    <2> QED BY <1>0, <1>5, <2>1, <2>2
            DEF TypeOK, PullTry, StartScan, RecvPcs, statVars, sendVars
  <1>6. CASE PullScan /\ UNCHANGED wire
    <2>1. probe' \in 0 .. MAX_MSGCTX_NUM
      BY <1>0, <1>6, PoolAssumption DEF TypeOK, PullScan, SkipOccupied
    <2> QED BY <1>0, <1>6, <2>1
            DEF TypeOK, PullScan, SkipOccupied, recvVars, statVars, sendVars
  <1>7. CASE PullGetCtx /\ UNCHANGED wire
    <2>1. PICK c \in Contexts : Take(c) /\ cur' = c
      BY <1>7 DEF PullGetCtx, get_msg_ctx
    <2>2. CURR_POS' \in 0 .. MAX_MSGCTX_NUM
      BY <2>1, TakenPos DEF Take
    <2>3. ctx' \in [Contexts -> Context]
      <3> DEFINE z == ZeroHead(IF c \in Slots THEN ctx[c].buf ELSE Zeros)
      <3>1. ctx[c].buf \in Buffer /\ Zeros \in Buffer
        BY <1>0, MsgSizeAssumption DEF TypeOK, Context, Zeros, Buffer
      <3>2. z \in Context
        BY <3>1 DEF ZeroHead, Context, zmsg_resp_t
      <3>3. ctx' = [ctx EXCEPT ![c] = z]
        BY <2>1 DEF Take
      <3> HIDE DEF z
      <3> QED BY <1>0, <3>2, <3>3 DEF TypeOK
    <2> QED BY <1>0, <1>7, <2>1, <2>2, <2>3
            DEF TypeOK, PullGetCtx, Take, RecvPcs, statVars, sendVars
  <1>8. CASE PullNone /\ UNCHANGED wire
    <2>1. pull' \in ZSockOf(Nat)
      BY <1>0, <1>8, ZSockTypes DEF TypeOK, PullNone
    <2> QED BY <1>0, <1>8, <2>1
            DEF TypeOK, PullNone, free_msg_ctx, RecvPcs, statVars, sendVars
  <1>9. CASE PullHead /\ UNCHANGED wire
    <2>1. PICK k \in {1, 2}, d \in Context, h \in {"push_relay", "router_err_reply"} :
            Filled(k, d, h)
      BY <1>0, <1>9, HeadFills
    <2>2. pull' \in ZSockOf(Nat) /\ ctx' \in [Contexts -> Context] /\ rpc' \in RecvPcs
      BY <1>0, <2>1, ReceiveTypes DEF Filled, RecvPcs
    <2>3. stat' \in [{"att", "succ", "fail"} -> Nat] /\ reasons' \in [zmsg_resp_t -> Nat]
      BY <1>0, <1>9, HeadStats
    <2> QED BY <1>0, <1>9, <2>1, <2>2, <2>3 DEF TypeOK, Filled, Receive, sendVars
  <1>13. CASE PullPost /\ UNCHANGED wire
    <2>1. Event(rpc, cur) \in Events
      BY <1>0, <1>13 DEF PullPost, Event, Events, ContextsReady, Holding
    <2>2. sendq' \in Seq(Events)
      BY <1>0, <1>13, <2>1, AppendProperties DEF TypeOK, PullPost, event_base_once
    <2> QED BY <1>0, <1>13, <2>2 DEF TypeOK, PullPost, RecvPcs, statVars, poolVars
  <1>14. ASSUME NEW code \in {"ROUTE_TYPE", "TO_ROUTE"}, NextIs("push_relay"), RelayFails(code)
         PROVE  TypeOK'
    <2>1. sendq # << >> /\ arg \in Contexts /\ ctx[arg] \in Context
      BY <1>0, <1>14, HeadCtx DEF NextIs
    <2>2. Event("router_err_reply", arg) \in Events
      BY <2>1 DEF Event, Events
    <2>3. sendq' \in Seq(Events)
      BY <1>0, <1>14, <2>1, <2>2, PostTypes DEF RelayFails
    <2>4. stat' \in [{"att", "succ", "fail"} -> Nat] /\ reasons' \in [zmsg_resp_t -> Nat]
      BY <1>0, <1>14, StatTypes DEF RelayFails, zmsg_resp_t
    <2>5. Failed(ctx[arg], code, << >>) \in Context
      BY <2>1 DEF Failed, Context, zmsg_resp_t
    <2>6. ctx' \in [Contexts -> Context]
      BY <1>0, <1>14, <2>1, <2>5 DEF TypeOK, RelayFails
    <2> QED BY <1>0, <1>14, <2>3, <2>4, <2>6 DEF TypeOK, RelayFails, recvVars
  <1>15. CASE RelayBadRoute
    BY <1>14, <1>15 DEF RelayBadRoute
  <1>16. CASE RelayUnroutable
    BY <1>14, <1>16 DEF RelayUnroutable
  <1>17. CASE RelayAccepted
    <2>1. sendq # << >> /\ arg \in Contexts /\ ctx[arg] \in Context /\ head \in envelop_t
      BY <1>0, <1>17, HeadCtx DEF RelayAccepted, NextIs
    <2>2. sendq' \in Seq(Events)
      <3>1. Head(sendq) \in Events
        BY <1>0, <2>1 DEF TypeOK
      <3> QED BY <1>0, <1>17, <2>1, <3>1, PostTypes DEF RelayAccepted
    <2>3. stat' \in [{"att", "succ", "fail"} -> Nat] /\ reasons' \in [zmsg_resp_t -> Nat]
      BY <1>0, <1>17, StatTypes DEF RelayAccepted, zmsg_resp_t
    <2>4. Sent(arg, "relayed", head.dest) \in Wire
      BY <2>1 DEF Sent, Wire, Context, envelop_t
    <2>5. wire' \in Seq(Wire)
      BY <1>0, <1>17, <2>4, AppendProperties DEF TypeOK, RelayAccepted
    <2> QED BY <1>0, <1>17, <2>2, <2>3, <2>5
            DEF TypeOK, RelayAccepted, free_msg_ctx, recvVars
  <1>18. CASE evsock_router_err_reply
    <2>1. sendq # << >> /\ arg \in Contexts /\ ctx[arg] \in Context /\ head \in envelop_t
      BY <1>0, <1>18, HeadCtx DEF evsock_router_err_reply, NextIs
    <2>2. sendq' \in Seq(Events)
      <3>1. Head(sendq) \in Events
        BY <1>0, <2>1 DEF TypeOK
      <3> QED BY <1>0, <1>18, <2>1, <3>1, PostTypes DEF evsock_router_err_reply
    <2>3. ASSUME NEW fate \in {"answered", "lost"},
                 wire' = Append(wire, Sent(arg, fate, head.from))
          PROVE  wire' \in Seq(Wire)
      <3>1. Sent(arg, fate, head.from) \in Wire
        BY <2>1 DEF Sent, Wire, Context, envelop_t
      <3> QED BY <1>0, <2>3, <3>1, AppendProperties DEF TypeOK
    <2>4. wire' \in Seq(Wire) /\ busy' \in SUBSET Contexts
          /\ UNCHANGED <<CURR_POS, probe, scanned>>
      BY <1>0, <1>18, <2>3 DEF evsock_router_err_reply, TypeOK, free_msg_ctx
    <2> QED BY <1>0, <1>18, <2>2, <2>4
            DEF TypeOK, evsock_router_err_reply, recvVars, statVars
  <1>19. CASE SocketEvent
    <2>1. sendq # << >> /\ Head(sendq) \in Events
      BY <1>0, <1>19 DEF SocketEvent, evsock_push_create, evsock_push_remove, NextIs, TypeOK
    <2>2. sendq' \in Seq(Events)
      BY <1>0, <1>19, <2>1, PostTypes DEF SocketEvent, evsock_push_create, evsock_push_remove
    <2>3. zsocks' \in [Keys -> {"NONE", "ZMQ_ROUTER", "ZMQ_PUSH"}]
      BY <1>0, <1>19 DEF TypeOK, SocketEvent, evsock_push_create, evsock_push_remove,
                         add_zsock_to_list, del_zsock_from_list
    <2> QED BY <1>0, <1>19, <2>2, <2>3 DEF TypeOK, SocketEvent, recvVars, statVars, poolVars
  <1>20. CASE UNCHANGED vars
    BY <1>0, <1>20 DEF TypeOK, vars, recvVars, statVars, poolVars, sendVars
  <1> QED
    BY <1>1, <1>2, <1>3, <1>4, <1>5, <1>6, <1>7, <1>8, <1>9, <1>13,
       <1>15, <1>16, <1>17, <1>18, <1>19, <1>20
    DEF Next, Client, TrRecvStep, evsock_pull_read, TrSendNext, evsock_push_relay

-----------------------------------------------------------------------------
(* The queue of TR_SEND after a post, after a run, after a run that posts. *)

\* A post appends one event.
LEMMA AfterPost ==
  ASSUME TypeOK, NEW e \in Events, sendq' = Append(sendq, e)
  PROVE  /\ Len(sendq) + 1 \in DOMAIN sendq' /\ sendq'[Len(sendq) + 1] = e
         /\ Len(sendq) + 1 \notin DOMAIN sendq
         /\ \A k \in DOMAIN sendq : k \in DOMAIN sendq' /\ sendq'[k] = sendq[k]
         /\ \A k \in DOMAIN sendq' : k # Len(sendq) + 1 => k \in DOMAIN sendq
         /\ \A k \in DOMAIN sendq : k < Len(sendq) + 1
  <1>1. sendq \in Seq(Events)
    BY DEF TypeOK
  <1> DEFINE n == Len(sendq)
  <1>2. /\ n \in Nat /\ DOMAIN sendq = 1 .. n /\ DOMAIN sendq' = 1 .. n + 1
        /\ \A k \in 1 .. n : sendq'[k] = sendq[k]
        /\ sendq'[n + 1] = e
    BY <1>1, AppendProperties, LenProperties
  <1> HIDE DEF n
  <1>3. /\ n + 1 \in DOMAIN sendq' /\ sendq'[n + 1] = e /\ n + 1 \notin DOMAIN sendq
        /\ \A k \in DOMAIN sendq : k \in DOMAIN sendq' /\ sendq'[k] = sendq[k]
        /\ \A k \in DOMAIN sendq' : k # n + 1 => k \in DOMAIN sendq
        /\ \A k \in DOMAIN sendq : k < n + 1
    BY <1>2
  <1> QED BY <1>3 DEF n

\* A run takes the first event away and moves the others up.
LEMMA AfterRun ==
  ASSUME TypeOK, sendq # << >>, RunEvent(<< >>)
  PROVE  /\ 1 \in DOMAIN sendq /\ sendq[1] = Head(sendq)
         /\ \A k \in DOMAIN sendq' : k + 1 \in DOMAIN sendq /\ sendq'[k] = sendq[k + 1]
         /\ \A k \in DOMAIN sendq :
              k # 1 => k - 1 \in DOMAIN sendq' /\ sendq'[k - 1] = sendq[k]
         /\ \A j, k \in DOMAIN sendq' : k + 1 # 1 /\ (j + 1 = k + 1 => j = k)
  <1>1. sendq \in Seq(Events) /\ Tail(sendq) \in Seq(Events)
    BY HeadTailProperties DEF TypeOK
  <1>2. sendq' = Tail(sendq)
    BY <1>1, ConcatEmptySeq DEF RunEvent
  <1> DEFINE n == Len(sendq)
  <1>3. /\ n \in Nat \ {0} /\ DOMAIN sendq = 1 .. n /\ DOMAIN sendq' = 1 .. n - 1
        /\ \A k \in 1 .. n - 1 : sendq'[k] = sendq[k + 1]
        /\ sendq[1] = Head(sendq)
    BY <1>1, <1>2, HeadTailProperties, LenProperties, EmptySeq
  <1> HIDE DEF n
  <1> QED BY <1>3

\* A run that posts also appends one event.
LEMMA AfterRunAndPost ==
  ASSUME TypeOK, sendq # << >>, NEW e \in Events, RunEvent(<<e>>)
  PROVE  /\ 1 \in DOMAIN sendq /\ sendq[1] = Head(sendq)
         /\ Len(sendq) \in DOMAIN sendq' /\ sendq'[Len(sendq)] = e
         /\ \A k \in DOMAIN sendq' : k # Len(sendq) =>
              /\ k < Len(sendq)
              /\ k + 1 \in DOMAIN sendq /\ sendq'[k] = sendq[k + 1]
         /\ \A k \in DOMAIN sendq : k # 1 =>
              /\ k - 1 # Len(sendq)
              /\ k - 1 \in DOMAIN sendq' /\ sendq'[k - 1] = sendq[k]
         /\ \A j, k \in DOMAIN sendq' : k + 1 # 1 /\ (j + 1 = k + 1 => j = k)
  <1>1. sendq \in Seq(Events) /\ Tail(sendq) \in Seq(Events) /\ <<e>> \in Seq(Events)
    BY HeadTailProperties DEF TypeOK
  <1> DEFINE n == Len(sendq)
  <1>2. /\ n \in Nat \ {0} /\ DOMAIN sendq = 1 .. n /\ sendq[1] = Head(sendq)
        /\ Len(Tail(sendq)) = n - 1 /\ \A k \in 1 .. n - 1 : Tail(sendq)[k] = sendq[k + 1]
    BY <1>1, HeadTailProperties, LenProperties, EmptySeq
  <1>3. /\ Len(sendq') = n /\ sendq' \in Seq(Events)
        /\ \A k \in 1 .. n : sendq'[k] = IF k <= n - 1 THEN Tail(sendq)[k] ELSE <<e>>[k - (n - 1)]
    <2> DEFINE t == Tail(sendq)  u == <<e>>
    <2>1. t \in Seq(Events) /\ u \in Seq(Events) /\ sendq' = t \o u
      BY <1>1 DEF RunEvent
    <2>2. Len(t) = n - 1 /\ Len(u) = 1 /\ n \in Nat
      BY <1>2
    <2> HIDE DEF t, u, n
    <2>3. /\ Len(sendq') = Len(t) + Len(u) /\ sendq' \in Seq(Events)
          /\ \A k \in 1 .. Len(t) + Len(u) :
               sendq'[k] = IF k <= Len(t) THEN t[k] ELSE u[k - Len(t)]
      BY <2>1, ConcatProperties
    <2>4. Len(t) + Len(u) = n
      BY <2>2
    <2> QED BY <2>2, <2>3, <2>4 DEF t, u
  <1>4. DOMAIN sendq' = 1 .. n
    BY <1>3, LenProperties
  <1> HIDE DEF n
  <1>5. sendq'[n] = e /\ \A k \in 1 .. n - 1 : sendq'[k] = sendq[k + 1]
    BY <1>2, <1>3
  <1>6. /\ n \in DOMAIN sendq' /\ 1 \in DOMAIN sendq
        /\ \A k \in DOMAIN sendq' : k # n =>
             k < n /\ k + 1 \in DOMAIN sendq /\ sendq'[k] = sendq[k + 1]
        /\ \A k \in DOMAIN sendq : k # 1 =>
             k - 1 # n /\ k - 1 \in DOMAIN sendq' /\ sendq'[k - 1] = sendq[k]
        /\ \A j, k \in DOMAIN sendq' : k + 1 # 1 /\ (j + 1 = k + 1 => j = k)
    BY <1>2, <1>4, <1>5
  <1> QED BY <1>2, <1>5, <1>6 DEF n

-----------------------------------------------------------------------------
(* Every context has one owner. *)

\* Steps that touch neither the queue nor the contexts in use.
LEMMA OwnershipFrame ==
  ASSUME ContextOwnership, UNCHANGED <<sendq, busy>>, Held' = Held
  PROVE  ContextOwnership'
BY DEF ContextOwnership, CtxEvents, IsCtxEvent

\* Every step keeps one owner for every context.
LEMMA OwnershipStep == IInv /\ [Next]_vars => ContextOwnership'
  <1> SUFFICES ASSUME IInv, [Next]_vars PROVE ContextOwnership'
    OBVIOUS
  <1>0. TypeOK /\ QueueIsRest /\ ContextsReady /\ ContextOwnership /\ RouterKept
    BY DEF IInv
  <1>1. ASSUME NEW m \in Envelopes, Push(m) PROVE ContextOwnership'
    BY <1>0, <1>1, OwnershipFrame DEF Push, poolVars, sendVars, Held, Holding
  <1>2. CASE Connect
    BY <1>0, <1>2, OwnershipFrame DEF Connect, poolVars, sendVars, Held, Holding
  <1>3. CASE MgntPost
    <2>1. PICK e \in Events : ~IsCtxEvent(e) /\ sendq' = Append(sendq, e)
      BY <1>3 DEF MgntPost, event_base_once, Event, Events, IsCtxEvent
    <2>2. CtxEvents' = CtxEvents /\ \A k \in CtxEvents : sendq'[k] = sendq[k]
      BY <1>0, <2>1, AfterPost DEF CtxEvents, IsCtxEvent
    <2>3. busy' = busy /\ Held' = Held
      BY <1>3 DEF MgntPost, poolVars, recvVars, Held, Holding
    <2> QED BY <1>0, <2>2, <2>3 DEF ContextOwnership
  <1>4. CASE PullWake \/ PullTry \/ PullScan
    BY <1>0, <1>4, OwnershipFrame
       DEF PullWake, PullTry, PullScan, StartScan, SkipOccupied, recvVars, poolVars, sendVars,
           Held, Holding
  <1>5. CASE PullGetCtx
    <2>1. PICK c \in Contexts : get_msg_ctx(c) /\ cur' = c
      BY <1>5 DEF PullGetCtx
    <2>2. c \notin busy /\ busy' = busy \cup {c}
      BY <2>1 DEF get_msg_ctx, Take
    <2>3. Held = {} /\ Held' = {c}
      BY <1>5, <2>1 DEF PullGetCtx, Held, Holding
    <2>4. CtxEvents' = CtxEvents /\ sendq' = sendq
      BY <1>5 DEF PullGetCtx, sendVars, CtxEvents, IsCtxEvent
    <2> QED BY <1>0, <2>2, <2>3, <2>4 DEF ContextOwnership
  <1>6. CASE PullNone
    <2>1. Held = {cur} /\ Held' = {} /\ busy' = busy \ {cur}
      BY <1>6 DEF PullNone, free_msg_ctx, Held, Holding
    <2>2. CtxEvents' = CtxEvents /\ sendq' = sendq
      BY <1>6 DEF PullNone, sendVars, CtxEvents, IsCtxEvent
    <2> QED BY <1>0, <2>1, <2>2 DEF ContextOwnership
  <1>7. ASSUME rpc = "read",
               NEW k, NEW c, NEW next \in {"push_relay", "router_err_reply"}, Receive(k, c, next)
        PROVE  ContextOwnership'
    BY <1>0, <1>7, OwnershipFrame DEF Receive, sendVars, Held, Holding
  <1>8. CASE PullHead
    BY <1>7, <1>8 DEF PullHead, PullBadType, PullNullBody, PullDiffSize, PullAccept
  <1>9. CASE PullPost
    <2> DEFINE e == Event(rpc, cur)  n == Len(sendq) + 1
    <2>1. e \in Events /\ IsCtxEvent(e) /\ e.arg = cur
      BY <1>0, <1>9 DEF PullPost, Event, Events, IsCtxEvent, ContextsReady, Holding
    <2>2. sendq' = Append(sendq, e)
      BY <1>9 DEF PullPost, event_base_once
    <2> HIDE DEF e
    <2>3. /\ n \notin CtxEvents /\ n \in CtxEvents' /\ sendq'[n] = e
          /\ CtxEvents' = CtxEvents \cup {n}
          /\ \A k \in CtxEvents : sendq'[k] = sendq[k]
      BY <1>0, <2>1, <2>2, AfterPost DEF CtxEvents, IsCtxEvent
    <2> HIDE DEF n
    <2>4. Held = {cur} /\ Held' = {} /\ busy' = busy
      BY <1>9 DEF PullPost, poolVars, Held, Holding
    <2> QED BY <1>0, <2>1, <2>3, <2>4 DEF ContextOwnership
  <1>10. ASSUME NEW code, NextIs("push_relay"), RelayFails(code)
         PROVE  ContextOwnership'
    <2> DEFINE e == Event("router_err_reply", arg)  n == Len(sendq)
    <2>1. sendq # << >> /\ arg \in Contexts /\ 1 \in CtxEvents /\ sendq[1].arg = arg
      BY <1>0, <1>10, HeadCtx DEF NextIs, TypeOK, CtxEvents, IsCtxEvent, arg
    <2>2. e \in Events /\ IsCtxEvent(e) /\ e.arg = sendq[1].arg /\ RunEvent(<<e>>)
      BY <1>10, <2>1 DEF Event, Events, IsCtxEvent, RelayFails
    <2> HIDE DEF e
    <2>3. /\ n \in CtxEvents' /\ sendq'[n].arg = sendq[1].arg
          /\ \A k \in CtxEvents' : k # n => k + 1 # 1 /\ k + 1 \in CtxEvents /\ sendq'[k] = sendq[k + 1]
          /\ \A k \in CtxEvents : k # 1 => k - 1 \in CtxEvents' /\ sendq'[k - 1] = sendq[k]
          /\ \A j, k \in CtxEvents' : j + 1 = k + 1 => j = k
      BY <1>0, <2>1, <2>2, AfterRunAndPost DEF CtxEvents, IsCtxEvent
    <2> HIDE DEF n
    <2>4. busy' = busy /\ Held' = Held
      BY <1>10 DEF RelayFails, recvVars, Held, Holding
    <2>5. {sendq'[k].arg : k \in CtxEvents'} = {sendq[k].arg : k \in CtxEvents}
      BY <2>1, <2>3
    <2> QED BY <1>0, <2>1, <2>3, <2>4, <2>5 DEF ContextOwnership
  <1>11. CASE RelayBadRoute \/ RelayUnroutable
    BY <1>10, <1>11 DEF RelayBadRoute, RelayUnroutable
  <1>12. ASSUME NextIs("push_relay") \/ NextIs("router_err_reply"),
                RunEvent(<< >>), busy' = busy \ {arg}, Held' = Held
         PROVE  ContextOwnership'
    <2>1. sendq # << >> /\ 1 \in CtxEvents /\ sendq[1].arg = arg
      BY <1>0, <1>12 DEF NextIs, TypeOK, CtxEvents, IsCtxEvent, arg
    <2>2. /\ \A k \in CtxEvents' : k + 1 # 1 /\ k + 1 \in CtxEvents /\ sendq'[k] = sendq[k + 1]
          /\ \A k \in CtxEvents : k # 1 => k - 1 \in CtxEvents' /\ sendq'[k - 1] = sendq[k]
          /\ \A j, k \in CtxEvents' : j + 1 = k + 1 => j = k
      BY <1>0, <1>12, <2>1, AfterRun DEF CtxEvents, IsCtxEvent
    <2>3. {sendq'[k].arg : k \in CtxEvents'} = {sendq[k].arg : k \in CtxEvents} \ {arg}
      BY <1>0, <2>1, <2>2 DEF ContextOwnership
    <2> QED BY <1>0, <1>12, <2>1, <2>2, <2>3 DEF ContextOwnership
  <1>13. CASE RelayAccepted
    BY <1>12, <1>13 DEF RelayAccepted, free_msg_ctx, recvVars, Held, Holding
  <1>14. CASE evsock_router_err_reply
    <2>1. get_element(ROUTER) # "NONE"
      BY <1>0 DEF RouterKept, get_element, Keys
    <2> QED BY <1>12, <1>14, <2>1
            DEF evsock_router_err_reply, free_msg_ctx, recvVars, Held, Holding
  <1>15. CASE SocketEvent
    <2>1. sendq # << >> /\ 1 \notin CtxEvents /\ RunEvent(<< >>)
      BY <1>0, <1>15 DEF SocketEvent, evsock_push_create, evsock_push_remove, NextIs,
                         CtxEvents, IsCtxEvent, TypeOK
    <2>2. /\ \A k \in CtxEvents' : k + 1 \in CtxEvents /\ sendq'[k] = sendq[k + 1]
          /\ \A k \in CtxEvents : k - 1 \in CtxEvents' /\ sendq'[k - 1] = sendq[k]
          /\ \A j, k \in CtxEvents' : j + 1 = k + 1 => j = k
      BY <1>0, <2>1, AfterRun DEF CtxEvents, IsCtxEvent
    <2>3. busy' = busy /\ Held' = Held
      BY <1>15 DEF SocketEvent, poolVars, recvVars, Held, Holding
    <2>4. {sendq'[k].arg : k \in CtxEvents'} = {sendq[k].arg : k \in CtxEvents}
      BY <2>2
    <2> QED BY <1>0, <2>2, <2>3, <2>4 DEF ContextOwnership
  <1>16. CASE UNCHANGED vars
    BY <1>0, <1>16, OwnershipFrame DEF vars, recvVars, poolVars, sendVars, Held, Holding
  <1> QED
    BY <1>1, <1>2, <1>3, <1>4, <1>5, <1>6, <1>8, <1>9, <1>11, <1>13, <1>14, <1>15, <1>16
    DEF Next, Client, TrRecvStep, evsock_pull_read, TrSendNext, evsock_push_relay

-----------------------------------------------------------------------------
(* What was received, and what is still in the socket. *)

\* The messages received are some of those that arrived.
LEMMA Counts ==
  ASSUME TypeOK, QueueIsRest
  PROVE  /\ NReceived \in Nat /\ Len(msgs) \in Nat /\ NReceived <= Len(msgs)
         /\ Received \subseteq DOMAIN msgs /\ DOMAIN msgs = 1 .. Len(msgs)
  <1>1. Len(msgs) \in Nat /\ Len(pull.q) \in Nat /\ DOMAIN msgs = 1 .. Len(msgs)
    BY DEF TypeOK, ZSockOf
  <1> QED BY <1>1 DEF QueueIsRest, NReceived, Received

\* A push adds a message that is not received yet.
LEMMA CountsAfterPush ==
  ASSUME TypeOK, QueueIsRest, NEW m \in envelop_t, Push(m)
  PROVE  /\ QueueIsRest' /\ NReceived' = NReceived
         /\ \A i \in Received : msgs'[i] = msgs[i]
  <1>1. msgs \in Seq(envelop_t) /\ pull \in ZSockOf(Nat) /\ pull.q \in Seq(Nat)
    BY DEF TypeOK, ZSockOf
  <1>2. msgs' = Append(msgs, m) /\ pull'.q = Append(pull.q, Len(msgs) + 1)
    BY <1>1 DEF Push, Arrive, ZSockOf
  <1> DEFINE a == Len(msgs)  b == Len(pull.q)  q == pull.q  q1 == pull'.q
  <1>3. a \in Nat /\ Len(msgs') = a + 1 /\ \A i \in 1 .. a : msgs'[i] = msgs[i]
    BY <1>1, <1>2, AppendProperties
  <1>4. /\ b \in Nat /\ Len(q1) = b + 1 /\ DOMAIN q = 1 .. b /\ DOMAIN q1 = 1 .. b + 1
        /\ \A k \in 1 .. b : q1[k] = q[k]
        /\ q1[b + 1] = a + 1
    BY <1>1, <1>2, <1>3, AppendProperties, LenProperties
  <1>5. b <= a /\ \A k \in 1 .. b : q[k] = a - b + k
    BY <1>4 DEF QueueIsRest, NReceived
  <1>6. NReceived = a - b /\ NReceived' = (a + 1) - (b + 1)
    BY <1>3, <1>4 DEF NReceived
  <1> HIDE DEF a, b, q, q1
  <1>7. NReceived' = NReceived
    BY <1>3, <1>4, <1>6
  <1>8. \A k \in 1 .. b + 1 : q1[k] = a - b + k
    BY <1>3, <1>4, <1>5
  <1>9. b + 1 <= a + 1
    BY <1>3, <1>4, <1>5
  <1>10. QueueIsRest'
    BY <1>3, <1>4, <1>6, <1>7, <1>8, <1>9 DEF QueueIsRest, q1
  <1>11. \A i \in Received : msgs'[i] = msgs[i]
    BY <1>3, Counts DEF a
  <1> QED BY <1>7, <1>10, <1>11

\* Receiving takes the next message.
LEMMA CountsAfterReceive ==
  ASSUME TypeOK, QueueIsRest, pull.q # << >>, NEW p, NEW k,
         pull' = [TakeHead(pull, p) EXCEPT !.more = @ - k], UNCHANGED msgs
  PROVE  QueueIsRest' /\ NReceived' = NReceived + 1 /\ Head(pull.q) = NReceived + 1
  <1>1. pull \in ZSockOf(Nat) /\ pull.q \in Seq(Nat) /\ pull'.q = Tail(pull.q)
    BY DEF TypeOK, ZSockOf, TakeHead
  <1> DEFINE a == Len(msgs)  b == Len(pull.q)  q == pull.q  q1 == pull'.q
  <1>2. /\ b \in Nat /\ Len(q1) = b - 1 /\ DOMAIN q = 1 .. b /\ DOMAIN q1 = 1 .. b - 1
        /\ \A j \in 1 .. b - 1 : q1[j] = q[j + 1]
    <2>1. q1 = Tail(q) /\ q \in Seq(Nat) /\ q # << >>
      BY <1>1
    <2> HIDE DEF q, q1
    <2>2. q1 \in Seq(Nat) /\ Len(q1) = Len(q) - 1 /\ \A j \in 1 .. Len(q1) : q1[j] = q[j + 1]
      BY <2>1, HeadTailProperties
    <2> QED BY <2>1, <2>2, LenProperties DEF q
  <1>3. a \in Nat /\ b > 0
    BY <1>1, EmptySeq DEF TypeOK
  <1>4. b <= a /\ \A j \in 1 .. b : q[j] = a - b + j
    BY <1>2 DEF QueueIsRest, NReceived
  <1>5. NReceived = a - b /\ NReceived' = a - (b - 1)
    BY <1>2 DEF NReceived
  <1>6. Head(pull.q) = NReceived + 1
    BY HeadReceived DEF NReceived
  <1> HIDE DEF a, b, q, q1
  <1>7. NReceived' = NReceived + 1 /\ b - 1 <= a
    BY <1>2, <1>3, <1>4, <1>5
  <1>8. \A j \in 1 .. b - 1 : q1[j] = NReceived' + j
    <2> TAKE j \in 1 .. b - 1
    <2>1. j + 1 \in 1 .. b /\ j \in Int
      BY <1>2
    <2>2. q1[j] = a - b + (j + 1)
      BY <1>2, <1>4, <2>1
    <2> QED BY <1>2, <1>3, <1>5, <2>1, <2>2
  <1>9. QueueIsRest'
    BY <1>2, <1>7, <1>8 DEF QueueIsRest, q1, a
  <1> QED BY <1>6, <1>7, <1>9

\* Steps that leave the messages and the queue of the socket alone.
LEMMA CountsSame ==
  ASSUME QueueIsRest, UNCHANGED msgs, pull'.q = pull.q
  PROVE  QueueIsRest' /\ NReceived' = NReceived /\ Received' = Received
BY DEF QueueIsRest, NReceived, Received

-----------------------------------------------------------------------------
(* What a context holds on its way. *)

MessagesStay == Received \subseteq Received' /\ \A i \in Received : msgs'[i] = msgs[i]

\* A context that is ready stays ready while messages are added.
LEMMA ReadyStays ==
  ASSUME MessagesStay, NEW h, NEW c, ReadyFor(h, c)
  PROVE  ReadyFor(h, c)'
BY DEF ReadyFor, MessagesStay

EventsReady == \A k \in CtxEvents : ReadyFor(sendq[k].h, ctx[sendq[k].arg])

\* Contexts on their way that a step leaves alone stay ready.
LEMMA EventsFrame ==
  ASSUME MessagesStay, EventsReady, UNCHANGED sendq,
         \A k \in CtxEvents : ctx'[sendq[k].arg] = ctx[sendq[k].arg]
  PROVE  EventsReady'
  <1> SUFFICES ASSUME NEW k \in CtxEvents'
               PROVE  ReadyFor(sendq[k].h, ctx[sendq[k].arg])'
    BY DEF EventsReady
  <1>1. k \in CtxEvents
    BY DEF CtxEvents, IsCtxEvent
  <1> DEFINE h == sendq[k].h  c == ctx[sendq[k].arg]
  <1>2. ReadyFor(h, c) /\ sendq'[k].h = h /\ ctx'[sendq'[k].arg] = c
    BY <1>1 DEF EventsReady
  <1> QED BY <1>2 DEF ReadyFor, MessagesStay

\* Every step keeps contexts ready for the handler they are sent to.
LEMMA ReadyStep == IInv /\ [Next]_vars => ContextsReady'
  <1> SUFFICES ASSUME IInv, [Next]_vars PROVE ContextsReady'
    OBVIOUS
  <1>0. TypeOK /\ QueueIsRest /\ ContextsReady /\ ContextOwnership /\ RouterKept
        /\ EventsReady
    BY DEF IInv, ContextsReady, EventsReady
  <1>a. ASSUME UNCHANGED <<msgs, rpc, cur, ctx, sendq>>, pull'.q = pull.q
        PROVE  ContextsReady'
    BY <1>0, <1>a, CountsSame DEF ContextsReady, Holding, Posting, ReadyFor, CtxEvents, IsCtxEvent
  <1>b. ASSUME UNCHANGED <<msgs, sendq>>, pull'.q = pull.q,
               \A k \in CtxEvents : ctx'[sendq[k].arg] = ctx[sendq[k].arg]
        PROVE  EventsReady'
    BY <1>0, <1>b, CountsSame, EventsFrame DEF MessagesStay
  <1>1. ASSUME NEW m \in Envelopes, Push(m) PROVE ContextsReady'
    <2>1. m \in envelop_t
      BY EnvelopesAssumption
    <2>2. NReceived' = NReceived /\ MessagesStay
      BY <1>0, <1>1, <2>1, CountsAfterPush DEF MessagesStay, Received
    <2>3. UNCHANGED <<rpc, cur, ctx, sendq>>
      BY <1>1 DEF Push, poolVars, sendVars
    <2>4. EventsReady'
      BY <1>0, <2>2, <2>3, EventsFrame
    <2>5. Posting' => ReadyFor(rpc, ctx[cur])' /\ (ctx[cur].of)' = NReceived'
      BY <1>0, <2>2, <2>3, ReadyStays DEF ContextsReady, Posting, ReadyFor, MessagesStay
    <2> QED BY <1>0, <2>3, <2>4, <2>5 DEF ContextsReady, EventsReady, Holding
  <1>2. CASE Connect
    <2>1. pull'.q = pull.q
      BY <1>0, <1>2 DEF Connect, Attach, TypeOK, ZSockOf
    <2> QED BY <1>2, <1>a, <2>1 DEF Connect, poolVars, sendVars
  <1>3. CASE MgntPost
    <2>1. PICK e \in Events : ~IsCtxEvent(e) /\ sendq' = Append(sendq, e)
      BY <1>3 DEF MgntPost, event_base_once, Event, Events, IsCtxEvent
    <2>2. CtxEvents' = CtxEvents /\ \A k \in CtxEvents : sendq'[k] = sendq[k]
      BY <1>0, <2>1, AfterPost DEF CtxEvents, IsCtxEvent
    <2>3. UNCHANGED <<msgs, pull, rpc, cur, ctx>>
      BY <1>3 DEF MgntPost, poolVars, recvVars
    <2> QED BY <1>0, <2>2, <2>3, CountsSame DEF ContextsReady, Holding, Posting, ReadyFor
  <1>4. CASE PullWake \/ PullTry
    <2>1. UNCHANGED <<msgs, ctx, sendq>> /\ ~Holding' /\ rpc' # "read" /\ ~Posting'
      BY <1>4 DEF PullWake, PullTry, StartScan, poolVars, sendVars, Holding, Posting
    <2>2. pull'.q = pull.q
      BY <1>0, <1>4 DEF PullWake, PullTry, ReadEvents, zsock_drain_remain_part, TypeOK, ZSockOf
    <2>3. EventsReady'
      BY <1>b, <2>1, <2>2
    <2> QED BY <2>1, <2>3 DEF ContextsReady, EventsReady
  <1>5. CASE PullScan
    BY <1>5, <1>a DEF PullScan, SkipOccupied, recvVars, sendVars
  <1>6. CASE PullGetCtx
    <2>1. PICK c \in Contexts : get_msg_ctx(c) /\ cur' = c
      BY <1>6 DEF PullGetCtx
    <2>2. c \notin busy
      BY <2>1 DEF get_msg_ctx
    <2>3. /\ \A d \in Contexts : d # c => ctx'[d] = ctx[d]
          /\ ctx'[c].resp_code = "OK"
      BY <1>0, <2>1 DEF get_msg_ctx, Take, ZeroHead, TypeOK
    <2>4. UNCHANGED <<msgs, pull, sendq>> /\ rpc' = "read"
      BY <1>6 DEF PullGetCtx, sendVars
    <2>5. \A k \in CtxEvents : sendq[k].arg \in Contexts /\ sendq[k].arg # c
      BY <1>0, <2>2 DEF ContextOwnership, TypeOK
    <2>6. EventsReady'
      BY <1>b, <2>3, <2>4, <2>5
    <2> QED BY <2>1, <2>3, <2>4, <2>6 DEF ContextsReady, EventsReady, Posting
  <1>7. CASE PullNone
    <2>1. UNCHANGED <<msgs, ctx, sendq>> /\ rpc' = "wait"
      BY <1>7 DEF PullNone, sendVars
    <2>2. pull'.q = pull.q
      BY <1>0, <1>7 DEF PullNone, Again, TypeOK, ZSockOf
    <2>3. EventsReady'
      BY <1>b, <2>1, <2>2
    <2> QED BY <2>1, <2>3 DEF ContextsReady, EventsReady, Posting, Holding
  <1>8. CASE PullHead
    <2>0. PICK k \in {1, 2}, d \in Context, h \in {"push_relay", "router_err_reply"} :
            Filled(k, d, h)
      BY <1>0, <1>8, HeadFills
    <2>1. NReceived' = NReceived + 1 /\ d.of = NReceived' /\ UNCHANGED msgs
      BY <1>0, <2>0, CountsAfterReceive DEF Filled, Receive
    <2>2. MessagesStay /\ NReceived' \in Received'
      BY <1>0, <2>1, Counts DEF MessagesStay, Received
    <2>3. cur \in Contexts /\ UNCHANGED <<cur, sendq>> /\ ctx' = [ctx EXCEPT ![cur] = d] /\ rpc' = h
      BY <2>0 DEF Filled, Receive, sendVars
    <2>4. ctx'[cur'] = d /\ \A c \in Contexts : c # cur => ctx'[c] = ctx[c]
      BY <1>0, <2>3 DEF TypeOK
    <2>5. \A j \in CtxEvents : sendq[j].arg \in Contexts /\ sendq[j].arg # cur
      BY <1>0, <2>0 DEF Filled, ContextOwnership, Held, Holding, TypeOK
    <2>6. EventsReady'
      BY <1>0, <2>2, <2>3, <2>4, <2>5, EventsFrame
    <2>7. ReadyFor(rpc, ctx[cur])'
      BY <2>0, <2>1, <2>2, <2>3, <2>4 DEF Filled, ReadyFor
    <2> QED BY <2>1, <2>3, <2>4, <2>6, <2>7 DEF ContextsReady, EventsReady
  <1>13. CASE PullPost
    <2> DEFINE e == Event(rpc, cur)
    <2>1. e \in Events /\ e.h = rpc /\ e.arg = cur /\ ReadyFor(rpc, ctx[cur])
      BY <1>0, <1>13 DEF PullPost, Event, Events, ContextsReady, Holding, Posting
    <2>2. /\ sendq' = Append(sendq, e) /\ UNCHANGED <<msgs, pull, ctx>>
          /\ rpc' = "try"
      BY <1>13 DEF PullPost, event_base_once, poolVars
    <2> HIDE DEF e
    <2>3. \A k \in CtxEvents' : \/ sendq'[k] = e
                                \/ k \in CtxEvents /\ sendq'[k] = sendq[k]
      BY <1>0, <2>1, <2>2, AfterPost DEF CtxEvents, IsCtxEvent
    <2>4. ASSUME NEW k \in CtxEvents' PROVE ReadyFor(sendq[k].h, ctx[sendq[k].arg])'
      <3>1. ReadyFor(sendq'[k].h, ctx[sendq'[k].arg])
        BY <1>0, <2>1, <2>3 DEF EventsReady
      <3> QED BY <1>0, <2>2, <3>1, CountsSame DEF ReadyFor
    <2> QED BY <2>2, <2>4 DEF ContextsReady, Holding, Posting
  <1>14. ASSUME NEW code \in {"ROUTE_TYPE", "TO_ROUTE"}, NextIs("push_relay"), RelayFails(code)
         PROVE  ContextsReady'
    <2> DEFINE e == Event("router_err_reply", arg)
    <2>1. /\ sendq # << >> /\ arg \in Contexts /\ 1 \in CtxEvents /\ sendq[1].arg = arg
          /\ ctx[arg] \in Context /\ ReadyFor("push_relay", ctx[arg])
      BY <1>0, <1>14, HeadCtx DEF NextIs, TypeOK, CtxEvents, IsCtxEvent, arg
    <2>2. e \in Events /\ e.h = "router_err_reply" /\ e.arg = arg /\ RunEvent(<<e>>)
      BY <1>14, <2>1 DEF Event, Events, RelayFails
    <2>d. PICK d \in Context : d = Failed(ctx[arg], code, << >>)
      BY <2>1, FailedType DEF zmsg_resp_t
    <2>3. ReadyFor("router_err_reply", d)
      BY <2>1, <2>d, FailedType DEF ReadyFor, OwnBody, zmsg_resp_t
    <2>4. /\ UNCHANGED <<msgs, pull, rpc, cur>> /\ ctx'[arg] = d
          /\ \A c \in Contexts : c # arg => ctx'[c] = ctx[c]
      BY <1>0, <1>14, <2>1, <2>d DEF RelayFails, recvVars, TypeOK
    <2> HIDE DEF e
    <2>5. \A k \in CtxEvents' : \/ sendq'[k] = e
                                \/ k + 1 # 1 /\ k + 1 \in CtxEvents /\ sendq'[k] = sendq[k + 1]
      BY <1>0, <2>1, <2>2, AfterRunAndPost DEF CtxEvents, IsCtxEvent
    <2>6. ASSUME NEW k \in CtxEvents' PROVE ReadyFor(sendq[k].h, ctx[sendq[k].arg])'
      <3>1. CASE sendq'[k] = e
        <4>1. ReadyFor("router_err_reply", d)'
          BY <1>0, <2>3, <2>4, CountsSame DEF ReadyFor
        <4> QED BY <2>2, <2>4, <3>1, <4>1
      <3>2. CASE k + 1 # 1 /\ k + 1 \in CtxEvents /\ sendq'[k] = sendq[k + 1]
        <4>1. sendq[k + 1].arg \in Contexts /\ sendq[k + 1].arg # arg
          BY <1>0, <2>1, <3>2 DEF ContextOwnership, TypeOK
        <4>2. ctx'[sendq'[k].arg] = ctx[sendq[k + 1].arg]
          BY <2>4, <3>2, <4>1
        <4>3. ReadyFor(sendq'[k].h, ctx'[sendq'[k].arg])
          BY <1>0, <3>2, <4>2 DEF EventsReady
        <4> QED BY <1>0, <2>4, <4>3, CountsSame DEF ReadyFor
      <3> QED BY <2>5, <3>1, <3>2
    <2>7. Holding => cur \in Contexts /\ cur # arg
      BY <1>0, <2>1 DEF ContextsReady, ContextOwnership, Held
    <2>8. Holding => ctx'[cur] = ctx[cur]
      BY <2>4, <2>7
    <2>9. Posting' => ReadyFor(rpc, ctx[cur])' /\ (ctx[cur].of)' = NReceived'
      BY <1>0, <2>4, <2>8, CountsSame DEF ContextsReady, Posting, Holding, ReadyFor
    <2> QED BY <1>0, <2>4, <2>6, <2>8, <2>9 DEF ContextsReady, Holding
  <1>15. CASE RelayBadRoute \/ RelayUnroutable
    BY <1>14, <1>15 DEF RelayBadRoute, RelayUnroutable
  <1>16. ASSUME sendq # << >>, RunEvent(<< >>), UNCHANGED <<recvVars, ctx>>
         PROVE  ContextsReady'
    <2>1. \A k \in CtxEvents' : k + 1 \in CtxEvents /\ sendq'[k] = sendq[k + 1]
      BY <1>0, <1>16, AfterRun DEF CtxEvents, IsCtxEvent
    <2>2. UNCHANGED <<msgs, pull, rpc, cur, ctx>>
      BY <1>16 DEF recvVars
    <2>3. ASSUME NEW k \in CtxEvents' PROVE ReadyFor(sendq[k].h, ctx[sendq[k].arg])'
      <3>1. ReadyFor(sendq'[k].h, ctx[sendq'[k].arg])
        BY <1>0, <2>1 DEF EventsReady
      <3> QED BY <1>0, <2>2, <3>1, CountsSame DEF ReadyFor
    <2> QED BY <1>0, <2>2, <2>3, CountsSame DEF ContextsReady, Holding, Posting, ReadyFor
  <1>17. CASE RelayAccepted \/ evsock_router_err_reply \/ SocketEvent
    BY <1>16, <1>17 DEF RelayAccepted, evsock_router_err_reply, SocketEvent, NextIs,
                        evsock_push_create, evsock_push_remove, poolVars
  <1>18. CASE UNCHANGED vars
    BY <1>18, <1>a DEF vars, recvVars, poolVars, sendVars
  <1> QED
    BY <1>1, <1>2, <1>3, <1>4, <1>5, <1>6, <1>7, <1>8, <1>13, <1>15, <1>17,
       <1>18
    DEF Next, Client, TrRecvStep, evsock_pull_read, TrSendNext, evsock_push_relay
-----------------------------------------------------------------------------
(* Steps that take nothing off the PULL socket, and all steps together. *)

\* Every step keeps the socket's queue the rest of the messages.
LEMMA CountStep == IInv /\ [Next]_vars => QueueIsRest' /\ MessagesStay
  <1> SUFFICES ASSUME IInv, [Next]_vars PROVE QueueIsRest' /\ MessagesStay
    OBVIOUS
  <1>0. TypeOK /\ QueueIsRest /\ ContextsReady
    BY DEF IInv
  <1>1. ASSUME NEW m \in Envelopes, Push(m) PROVE QueueIsRest' /\ MessagesStay
    BY <1>0, <1>1, CountsAfterPush, EnvelopesAssumption DEF MessagesStay, Received
  <1>2. CASE PullHead
    <2>1. PICK k \in {1, 2}, d \in Context, h \in {"push_relay", "router_err_reply"} :
            Filled(k, d, h)
      BY <1>0, <1>2, HeadFills
    <2>2. QueueIsRest' /\ NReceived' = NReceived + 1 /\ UNCHANGED msgs
      BY <1>0, <2>1, CountsAfterReceive DEF Filled, Receive
    <2>3. NReceived \in Nat
      BY <1>0, Counts
    <2> QED BY <2>2, <2>3 DEF MessagesStay, Received
  <1>3. ASSUME UNCHANGED msgs, pull'.q = pull.q
        PROVE  QueueIsRest' /\ MessagesStay
    BY <1>0, <1>3, CountsSame DEF MessagesStay
  <1>4. CASE Connect \/ PullWake \/ PullTry \/ PullNone
    BY <1>0, <1>3, <1>4 DEF Connect, Attach, PullWake, ReadEvents, PullTry,
         zsock_drain_remain_part, PullNone, Again, TypeOK, ZSockOf
  <1>5. CASE MgntPost \/ PullScan \/ PullGetCtx \/ PullPost \/ TrSendNext \/ UNCHANGED vars
    BY <1>3, <1>5 DEF MgntPost, PullScan, PullGetCtx, PullPost, TrSendNext, evsock_push_relay,
         RelayBadRoute, RelayUnroutable, RelayFails, RelayAccepted, evsock_router_err_reply,
         SocketEvent, vars, recvVars
  <1> QED BY <1>1, <1>2, <1>4, <1>5 DEF Next, Client, TrRecvStep, evsock_pull_read

-----------------------------------------------------------------------------
(* What goes on the wire. *)

\* A send appends one entry to the wire.
LEMMA AfterSend ==
  ASSUME TypeOK, NEW w, wire' = Append(wire, w)
  PROVE  /\ Len(wire) + 1 \in DOMAIN wire' /\ wire'[Len(wire) + 1] = w
         /\ \A k \in DOMAIN wire : k \in DOMAIN wire' /\ wire'[k] = wire[k] /\ k < Len(wire) + 1
         /\ \A k \in DOMAIN wire' : k = Len(wire) + 1 \/ (k \in DOMAIN wire /\ wire'[k] = wire[k])
         /\ \A j, k \in DOMAIN wire' : j < k => j \in DOMAIN wire
  <1> DEFINE n == Len(wire)
  <1>1. /\ n \in Nat /\ DOMAIN wire = 1 .. n /\ DOMAIN wire' = 1 .. n + 1
        /\ \A k \in 1 .. n : wire'[k] = wire[k]
        /\ wire'[n + 1] = w
    <2>1. wire \in Seq(Wire \cup {w})
      BY DEF TypeOK
    <2> QED BY <2>1, AppendProperties, LenProperties
  <1> HIDE DEF n
  <1>2. /\ n + 1 \in DOMAIN wire' /\ wire'[n + 1] = w
        /\ \A k \in DOMAIN wire : k \in DOMAIN wire' /\ wire'[k] = wire[k] /\ k < n + 1
        /\ \A k \in DOMAIN wire' : k = n + 1 \/ (k \in DOMAIN wire /\ wire'[k] = wire[k])
        /\ \A j, k \in DOMAIN wire' : j < k => j \in DOMAIN wire
    BY <1>1
  <1> QED BY <1>2 DEF n

Faithful(w) ==
  /\ w.n_bytes > 0 => OwnBody(w)
  /\ w.fate = "relayed" => /\ w.to = msgs[w.of].dest /\ w.resp_code = "OK"
                           /\ msgs[w.of].type = "TRAFFIC" /\ w.n_bytes = msgs[w.of].size
  /\ w.fate # "relayed" => w.to = msgs[w.of].from /\ w.resp_code # "OK"

\* Every step keeps what is on the wire faithful.
LEMMA WireStep == IInv /\ [Next]_vars => WireReceived' /\ FaithfulDelivery'
  <1> SUFFICES ASSUME IInv, [Next]_vars PROVE WireReceived' /\ FaithfulDelivery'
    OBVIOUS
  <1>0. TypeOK /\ QueueIsRest /\ ContextsReady /\ RouterKept /\ MessagesStay
        /\ WireReceived /\ FaithfulDelivery
    BY CountStep DEF IInv
  <1>1. ASSUME UNCHANGED wire PROVE WireReceived' /\ FaithfulDelivery'
    BY <1>0, <1>1 DEF WireReceived, FaithfulDelivery, MessagesStay
  <1>2. ASSUME NEW h \in {"push_relay", "router_err_reply"}, NextIs(h),
               NEW fate, NEW to, wire' = Append(wire, Sent(arg, fate, to)), UNCHANGED msgs,
               fate = "relayed" => h = "push_relay" /\ to = head.dest,
               fate # "relayed" => h = "router_err_reply" /\ to = head.from
        PROVE  WireReceived' /\ FaithfulDelivery'
    <2>1. PICK c \in Context : c = ctx[arg]
      BY <1>0, <1>2, HeadCtx
    <2>2. ReadyFor(h, c)
      BY <1>0, <1>2, <2>1, HeadCtx DEF NextIs
    <2> DEFINE w == Sent(arg, fate, to)
    <2>3. /\ w.of = c.of /\ w.fate = fate /\ w.to = to /\ w.n_bytes = c.n_bytes
          /\ w.resp_code = c.resp_code /\ w.buf = c.buf
      BY <2>1 DEF Sent
    <2> HIDE DEF w
    <2>4. w.of \in Received
      BY <2>2, <2>3 DEF ReadyFor
    <2>5. Faithful(w)
      <3>1. OwnBody(c) => OwnBody(w)
        BY <2>3 DEF OwnBody
      <3> QED BY <1>2, <2>1, <2>2, <2>3, <3>1 DEF ReadyFor, Faithful, head
    <2>6. \A k \in DOMAIN wire' : wire'[k] = w \/ (k \in DOMAIN wire /\ wire'[k] = wire[k])
      BY <1>0, <1>2, AfterSend DEF w
    <2>7. \A k \in DOMAIN wire' : wire'[k].of \in Received /\ Faithful(wire'[k])
      BY <1>0, <2>4, <2>5, <2>6 DEF WireReceived, FaithfulDelivery, Faithful
    <2> QED BY <1>0, <1>2, <2>7 DEF WireReceived, FaithfulDelivery, Faithful, MessagesStay
  <1>3. CASE RelayAccepted
    BY <1>2, <1>3 DEF RelayAccepted, recvVars
  <1>4. CASE evsock_router_err_reply
    <2>1. get_element(ROUTER) # "NONE"
      BY <1>0 DEF RouterKept, get_element, Keys
    <2>2. PICK fate \in {"answered", "lost"} : wire' = Append(wire, Sent(arg, fate, head.from))
      BY <1>4, <2>1 DEF evsock_router_err_reply
    <2> QED BY <1>2, <1>4, <2>2 DEF evsock_router_err_reply, recvVars
  <1>5. CASE RelayBadRoute \/ RelayUnroutable \/ SocketEvent
    BY <1>1, <1>5 DEF RelayBadRoute, RelayUnroutable, RelayFails, SocketEvent
  <1>6. CASE Client \/ MgntPost \/ TrRecvStep \/ UNCHANGED vars
    BY <1>1, <1>6 DEF Client, MgntPost, TrRecvStep, vars
  <1> QED BY <1>3, <1>4, <1>5, <1>6 DEF Next, TrSendNext, evsock_push_relay

-----------------------------------------------------------------------------
(* The ROUTER socket, the message boundary and the descriptor. *)

\* Every step keeps the ROUTER socket.
LEMMA RouterStep == IInv /\ [Next]_vars => RouterKept'
  <1> SUFFICES ASSUME IInv, [Next]_vars PROVE RouterKept'
    OBVIOUS
  <1>0. TypeOK /\ RouterKept /\ ROUTER \in Keys
    BY DEF IInv, Keys
  <1>1. CASE SocketEvent
    <2>1. CASE evsock_push_create
      BY <1>0, <2>1 DEF RouterKept, TypeOK, evsock_push_create, add_zsock_to_list
    <2>2. CASE evsock_push_remove
      BY <1>0, <2>2 DEF RouterKept, TypeOK, evsock_push_remove, del_zsock_from_list
    <2> QED BY <1>1, <2>1, <2>2 DEF SocketEvent
  <1>2. CASE UNCHANGED zsocks
    BY <1>0, <1>2 DEF RouterKept
  <1>3. UNCHANGED zsocks \/ SocketEvent
    BY DEF Next, Client, Push, Connect, MgntPost, TrRecvStep, evsock_pull_read, PullWake, PullTry,
           PullScan, PullGetCtx, PullNone, PullHead, PullBadType, PullNullBody, PullDiffSize,
           PullAccept, Receive, PullPost, TrSendNext, evsock_push_relay, RelayBadRoute,
           RelayUnroutable, RelayFails, RelayAccepted, evsock_router_err_reply, sendVars, vars
  <1> QED BY <1>1, <1>2, <1>3

\* Every step keeps the message boundary, and TR_RECV signalled or armed.
LEMMA SocketStep == IInv /\ [Next]_vars => MessageBoundary' /\ WaitsArmed'
  <1> SUFFICES ASSUME IInv, [Next]_vars PROVE MessageBoundary' /\ WaitsArmed'
    OBVIOUS
  <1>0. TypeOK /\ MessageBoundary /\ WaitsArmed /\ pull \in ZSockOf(Nat)
    BY DEF IInv, TypeOK
  <1>1. ASSUME NEW m \in Envelopes, Push(m) PROVE MessageBoundary' /\ WaitsArmed'
    <2>1. /\ pull'.more = pull.more /\ rpc' = rpc
          /\ pull'.signal = (pull.signal \/ pull.armed)
      BY <1>0, <1>1 DEF Push, Arrive, ZSockOf
    <2> QED BY <1>0, <2>1 DEF MessageBoundary, WaitsArmed
  <1>2. CASE Connect
    <2>1. pull'.more = pull.more /\ pull'.signal /\ rpc' = rpc
      BY <1>0, <1>2 DEF Connect, Attach, ZSockOf
    <2> QED BY <1>0, <2>1 DEF MessageBoundary, WaitsArmed
  <1>3. CASE PullWake
    <2>1. /\ rpc' \in {"try", "wait"} /\ (rpc' = "wait" => pull.q = << >>)
          /\ pull'.q = pull.q /\ (pull.q = << >> => pull'.armed)
      BY <1>0, <1>3 DEF PullWake, ReadEvents, ZSockOf
    <2> QED BY <2>1 DEF MessageBoundary, WaitsArmed
  <1>4. CASE PullTry
    <2>1. pull'.more = 0 /\ rpc' = "scan"
      BY <1>0, <1>4 DEF PullTry, zsock_drain_remain_part, ZSockOf
    <2> QED BY <2>1 DEF MessageBoundary, WaitsArmed
  <1>5. CASE PullGetCtx
    BY <1>0, <1>5 DEF PullGetCtx, MessageBoundary, WaitsArmed
  <1>6. CASE PullNone
    <2>1. rpc' = "wait" /\ pull'.armed /\ pull'.q = << >>
      BY <1>0, <1>6 DEF PullNone, Again, ZSockOf
    <2> QED BY <2>1 DEF MessageBoundary, WaitsArmed
  <1>7. CASE PullHead \/ PullPost
    <2>1. rpc' \in {"push_relay", "router_err_reply", "try"}
      BY <1>7 DEF PullHead, PullBadType, PullNullBody, PullDiffSize, PullAccept, Receive, PullPost
    <2> QED BY <2>1 DEF MessageBoundary, WaitsArmed
  <1>8. CASE MgntPost \/ PullScan \/ TrSendNext \/ UNCHANGED vars
    <2>1. UNCHANGED <<pull, rpc>>
      BY <1>8 DEF MgntPost, PullScan, TrSendNext, evsock_push_relay, RelayBadRoute,
           RelayUnroutable, RelayFails, RelayAccepted, evsock_router_err_reply, SocketEvent,
           vars, recvVars
    <2> QED BY <1>0, <2>1 DEF MessageBoundary, WaitsArmed
  <1> QED BY <1>1, <1>2, <1>3, <1>4, <1>5, <1>6, <1>7, <1>8
          DEF Next, Client, TrRecvStep, evsock_pull_read
-----------------------------------------------------------------------------
(* The order of the messages. *)

\* The contexts that have a message on its way keep it, whatever else a step
\* does to them.
LEMMA OfStays ==
  ASSUME IInv, [Next]_vars
  PROVE  /\ \A k \in CtxEvents : ctx'[sendq[k].arg].of = ctx[sendq[k].arg].of
         /\ Posting => ctx'[cur].of = ctx[cur].of
  <1>0. TypeOK /\ QueueIsRest /\ ContextsReady /\ ContextOwnership
    BY DEF IInv
  <1>1. /\ \A k \in CtxEvents : sendq[k].arg \in Contexts /\ sendq[k].arg \in busy
        /\ Posting => cur \in Contexts /\ cur \in busy
    BY <1>0 DEF ContextOwnership, Held, Holding, Posting, TypeOK
  <1>2. CASE PullGetCtx
    <2>1. PICK c \in Contexts : get_msg_ctx(c)
      BY <1>2 DEF PullGetCtx
    <2>2. c \notin busy
      BY <2>1 DEF get_msg_ctx
    <2>3. \A d \in Contexts : d # c => ctx'[d] = ctx[d]
      BY <1>0, <2>1 DEF get_msg_ctx, Take, TypeOK
    <2> QED BY <1>1, <2>2, <2>3
  <1>3. CASE PullHead
    <2>1. rpc = "read" /\ \E k, d, h : Receive(k, d, h)
      BY <1>3 DEF PullHead, PullBadType, PullNullBody, PullDiffSize, PullAccept
    <2>2. \A d \in Contexts : d # cur => ctx'[d] = ctx[d]
      BY <1>0, <2>1 DEF Receive, TypeOK
    <2>3. Held = {cur} /\ ~Posting
      BY <2>1 DEF Held, Holding, Posting
    <2> QED BY <1>0, <1>1, <2>2, <2>3 DEF ContextOwnership
  <1>4. ASSUME NEW code \in {"ROUTE_TYPE", "TO_ROUTE"}, NextIs("push_relay"), RelayFails(code)
        PROVE  \A d \in Contexts : ctx'[d].of = ctx[d].of
    <2>1. arg \in Contexts
      BY <1>0, <1>4, HeadCtx
    <2>2. PICK c \in Context : c = ctx[arg]
      BY <1>0, <2>1 DEF TypeOK
    <2>3. PICK e : e = Failed(c, code, << >>)
      OBVIOUS
    <2>4. e.of = c.of
      BY <2>3, FailedType DEF zmsg_resp_t
    <2>5. ctx' = [ctx EXCEPT ![arg] = e]
      BY <1>4, <2>2, <2>3 DEF RelayFails
    <2> QED BY <1>0, <2>1, <2>2, <2>4, <2>5 DEF TypeOK
  <1>5. CASE RelayBadRoute \/ RelayUnroutable
    <2>1. \A d \in Contexts : ctx'[d].of = ctx[d].of
      BY <1>4, <1>5 DEF RelayBadRoute, RelayUnroutable
    <2> QED BY <1>1, <2>1
  <1>6. CASE UNCHANGED ctx
    BY <1>6
  <1>7. UNCHANGED ctx \/ PullGetCtx \/ PullHead \/ RelayBadRoute \/ RelayUnroutable
    BY DEF Next, Client, Push, Connect, MgntPost, TrRecvStep, evsock_pull_read, PullWake, PullTry,
           StartScan, PullScan, SkipOccupied, PullNone, PullPost, TrSendNext, evsock_push_relay,
           RelayAccepted, evsock_router_err_reply, SocketEvent, poolVars, vars
  <1> QED BY <1>2, <1>3, <1>5, <1>6, <1>7

\* The events of a step: those there were, and one posted event for a context
\* that TR_RECV held or that the event just run carried.
LEMMA EventsOrigin ==
  ASSUME IInv, [Next]_vars
  PROVE  \/ \A k \in CtxEvents' : k \in CtxEvents /\ sendq'[k] = sendq[k]
         \/ PullPost /\ \A k \in CtxEvents' :
              \/ k = Len(sendq) + 1 /\ sendq'[k] = Event(rpc, cur)
              \/ k \in CtxEvents /\ sendq'[k] = sendq[k] /\ k < Len(sendq) + 1
         \/ /\ \A k \in CtxEvents' : k + 1 \in CtxEvents /\ sendq'[k] = sendq[k + 1]
            /\ 1 \in DOMAIN sendq /\ sendq[1] = Head(sendq) /\ UNCHANGED recvVars
         \/ /\ 1 \in CtxEvents /\ sendq[1].arg = arg /\ UNCHANGED <<recvVars, wire>>
            /\ \A k \in CtxEvents' :
                 \/ sendq'[k] = Event("router_err_reply", arg)
                 \/ k + 1 \in CtxEvents /\ sendq'[k] = sendq[k + 1]
  <1>0. TypeOK /\ QueueIsRest /\ ContextsReady
    BY DEF IInv
  <1>1. CASE UNCHANGED sendq
    BY <1>1 DEF CtxEvents, IsCtxEvent
  <1>2. CASE MgntPost
    <2>1. PICK e \in Events : ~IsCtxEvent(e) /\ sendq' = Append(sendq, e)
      BY <1>2 DEF MgntPost, event_base_once, Event, Events, IsCtxEvent
    <2> QED BY <1>0, <2>1, AfterPost DEF CtxEvents, IsCtxEvent
  <1>3. CASE PullPost
    <2> DEFINE e == Event(rpc, cur)
    <2>1. e \in Events /\ sendq' = Append(sendq, e)
      BY <1>0, <1>3 DEF PullPost, event_base_once, Event, Events, ContextsReady, Holding
    <2> HIDE DEF e
    <2>2. \A k \in CtxEvents' :
              \/ k = Len(sendq) + 1 /\ sendq'[k] = e
              \/ k \in CtxEvents /\ sendq'[k] = sendq[k] /\ k < Len(sendq) + 1
      BY <1>0, <2>1, AfterPost DEF CtxEvents, IsCtxEvent
    <2> QED BY <1>3, <2>2 DEF e
  <1>4. CASE RelayBadRoute \/ RelayUnroutable
    <2> DEFINE e == Event("router_err_reply", arg)
    <2>1. NextIs("push_relay") /\ RunEvent(<<e>>) /\ UNCHANGED <<recvVars, wire>>
      BY <1>4 DEF RelayBadRoute, RelayUnroutable, RelayFails
    <2>2. sendq # << >> /\ e \in Events
      BY <1>0, <2>1, HeadCtx DEF NextIs, Event, Events
    <2> HIDE DEF e
    <2>3. 1 \in CtxEvents /\ sendq[1].arg = arg
      BY <1>0, <2>1, <2>2, AfterRunAndPost DEF CtxEvents, IsCtxEvent, NextIs, arg
    <2>4. \A k \in CtxEvents' : sendq'[k] = e \/ (k + 1 \in CtxEvents /\ sendq'[k] = sendq[k + 1])
      BY <1>0, <2>1, <2>2, AfterRunAndPost DEF CtxEvents, IsCtxEvent
    <2> QED BY <2>1, <2>3, <2>4 DEF e
  <1>5. CASE RelayAccepted \/ evsock_router_err_reply \/ SocketEvent
    <2>1. sendq # << >> /\ RunEvent(<< >>) /\ UNCHANGED recvVars
      BY <1>5 DEF RelayAccepted, evsock_router_err_reply, SocketEvent, evsock_push_create,
                  evsock_push_remove, NextIs
    <2> QED BY <1>0, <2>1, AfterRun DEF CtxEvents, IsCtxEvent
  <1> QED
    BY <1>1, <1>2, <1>3, <1>4, <1>5
    DEF Next, Client, Push, Connect, TrRecvStep, evsock_pull_read, PullWake, PullTry, PullScan,
        PullGetCtx, PullNone, PullHead, PullBadType, PullNullBody, PullDiffSize, PullAccept,
        Receive, TrSendNext, evsock_push_relay, sendVars, vars
\* What a step adds to the wire is the message of the event at the head.
LEMMA WireOrigin ==
  ASSUME IInv, [Next]_vars
  PROVE  \/ UNCHANGED wire
         \/ /\ 1 \in CtxEvents /\ sendq[1].arg = arg
            /\ UNCHANGED recvVars /\ RunEvent(<< >>) /\ sendq # << >>
            /\ \E w : /\ wire' = Append(wire, w) /\ w.of = ctx[arg].of
                      /\ w.fate = "relayed" => sendq[1].h = "push_relay"
  <1>0. TypeOK /\ RouterKept
    BY DEF IInv
  <1>1. ASSUME NEW h \in {"push_relay", "router_err_reply"}, NextIs(h)
        PROVE  1 \in CtxEvents /\ sendq[1].arg = arg /\ sendq[1].h = h /\ sendq # << >>
    BY <1>0, <1>1 DEF NextIs, CtxEvents, IsCtxEvent, arg, TypeOK
  <1>2. CASE RelayAccepted
    <2> DEFINE w == Sent(arg, "relayed", head.dest)
    <2>1. wire' = Append(wire, w) /\ w.of = ctx[arg].of
      BY <1>2 DEF RelayAccepted, Sent
    <2> HIDE DEF w
    <2> QED BY <1>1, <1>2, <2>1 DEF RelayAccepted
  <1>3. CASE evsock_router_err_reply
    <2>1. get_element(ROUTER) # "NONE"
      BY <1>0 DEF RouterKept, get_element, Keys
    <2>2. PICK fate \in {"answered", "lost"} : wire' = Append(wire, Sent(arg, fate, head.from))
      BY <1>3, <2>1 DEF evsock_router_err_reply
    <2> DEFINE w == Sent(arg, fate, head.from)
    <2>3. wire' = Append(wire, w) /\ w.of = ctx[arg].of /\ w.fate # "relayed"
      BY <2>2 DEF Sent
    <2> HIDE DEF w
    <2> QED BY <1>1, <1>3, <2>3 DEF evsock_router_err_reply
  <1> QED
    BY <1>2, <1>3
    DEF Next, Client, MgntPost, TrRecvStep, TrSendNext, evsock_push_relay, RelayBadRoute,
        RelayUnroutable, RelayFails, SocketEvent, vars

\* Every step keeps the message in TR_RECV's hands the last one received.
LEMMA LastStep == IInv /\ [Next]_vars => OnlyLastInHand'
  <1> SUFFICES ASSUME IInv, [Next]_vars, Posting' PROVE OnlyLastInHand'
    BY DEF OnlyLastInHand
  <1>0. /\ TypeOK /\ QueueIsRest /\ ContextsReady /\ WireReceived /\ OnlyLastInHand
        /\ NReceived \in Nat
    BY Counts DEF IInv
  <1>1. CASE PullHead /\ UNCHANGED wire
    <2>1. PICK k \in {1, 2}, d \in Context, h \in {"push_relay", "router_err_reply"} :
            Filled(k, d, h)
      BY <1>0, <1>1, HeadFills
    <2>2. NReceived' = NReceived + 1 /\ UNCHANGED <<sendq, wire>>
      BY <1>0, <1>1, <2>1, CountsAfterReceive DEF Filled, Receive, sendVars
    <2>3. CtxEvents' = CtxEvents
      BY <2>2 DEF CtxEvents, IsCtxEvent
    <2>4. \A k1 \in CtxEvents : ctx'[sendq'[k1].arg].of = ctx[sendq[k1].arg].of
      BY <2>2, OfStays
    <2>5. \A k1 \in CtxEvents : ctx[sendq[k1].arg].of \in Received
      BY <1>0 DEF ContextsReady, ReadyFor
    <2>6. NReceived' \notin Received
      BY <1>0, <2>2 DEF Received
    <2> QED BY <1>0, <2>2, <2>3, <2>4, <2>5, <2>6 DEF OnlyLastInHand, WireReceived
  <1>2. CASE ~(PullHead /\ UNCHANGED wire)
    <2>1. Posting /\ NReceived' = NReceived /\ ~PullPost
      <3>1. ASSUME NEW m \in Envelopes, Push(m) PROVE Posting /\ NReceived' = NReceived /\ ~PullPost
        BY <1>0, <3>1, CountsAfterPush, EnvelopesAssumption DEF Push, Posting, PullPost
      <3>2. CASE Connect
        BY <1>0, <3>2 DEF Connect, Attach, Posting, NReceived, PullPost, TypeOK, ZSockOf
      <3>3. CASE MgntPost \/ TrSendNext \/ UNCHANGED vars
        BY <3>3 DEF MgntPost, TrSendNext, evsock_push_relay, RelayBadRoute, RelayUnroutable,
             RelayFails, RelayAccepted, evsock_router_err_reply, SocketEvent, vars, recvVars,
             Posting, NReceived, PullPost
      <3> QED BY <1>2, <3>1, <3>2, <3>3
              DEF Next, Client, TrRecvStep, evsock_pull_read, PullWake, PullTry, PullScan,
                  PullGetCtx, PullNone, PullPost, recvVars, Posting
    <2>2. \A k \in CtxEvents' : \E j \in CtxEvents : sendq'[k].arg = sendq[j].arg
      BY <2>1, EventsOrigin DEF Event
    <2>3. \A k \in CtxEvents' : ctx'[sendq'[k].arg].of # NReceived'
      BY <1>0, <2>1, <2>2, OfStays DEF OnlyLastInHand
    <2>4. \A k \in DOMAIN wire' : wire'[k].of # NReceived'
      <3>1. CASE UNCHANGED wire
        BY <1>0, <2>1, <3>1 DEF OnlyLastInHand
      <3>2. ASSUME 1 \in CtxEvents, sendq[1].arg = arg,
                   NEW w, wire' = Append(wire, w), w.of = ctx[arg].of
            PROVE  \A k \in DOMAIN wire' : wire'[k].of # NReceived'
        <4>1. w.of # NReceived
          BY <1>0, <2>1, <3>2 DEF OnlyLastInHand
        <4>2. \A k \in DOMAIN wire' : wire'[k] = w \/ (k \in DOMAIN wire /\ wire'[k] = wire[k])
          BY <1>0, <3>2, AfterSend
        <4> QED BY <1>0, <2>1, <4>1, <4>2 DEF OnlyLastInHand
      <3> QED BY <3>1, <3>2, WireOrigin
    <2> QED BY <2>3, <2>4 DEF OnlyLastInHand
  <1> QED BY <1>1, <1>2

\* A message to relay is behind every relayed one.
LEMMA OrderStep == IInv /\ [Next]_vars => QueueOrder' /\ RelayOrder'
  <1> SUFFICES ASSUME IInv, [Next]_vars PROVE QueueOrder' /\ RelayOrder'
    OBVIOUS
  <1>0. /\ TypeOK /\ QueueIsRest /\ ContextsReady /\ WireReceived /\ OnlyLastInHand
        /\ QueueOrder /\ RelayOrder /\ NReceived \in Nat
    BY Counts DEF IInv
  <1> DEFINE Of(k) == ctx[sendq[k].arg].of
  <1>1. /\ ToRelayAt \subseteq CtxEvents
        /\ \A k \in DOMAIN sendq : k \in ToRelayAt <=> k \in CtxEvents /\ sendq[k].h = "push_relay"
        /\ \A k \in CtxEvents' : k \in DOMAIN sendq'
        /\ ToRelayAt' \subseteq CtxEvents'
    BY DEF ToRelayAt, CtxEvents, IsCtxEvent
  <1>2. \A k \in ToRelayAt' : sendq'[k].h = "push_relay"
    BY DEF ToRelayAt
  <1>3. \A k \in CtxEvents : ctx'[sendq[k].arg].of = Of(k) /\ Of(k) \in Received
    BY <1>0, OfStays DEF ContextsReady, ReadyFor
  <1>4. \A k \in CtxEvents : Of(k) \in Nat /\ k \in Nat
    BY <1>0, <1>3 DEF Received, CtxEvents, TypeOK
  <1>5. \A k \in DOMAIN wire : wire[k].of \in Nat
    BY <1>0 DEF WireReceived, Received
  <1>n. \A k \in ToRelayAt' : k \in Nat /\ k >= 1
    <2>1. sendq' \in Seq(Events)
      BY TypeStep DEF TypeOK
    <2> QED BY <2>1 DEF ToRelayAt
  <1> HIDE DEF Of
  <1>6. CASE UNCHANGED wire
    <2>1. RelayOrder'
      BY <1>0, <1>6 DEF RelayOrder
    <2> DEFINE Shifted(s) ==
          \A k \in ToRelayAt' : k + s \in ToRelayAt /\ sendq'[k] = sendq[k + s]
    <2>2. ASSUME NEW s \in {0, 1}, Shifted(s)
          PROVE  QueueOrder'
      <3>1. \A k \in ToRelayAt' : k \in Nat /\ ctx'[sendq'[k].arg].of = Of(k + s)
        BY <1>1, <1>3, <1>n, <2>2
      <3>2. \A j, k \in ToRelayAt' : j < k => Of(j + s) < Of(k + s)
        <4> TAKE j, k \in ToRelayAt'
        <4> HAVE j < k
        <4>1. j + s < k + s /\ j + s \in ToRelayAt /\ k + s \in ToRelayAt
          BY <2>2, <3>1
        <4> QED BY <1>0, <4>1 DEF QueueOrder, Of
      <3>3. \A k \in ToRelayAt' : \A j \in DOMAIN wire :
              wire[j].fate = "relayed" => wire[j].of < Of(k + s)
        BY <1>0, <2>2 DEF QueueOrder, Of
      <3> QED BY <1>6, <3>1, <3>2, <3>3 DEF QueueOrder
    <2>3. CASE \A k \in CtxEvents' : k \in CtxEvents /\ sendq'[k] = sendq[k]
      <3>1. \A k \in ToRelayAt' : k + 0 = k
        BY <1>n
      <3>2. Shifted(0)
        BY <1>1, <1>2, <2>3, <3>1 DEF CtxEvents
      <3> HIDE DEF Shifted
      <3> QED BY <2>1, <2>2, <3>2
    <2>4. CASE \A k \in CtxEvents' : \/ sendq'[k] = Event("router_err_reply", arg)
                                     \/ k + 1 \in CtxEvents /\ sendq'[k] = sendq[k + 1]
      <3>1. Shifted(1)
        BY <1>1, <1>2, <2>4 DEF Event, CtxEvents
      <3> HIDE DEF Shifted
      <3> QED BY <2>1, <2>2, <3>1
    <2>6. CASE \A k \in CtxEvents' : k + 1 \in CtxEvents /\ sendq'[k] = sendq[k + 1]
      BY <2>4, <2>6
    <2>5. CASE PullPost /\ \A k \in CtxEvents' :
                 \/ k = Len(sendq) + 1 /\ sendq'[k] = Event(rpc, cur)
                 \/ k \in CtxEvents /\ sendq'[k] = sendq[k] /\ k < Len(sendq) + 1
      <3> DEFINE n == Len(sendq) + 1
      <3>1. Posting /\ ctx[cur].of = NReceived /\ ctx'[cur].of = NReceived /\ n \in Nat
        BY <1>0, <2>5, OfStays DEF PullPost, Posting, ContextsReady, TypeOK
      <3> HIDE DEF n
      <3>2. \A k \in ToRelayAt' :
              \/ k = n /\ ctx'[sendq'[k].arg].of = NReceived
              \/ k \in ToRelayAt /\ k < n /\ ctx'[sendq'[k].arg].of = Of(k)
        BY <1>1, <1>2, <1>3, <2>5, <3>1 DEF Event, Of, CtxEvents, n
      <3>3. /\ \A k \in ToRelayAt : Of(k) < NReceived
            /\ \A k \in DOMAIN wire : wire[k].of < NReceived
        <4>1. \A k \in ToRelayAt : Of(k) \in Received /\ Of(k) # NReceived
          BY <1>0, <1>1, <1>3, <3>1 DEF OnlyLastInHand, Of
        <4>2. \A k \in DOMAIN wire : wire[k].of \in Received /\ wire[k].of # NReceived
          BY <1>0, <3>1 DEF OnlyLastInHand, WireReceived
        <4> QED BY <1>0, <4>1, <4>2 DEF Received
      <3>4. \A j, k \in ToRelayAt : j < k => Of(j) < Of(k)
        BY <1>0 DEF QueueOrder, Of
      <3>5. \A k \in ToRelayAt : \A j \in DOMAIN wire :
              wire[j].fate = "relayed" => wire[j].of < Of(k)
        BY <1>0 DEF QueueOrder, Of
      <3>6. \A k \in ToRelayAt : k \in Nat
        BY <1>1, <1>4
      <3>7. \A j, k \in ToRelayAt' :
              j < k => ctx'[sendq'[j].arg].of < ctx'[sendq'[k].arg].of
        BY <3>1, <3>2, <3>3, <3>4, <3>6
      <3>8. \A k \in ToRelayAt' : \A j \in DOMAIN wire :
              wire[j].fate = "relayed" => wire[j].of < ctx'[sendq'[k].arg].of
        BY <3>2, <3>3, <3>5
      <3> QED BY <1>6, <2>1, <3>7, <3>8 DEF QueueOrder
    <2> HIDE DEF Shifted
    <2> QED BY <2>1, <2>3, <2>4, <2>5, <2>6, EventsOrigin
  <1>7. ASSUME 1 \in CtxEvents, sendq[1].arg = arg, RunEvent(<< >>), sendq # << >>,
               NEW w, wire' = Append(wire, w), w.of = ctx[arg].of,
               w.fate = "relayed" => sendq[1].h = "push_relay"
        PROVE  QueueOrder' /\ RelayOrder'
    <2> DEFINE n == Len(wire) + 1
    <2>1. w.of = Of(1) /\ w.of \in Nat /\ (w.fate = "relayed" => 1 \in ToRelayAt)
      BY <1>1, <1>4, <1>7 DEF Of, CtxEvents, ToRelayAt
    <2>2. /\ \A k \in DOMAIN wire' : (k = n /\ wire'[k] = w) \/ (k \in DOMAIN wire /\ wire'[k] = wire[k])
          /\ \A j, k \in DOMAIN wire' : j < k => j \in DOMAIN wire /\ wire'[j] = wire[j]
      BY <1>0, <1>7, AfterSend
    <2> HIDE DEF n
    <2>3. \A k \in ToRelayAt' : /\ k \in Nat /\ k >= 1 /\ k + 1 \in ToRelayAt
                                /\ ctx'[sendq'[k].arg].of = Of(k + 1)
      <3>1. \A k \in ToRelayAt' : k + 1 \in CtxEvents /\ sendq'[k] = sendq[k + 1]
        BY <1>0, <1>1, <1>2, <1>7, AfterRun DEF CtxEvents, IsCtxEvent, ToRelayAt
      <3> QED BY <1>1, <1>2, <1>3, <1>n, <3>1 DEF CtxEvents
    <2>4. \A j, k \in ToRelayAt : j < k => Of(j) < Of(k)
      BY <1>0 DEF QueueOrder, Of
    <2>5. \A k \in ToRelayAt : \A j \in DOMAIN wire :
            wire[j].fate = "relayed" => wire[j].of < Of(k)
      BY <1>0 DEF QueueOrder, Of
    <2>6. \A j, k \in ToRelayAt' : j < k => ctx'[sendq'[j].arg].of < ctx'[sendq'[k].arg].of
      <3> TAKE j, k \in ToRelayAt'
      <3> HAVE j < k
      <3>1. j + 1 < k + 1
        BY <2>3
      <3> QED BY <2>3, <2>4, <3>1
    <2>7. \A k \in ToRelayAt' : \A j \in DOMAIN wire' :
            wire'[j].fate = "relayed" => wire'[j].of < ctx'[sendq'[k].arg].of
      <3> TAKE k \in ToRelayAt'
      <3> TAKE j \in DOMAIN wire'
      <3> HAVE wire'[j].fate = "relayed"
      <3>1. CASE wire'[j] = w
        <4>1. 1 < k + 1
          BY <2>3
        <4> QED BY <2>1, <2>3, <2>4, <3>1, <4>1
      <3>2. CASE j \in DOMAIN wire /\ wire'[j] = wire[j]
        BY <2>3, <2>5, <3>2
      <3> QED BY <2>2, <3>1, <3>2
    <2>8. RelayOrder'
      <3> SUFFICES ASSUME NEW j \in DOMAIN wire', NEW k \in DOMAIN wire', j < k,
                          wire'[j].fate = "relayed", wire'[k].fate = "relayed"
                   PROVE  wire'[j].of < wire'[k].of
        BY DEF RelayOrder
      <3>1. j \in DOMAIN wire /\ wire'[j] = wire[j]
        BY <2>2
      <3>2. CASE wire'[k] = w
        BY <2>1, <2>5, <3>1, <3>2
      <3>3. CASE k \in DOMAIN wire /\ wire'[k] = wire[k]
        BY <1>0, <3>1, <3>3 DEF RelayOrder
      <3> QED BY <2>2, <3>2, <3>3
    <2> QED BY <2>6, <2>7, <2>8 DEF QueueOrder
  <1> QED BY <1>6, <1>7, WireOrigin

-----------------------------------------------------------------------------
\* The invariant holds when the threads start.
LEMMA InitHolds == Init => IInv
  <1> SUFFICES ASSUME Init PROVE IInv
    OBVIOUS
  <1> USE DEF Init, InitPool, InitSend, InitRecv
  <1>1. TypeOK
    <2>1. FreshZSock \in ZSockOf(Nat)
      BY DEF FreshZSock, ZSockOf
    <2>2. ctx \in [Contexts -> Context]
      BY MsgSizeAssumption DEF ZeroHead, Zeros, Buffer, Context, zmsg_resp_t
    <2>3. CURR_POS \in 0 .. MAX_MSGCTX_NUM /\ probe \in 0 .. MAX_MSGCTX_NUM
      BY PoolAssumption
    <2> QED BY <2>1, <2>2, <2>3 DEF TypeOK, RecvPcs
  <1>2. RouterKept
    BY DEF RouterKept, Keys
  <1>3. QueueIsRest /\ WaitsArmed /\ MessageBoundary
    BY DEF QueueIsRest, WaitsArmed, MessageBoundary, FreshZSock
  <1>4. CtxEvents = {} /\ ToRelayAt = {} /\ Held = {} /\ ~Holding /\ ~Posting
    BY DEF CtxEvents, ToRelayAt, Held, Holding, Posting
  <1>5. ContextOwnership /\ ContextsReady /\ OnlyLastInHand /\ QueueOrder
    BY <1>4 DEF ContextOwnership, ContextsReady, OnlyLastInHand, QueueOrder
  <1>6. WireReceived /\ FaithfulDelivery /\ RelayOrder
    BY DEF WireReceived, FaithfulDelivery, RelayOrder
  <1> QED BY <1>1, <1>2, <1>3, <1>5, <1>6 DEF IInv

\* The inductive invariant of the relay path holds in every reachable state.
THEOREM RelayInvariant == Spec => []IInv
  <1>1. IInv /\ [Next]_vars => IInv'
    BY TypeStep, RouterStep, CountStep, OwnershipStep, ReadyStep, WireStep, LastStep, OrderStep,
       SocketStep
    DEF IInv
  <1> QED BY InitHolds, <1>1, PTL DEF Spec

\* Every variable keeps its type: in particular the scan of get_msg_ctx and
\* CURR_POS never leave the pool, for a pool of any size.
THEOREM TypeCorrect == Spec => []TypeOK
  <1>1. IInv => TypeOK
    BY DEF IInv
  <1> QED BY RelayInvariant, <1>1, PTL

\* No context leaks, is freed early or is given to two messages, for any
\* interleaving of TR_RECV and TR_SEND.
THEOREM OneOwner == Spec => []ContextOwnership
  <1>1. IInv => ContextOwnership
    BY DEF IInv
  <1> QED BY RelayInvariant, <1>1, PTL

\* What leaves the broker is what came in.
THEOREM DeliveryIsFaithful == Spec => []FaithfulDelivery
  <1>1. IInv => FaithfulDelivery
    BY DEF IInv
  <1> QED BY RelayInvariant, <1>1, PTL

\* Messages are relayed in the order of their receipt.
THEOREM RelaysInOrder == Spec => []RelayOrder
  <1>1. IInv => RelayOrder
    BY DEF IInv
  <1> QED BY RelayInvariant, <1>1, PTL

\* TR_RECV never sleeps on a message.
THEOREM NoSleepOnMessage == Spec => []NoLostWakeup
  <1>1. IInv => NoLostWakeup
    BY DEF IInv, WaitsArmed, NoLostWakeup
  <1> QED BY RelayInvariant, <1>1, PTL

\* The socket is at a message boundary whenever a message is received.
THEOREM ReceivesAtBoundary == Spec => []MessageBoundary
  <1>1. IInv => MessageBoundary
    BY DEF IInv
  <1> QED BY RelayInvariant, <1>1, PTL

\* No service takes the ROUTER socket's place or removes it.
THEOREM RouterSurvives == Spec => []RouterKept
  <1>1. IInv => RouterKept
    BY DEF IInv
  <1> QED BY RelayInvariant, <1>1, PTL

-----------------------------------------------------------------------------
(***************************************************************************)
(* Places and statistics, on top of the invariant: a received message is   *)
(* in exactly one place, a malloc-ed context means that the pool was       *)
(* exhausted, and the statistics add up.  Moves and StatMoves say what any *)
(* step may do to contexts, wire and messages, and to the statistics; the  *)
(* rest follows from them, without the handlers.                           *)
(***************************************************************************)

\* A context TR_RECV is about to fill holds no message.
Fresh == rpc = "read" => ctx[cur].of = 0

\* A message in a context was received, and is in no other one and not on the
\* wire; on the wire it is once; and it is on the wire or in a context.
Places ==
  /\ \A c \in busy : ctx[c].of # 0 => ctx[c].of \in Received
  /\ \A c, d \in busy : ctx[c].of = ctx[d].of /\ ctx[c].of # 0 => c = d
  /\ \A c \in busy, k \in DOMAIN wire : wire[k].of # ctx[c].of
  /\ \A j, k \in DOMAIN wire : wire[j].of = wire[k].of => j = k
  /\ \A i \in Received :
       (\E c \in busy : ctx[c].of = i) \/ (\E k \in DOMAIN wire : wire[k].of = i)

\* What a scan has passed was occupied when it began, and so is what it will
\* find occupied.
ScanSaw ==
  rpc = "scan" => /\ busy \cap Slots \subseteq scanned
                  /\ \A i \in 0 .. probe - 1 : Pos(i) \in scanned

-----------------------------------------------------------------------------
(* What a step does to contexts, wire and messages. *)

NothingMoves ==
  /\ busy' = busy /\ wire' = wire /\ NReceived' = NReceived
  /\ \A c \in busy : ctx'[c].of = ctx[c].of

Taken ==
  \E c \in Contexts \ busy :
    /\ busy' = busy \cup {c} /\ ctx'[c].of = 0
    /\ \A d \in busy : ctx'[d] = ctx[d]
    /\ wire' = wire /\ NReceived' = NReceived

GivenBack ==
  \E c \in busy :
    /\ busy' = busy \ {c} /\ ctx[c].of = 0 /\ ctx' = ctx
    /\ wire' = wire /\ NReceived' = NReceived

GotMessage ==
  \E c \in busy :
    /\ ctx[c].of = 0 /\ ctx'[c].of = NReceived + 1 /\ NReceived' = NReceived + 1
    /\ \A d \in busy : d # c => ctx'[d] = ctx[d]
    /\ busy' = busy /\ wire' = wire

SentOff ==
  \E c \in busy : \E w :
    /\ wire' = Append(wire, w) /\ w.of = ctx[c].of /\ ctx[c].of \in Received
    /\ busy' = busy \ {c} /\ ctx' = ctx /\ NReceived' = NReceived

\* The context of the event at the head of the queue is in use, and not TR_RECV's.
LEMMA HeadBusy ==
  ASSUME IInv, NextIs("push_relay") \/ NextIs("router_err_reply")
  PROVE  arg \in busy /\ arg \in Contexts /\ (Holding => arg # cur) /\ ctx[arg] \in Context
         /\ ctx[arg].of \in Received /\ ReadyFor(Head(sendq).h, ctx[arg])
  <1>0. TypeOK /\ QueueIsRest /\ ContextsReady /\ ContextOwnership
    BY DEF IInv
  <1>1. 1 \in CtxEvents /\ sendq[1].arg = arg
    BY <1>0 DEF NextIs, CtxEvents, IsCtxEvent, arg, TypeOK
  <1> QED BY <1>0, <1>1, HeadCtx DEF ContextOwnership, Held

\* The context in TR_RECV's hands is in use.
LEMMA CurBusy == ASSUME IInv, Holding PROVE cur \in busy /\ cur \in Contexts
BY DEF IInv, ContextOwnership, Held, ContextsReady

\* A relay that fails marks its context, and nothing else of it.
LEMMA FailMarks ==
  ASSUME IInv, NextIs("push_relay"), NEW code \in zmsg_resp_t, RelayFails(code)
  PROVE  /\ ctx'[arg].of = ctx[arg].of /\ ctx'[arg].resp_code = code
         /\ \A c \in Contexts : c # arg => ctx'[c] = ctx[c]
         /\ UNCHANGED <<recvVars, busy, wire>>
  <1>0. ctx \in [Contexts -> Context] /\ arg \in Contexts /\ ctx[arg] \in Context
    BY HeadBusy DEF IInv, TypeOK
  <1>1. PICK d : d = Failed(ctx[arg], code, << >>) /\ d.of = ctx[arg].of /\ d.resp_code = code
    BY <1>0, FailedType
  <1>2. ctx' = [ctx EXCEPT ![arg] = d]
    BY <1>1 DEF RelayFails
  <1> QED BY <1>0, <1>1, <1>2 DEF RelayFails, recvVars

\* A failed relay fails with one of two codes.
LEMMA FailCode ==
  ASSUME RelayBadRoute \/ RelayUnroutable
  PROVE  NextIs("push_relay") /\ \E code \in {"ROUTE_TYPE", "TO_ROUTE"} : RelayFails(code)
BY DEF RelayBadRoute, RelayUnroutable

\* A reply ends its context, for the ROUTER socket is always there.
LEMMA ReplyEnds ==
  ASSUME IInv, evsock_router_err_reply
  PROVE  /\ NextIs("router_err_reply") /\ busy' = busy \ {arg}
         /\ \E w : wire' = Append(wire, w) /\ w.of = ctx[arg].of
         /\ UNCHANGED <<recvVars, ctx, statVars>>
  <1>1. get_element(ROUTER) # "NONE"
    BY DEF IInv, RouterKept, get_element, Keys
  <1>2. PICK fate \in {"answered", "lost"} : wire' = Append(wire, Sent(arg, fate, head.from))
    BY <1>1 DEF evsock_router_err_reply
  <1> DEFINE w == Sent(arg, fate, head.from)
  <1>3. wire' = Append(wire, w) /\ w.of = ctx[arg].of
    BY <1>2 DEF Sent
  <1> HIDE DEF w
  <1> QED BY <1>1, <1>3 DEF evsock_router_err_reply, free_msg_ctx, recvVars, statVars

\* A context taken is one that was free, with its head cleared.
LEMMA TakenFresh ==
  ASSUME IInv, PullGetCtx
  PROVE  /\ cur' \in Contexts \ busy /\ busy' = busy \cup {cur'}
         /\ ctx'[cur'].of = 0 /\ ctx'[cur'].resp_code = "OK"
         /\ \A d \in Contexts : d # cur' => ctx'[d] = ctx[d]
         /\ UNCHANGED <<msgs, pull, statVars>>
  <1>0. ctx \in [Contexts -> Context]
    BY DEF IInv, TypeOK
  <1>1. PICK c \in Contexts : get_msg_ctx(c) /\ cur' = c
    BY DEF PullGetCtx
  <1>2. c \notin busy /\ Take(c)
    BY <1>1 DEF get_msg_ctx
  <1>3. \E b : ctx' = [ctx EXCEPT ![c] = ZeroHead(b)]
    BY <1>2 DEF Take
  <1>4. ctx'[c].of = 0 /\ ctx'[c].resp_code = "OK" /\ \A d \in Contexts : d # c => ctx'[d] = ctx[d]
    BY <1>0, <1>3 DEF ZeroHead
  <1> QED BY <1>1, <1>2, <1>4 DEF PullGetCtx, Take

\* Every step is of one of five kinds.
LEMMA Moves ==
  ASSUME IInv, Fresh, [Next]_vars
  PROVE  NothingMoves \/ Taken \/ GivenBack \/ GotMessage \/ SentOff
  <1>0. TypeOK /\ QueueIsRest /\ ContextsReady /\ ContextOwnership
    BY DEF IInv
  <1>a. pull \in ZSockOf(Nat) /\ busy \subseteq Contexts
    BY <1>0 DEF TypeOK
  <1>b. ASSUME UNCHANGED msgs, pull'.q = pull.q PROVE NReceived' = NReceived
    BY <1>b DEF NReceived
  <1>1. ASSUME NEW m \in Envelopes, Push(m), UNCHANGED wire PROVE NothingMoves
    BY <1>0, <1>1, CountsAfterPush, EnvelopesAssumption DEF NothingMoves, Push, poolVars
  <1>2. CASE (Connect \/ PullWake \/ PullTry) /\ UNCHANGED wire
    <2>1. pull'.q = pull.q
      BY <1>a, <1>2 DEF Connect, Attach, PullWake, ReadEvents, PullTry,
           zsock_drain_remain_part, ZSockOf
    <2> QED BY <1>b, <1>2, <2>1
            DEF Connect, PullWake, PullTry, StartScan, NothingMoves, poolVars
  <1>3. CASE ((PullScan \/ PullPost) /\ UNCHANGED wire) \/ MgntPost \/ SocketEvent \/ UNCHANGED vars
    <2>1. UNCHANGED <<msgs, pull, busy, ctx, wire>>
      BY <1>3 DEF PullScan, SkipOccupied, PullPost, MgntPost, SocketEvent, vars, recvVars, poolVars
    <2> QED BY <1>b, <2>1 DEF NothingMoves
  <1>4. CASE PullGetCtx /\ UNCHANGED wire
    <2>1. NReceived' = NReceived
      BY <1>b, <1>4, TakenFresh
    <2> QED BY <1>a, <1>4, <2>1, TakenFresh DEF Taken
  <1>5. CASE PullNone /\ UNCHANGED wire
    <2>1. pull'.q = pull.q
      BY <1>a, <1>5 DEF PullNone, Again, ZSockOf
    <2>2. cur \in busy
      BY <1>5, CurBusy DEF PullNone, Holding
    <2> QED BY <1>b, <1>5, <2>1, <2>2 DEF PullNone, Fresh, free_msg_ctx, GivenBack
  <1>6. CASE PullHead /\ UNCHANGED wire
    <2>1. PICK k \in {1, 2}, d \in Context, h \in {"push_relay", "router_err_reply"} :
            Filled(k, d, h)
      BY <1>0, <1>6, HeadFills
    <2>2. NReceived' = NReceived + 1 /\ Head(pull.q) = NReceived + 1
      BY <1>0, <2>1, CountsAfterReceive DEF Filled, Receive
    <2>3. cur \in busy /\ ctx[cur].of = 0
      BY <2>1, CurBusy DEF Filled, Holding, Fresh
    <2>4. ctx' = [ctx EXCEPT ![cur] = d] /\ d.of = Head(pull.q) /\ UNCHANGED busy
      BY <2>1 DEF Filled, Receive
    <2>5. ctx'[cur] = d /\ \A c \in busy : c # cur => ctx'[c] = ctx[c]
      BY <1>0, <1>a, <2>3, <2>4 DEF TypeOK
    <2> QED BY <1>6, <2>2, <2>3, <2>4, <2>5 DEF GotMessage
  <1>7. CASE RelayBadRoute \/ RelayUnroutable
    <2>1. PICK code \in {"ROUTE_TYPE", "TO_ROUTE"} : NextIs("push_relay") /\ RelayFails(code)
      BY <1>7, FailCode
    <2>2. code \in zmsg_resp_t
      BY DEF zmsg_resp_t
    <2> QED BY <1>a, <1>b, <2>1, <2>2, FailMarks DEF NothingMoves, recvVars
  <1>8. CASE RelayAccepted
    <2> DEFINE w == Sent(arg, "relayed", head.dest)
    <2>1. wire' = Append(wire, w) /\ w.of = ctx[arg].of
      BY <1>8 DEF RelayAccepted, Sent
    <2> HIDE DEF w
    <2>2. arg \in busy /\ ctx[arg].of \in Received
      BY <1>8, HeadBusy DEF RelayAccepted
    <2> QED BY <1>b, <1>8, <2>1, <2>2 DEF RelayAccepted, SentOff, free_msg_ctx, recvVars
  <1>9. CASE evsock_router_err_reply
    <2>1. arg \in busy /\ ctx[arg].of \in Received
      BY <1>9, ReplyEnds, HeadBusy
    <2> QED BY <1>b, <1>9, <2>1, ReplyEnds DEF SentOff, recvVars
  <1> QED BY <1>1, <1>2, <1>3, <1>4, <1>5, <1>6, <1>7, <1>8, <1>9
          DEF Next, Client, TrRecvStep, evsock_pull_read, TrSendNext, evsock_push_relay

\* A context keeps its cleared head until TR_RECV receives into it.
LEMMA FreshStep == IInv /\ Fresh /\ [Next]_vars => Fresh'
  <1> SUFFICES ASSUME IInv, Fresh, [Next]_vars, rpc' = "read" PROVE ctx'[cur'].of = 0
    BY DEF Fresh
  <1>1. CASE PullGetCtx
    BY <1>1, TakenFresh
  <1>2. CASE ~PullGetCtx
    <2>1. UNCHANGED <<rpc, cur>>
      BY <1>2 DEF Next, Client, Push, Connect, MgntPost, TrRecvStep, evsock_pull_read, PullWake,
           PullTry, PullScan, PullNone, PullHead, PullBadType, PullNullBody, PullDiffSize,
           PullAccept, Receive, PullPost, TrSendNext, evsock_push_relay, RelayBadRoute,
           RelayUnroutable, RelayFails, RelayAccepted, evsock_router_err_reply, SocketEvent,
           vars, recvVars
    <2>2. rpc = "read" /\ cur \in Contexts /\ ctx[cur].of = 0 /\ Holding
      BY <2>1, CurBusy DEF Fresh, Holding
    <2>3. CASE RelayBadRoute \/ RelayUnroutable
      <3>1. PICK code \in {"ROUTE_TYPE", "TO_ROUTE"} : NextIs("push_relay") /\ RelayFails(code)
        BY <2>3, FailCode
      <3>2. code \in zmsg_resp_t /\ arg # cur
        BY <2>2, <3>1, HeadBusy DEF zmsg_resp_t
      <3> QED BY <2>1, <2>2, <3>1, <3>2, FailMarks
    <2>4. CASE ~(RelayBadRoute \/ RelayUnroutable)
      <3>1. UNCHANGED ctx
        BY <1>2, <2>1, <2>2, <2>4
           DEF Next, Client, Push, Connect, MgntPost, TrRecvStep, evsock_pull_read, PullWake,
           PullTry, StartScan, PullScan, SkipOccupied, PullNone, PullHead, PullBadType,
           PullNullBody, PullDiffSize, PullAccept, Receive, PullPost, TrSendNext,
           evsock_push_relay, RelayAccepted, evsock_router_err_reply, SocketEvent, vars, poolVars
      <3> QED BY <2>1, <2>2, <3>1
    <2> QED BY <2>3, <2>4
  <1> QED BY <1>1, <1>2
-----------------------------------------------------------------------------
(* Where each message is. *)

\* Every step keeps each message in its one place.
LEMMA PlacesStep == IInv /\ Fresh /\ Places /\ [Next]_vars => Places'
  <1> SUFFICES ASSUME IInv, Fresh, Places, [Next]_vars PROVE Places'
    OBVIOUS
  <1>0. /\ TypeOK /\ NReceived \in Nat /\ busy \subseteq Contexts
        /\ \A k \in DOMAIN wire : wire[k].of \in Received
    BY Counts DEF IInv, WireReceived, TypeOK
  <1>1. CASE NothingMoves
    BY <1>1 DEF NothingMoves, Places, Received
  <1>2. CASE Taken
    <2>1. PICK c \in Contexts \ busy :
            /\ busy' = busy \cup {c} /\ ctx'[c].of = 0
            /\ \A d \in busy : ctx'[d] = ctx[d]
            /\ wire' = wire /\ Received' = Received
      BY <1>2 DEF Taken, Received
    <2>2. \A k \in DOMAIN wire : wire[k].of # 0
      BY <1>0 DEF Received
    <2> QED BY <2>1, <2>2 DEF Places
  <1>3. CASE GivenBack
    <2>1. PICK c \in busy :
            /\ busy' = busy \ {c} /\ ctx[c].of = 0 /\ ctx' = ctx
            /\ wire' = wire /\ Received' = Received
      BY <1>3 DEF GivenBack, Received
    <2>2. \A i \in Received : i # 0
      BY DEF Received
    <2> QED BY <2>1, <2>2 DEF Places
  <1>4. CASE GotMessage
    <2> DEFINE n == NReceived + 1
    <2>1. PICK c \in busy :
            /\ ctx[c].of = 0 /\ ctx'[c].of = n
            /\ \A d \in busy : d # c => ctx'[d] = ctx[d]
            /\ busy' = busy /\ wire' = wire /\ NReceived' = n
      BY <1>4 DEF GotMessage
    <2>2. Received' = Received \cup {n} /\ n \notin Received /\ n # 0 /\ 0 \notin Received
      BY <1>0, <2>1 DEF Received
    <2> HIDE DEF n
    <2>3. \A d \in busy : d # c => ctx[d].of # n
      BY <2>2 DEF Places
    <2>4. \A k \in DOMAIN wire : wire[k].of # n
      BY <1>0, <2>2
    <2> QED BY <2>1, <2>2, <2>3, <2>4 DEF Places
  <1>5. CASE SentOff
    <2>0. PICK c \in busy : \E w :
            /\ wire' = Append(wire, w) /\ w.of = ctx[c].of /\ ctx[c].of \in Received
            /\ busy' = busy \ {c} /\ ctx' = ctx /\ Received' = Received
      BY <1>5 DEF SentOff, Received
    <2>1. PICK w :
            /\ wire' = Append(wire, w) /\ w.of = ctx[c].of /\ ctx[c].of \in Received
            /\ busy' = busy \ {c} /\ ctx' = ctx /\ Received' = Received
      BY <2>0
    <2> DEFINE n == Len(wire) + 1
    <2>2. /\ n \in DOMAIN wire' /\ wire'[n] = w
          /\ \A k \in DOMAIN wire : k \in DOMAIN wire' /\ wire'[k] = wire[k]
          /\ \A k \in DOMAIN wire' : k = n \/ (k \in DOMAIN wire /\ wire'[k] = wire[k])
      BY <1>0, <2>1, AfterSend
    <2> HIDE DEF n
    <2>3. \A i \in Received : i # 0
      BY DEF Received
    <2>4. \A d \in busy' : ctx'[d].of # w.of
      BY <2>1, <2>3 DEF Places
    <2>5. \A k \in DOMAIN wire : wire[k].of # w.of
      BY <2>1 DEF Places
    <2> QED BY <2>1, <2>2, <2>4, <2>5 DEF Places
  <1> QED BY <1>1, <1>2, <1>3, <1>4, <1>5, Moves

\* The places as the run counts them.
LEMMA PlacesCounted == TypeOK /\ Places => ExactlyOnce
  <1> SUFFICES ASSUME TypeOK, Places, NEW i \in Received
               PROVE  Cardinality({c \in busy : ctx[c].of = i})
                        + Cardinality({k \in DOMAIN wire : wire[k].of = i}) = 1
    BY DEF ExactlyOnce
  <1> DEFINE C == {c \in busy : ctx[c].of = i}  W == {k \in DOMAIN wire : wire[k].of = i}
  <1>1. i # 0
    BY DEF Received
  <1>2. (C = {} /\ \E k : W = {k}) \/ (W = {} /\ \E c : C = {c})
    <2>1. CASE C = {}
      <3>1. PICK k \in DOMAIN wire : wire[k].of = i
        BY <2>1 DEF Places
      <3>2. W = {k}
        BY <3>1 DEF Places
      <3> QED BY <2>1, <3>2
    <2>2. CASE C # {}
      <3>1. PICK c \in busy : ctx[c].of = i
        BY <2>2
      <3>2. C = {c} /\ W = {}
        BY <1>1, <3>1 DEF Places
      <3> QED BY <3>2
    <2> QED BY <2>1, <2>2
  <1> SUFFICES Cardinality(C) + Cardinality(W) = 1
    OBVIOUS
  <1> HIDE DEF C, W
  <1>3. ASSUME NEW S, NEW k, S = {k} PROVE Cardinality(S) = 1
    BY <1>3, FS_Singleton
  <1>4. Cardinality({}) = 0
    BY FS_EmptySet
  <1>5. (Cardinality(C) = 0 /\ Cardinality(W) = 1) \/ (Cardinality(W) = 0 /\ Cardinality(C) = 1)
    BY <1>2, <1>3, <1>4, Zenon
  <1> QED BY <1>5

-----------------------------------------------------------------------------
(* The scan for a free context. *)

\* The N slots from CURR_POS on, round the end of the pool, are all of them.
LEMMA ScanCovers ==
  ASSUME TypeOK, NEW s \in Slots
  PROVE  \E i \in 0 .. MAX_MSGCTX_NUM - 1 : Pos(i) = s
  <1> DEFINE n == MAX_MSGCTX_NUM  p == CURR_POS
  <1>1. n \in Nat /\ n > 1 /\ p \in 0 .. n /\ s \in 0 .. n - 1
    BY PoolAssumption DEF TypeOK, Slots
  <1>2. CASE s >= p
    <2>1. s - p \in 0 .. n - 1 /\ p + (s - p) = s
      BY <1>1, <1>2
    <2>2. s % n = s
      BY <1>1
    <2> QED BY <2>1, <2>2 DEF Pos
  <1>3. CASE s < p
    <2>1. s + n - p \in 0 .. n - 1 /\ p + (s + n - p) = s + n
      BY <1>1, <1>3
    <2>2. (s + n) % n = s
      BY <1>1
    <2> QED BY <2>1, <2>2 DEF Pos
  <1> QED BY <1>1, <1>2, <1>3

\* What a scan passes stays on record while TR_SEND frees contexts behind it.
LEMMA ScanStep == IInv /\ ScanSaw /\ [Next]_vars => ScanSaw'
  <1> SUFFICES ASSUME IInv, ScanSaw, [Next]_vars, rpc' = "scan"
               PROVE  /\ busy' \cap Slots \subseteq scanned'
                      /\ \A i \in 0 .. probe' - 1 : Pos(i)' \in scanned'
    BY DEF ScanSaw
  <1>0. TypeOK
    BY DEF IInv
  <1>1. CASE PullTry
    BY <1>1 DEF PullTry, StartScan
  <1>2. CASE PullScan
    <2>1. /\ Pos(probe) \in scanned /\ probe' = probe + 1 /\ probe \in Nat
          /\ UNCHANGED <<busy, CURR_POS, scanned>>
      <3>1. Pos(probe) \in busy /\ probe \in Nat
        BY <1>0, <1>2, PoolAssumption DEF PullScan, SkipOccupied, TypeOK
      <3>2. Pos(probe) \in Slots
        BY <1>0, <3>1, PosInSlots DEF TypeOK
      <3> QED BY <1>2, <3>1, <3>2 DEF PullScan, SkipOccupied, ScanSaw
    <2>2. \A i \in 0 .. probe' - 1 : i = probe \/ i \in 0 .. probe - 1
      BY <2>1
    <2> QED BY <1>2, <2>1, <2>2 DEF PullScan, ScanSaw, Pos
  <1>3. CASE ~PullTry /\ ~PullScan
    <2>1. rpc = "scan" /\ UNCHANGED <<CURR_POS, scanned, probe>> /\ busy' \subseteq busy
      BY <1>3 DEF Next, Client, Push, Connect, MgntPost, TrRecvStep, evsock_pull_read, PullWake,
         PullGetCtx, PullNone, PullHead, PullBadType, PullNullBody, PullDiffSize,
         PullAccept, Receive, PullPost, TrSendNext, evsock_push_relay, RelayBadRoute,
         RelayUnroutable, RelayFails, RelayAccepted, evsock_router_err_reply, free_msg_ctx,
         SocketEvent, vars, recvVars, poolVars
    <2> QED BY <2>1 DEF ScanSaw, Pos
  <1> QED BY <1>1, <1>2, <1>3

\* A scan that went once round the pool found all of it occupied at its start.
LEMMA ScanExhausts == TypeOK /\ ScanSaw => MallocMeansExhausted
  <1> SUFFICES ASSUME TypeOK, ScanSaw, rpc = "scan", probe = MAX_MSGCTX_NUM
               PROVE  scanned = Slots
    BY DEF MallocMeansExhausted
  <1>1. \A i \in 0 .. MAX_MSGCTX_NUM - 1 : Pos(i) \in scanned
    BY DEF ScanSaw
  <1>2. scanned \subseteq Slots
    BY DEF TypeOK
  <1> QED BY <1>1, <1>2, ScanCovers

-----------------------------------------------------------------------------
(* The statistics. *)

ErrorCodes == {"INVALID_TYPE", "NULL_RECV", "DIFF_RECV", "ROUTE_TYPE", "TO_ROUTE"}

NothingCounted == UNCHANGED <<stat, reasons, NReceived, ToRelay>>

Attempted ==
  /\ stat' = [stat EXCEPT !["att"] = @ + 1] /\ UNCHANGED reasons
  /\ NReceived' = NReceived + 1
  /\ \E c : c \notin ToRelay /\ ToRelay' = ToRelay \cup {c}

RejectedAtOnce ==
  /\ \E code \in ErrorCodes : StatInc({"att", "fail"}, code)
  /\ NReceived' = NReceived + 1 /\ ToRelay' = ToRelay

RelayEnded ==
  /\ NReceived' = NReceived
  /\ \E c \in ToRelay : ToRelay' = ToRelay \ {c}
  /\ \/ StatInc({"succ"}, "OK")
     \/ \E code \in ErrorCodes : StatInc({"fail"}, code)

\* What TR_RECV counts for a message depends on the event it is about to post.
LEMMA HeadCounts ==
  ASSUME PullHead
  PROVE  \/ rpc' = "push_relay" /\ stat' = [stat EXCEPT !["att"] = @ + 1] /\ UNCHANGED reasons
         \/ /\ rpc' = "router_err_reply"
            /\ \E code \in ErrorCodes : StatInc({"att", "fail"}, code)
BY DEF PullHead, PullBadType, PullNullBody, PullDiffSize, PullAccept, Receive, ErrorCodes

\* The head of a context in use decides whether it is still to be relayed.
LEMMA ToRelaySame ==
  ASSUME UNCHANGED busy,
         \A c \in busy : ctx'[c].of = ctx[c].of /\ ctx'[c].resp_code = ctx[c].resp_code
  PROVE  ToRelay' = ToRelay
BY DEF ToRelay

\* Every step counts in one of four ways.
LEMMA StatMoves ==
  ASSUME IInv, Fresh, [Next]_vars
  PROVE  NothingCounted \/ Attempted \/ RejectedAtOnce \/ RelayEnded
  <1>0. TypeOK /\ QueueIsRest /\ ContextsReady
    BY DEF IInv
  <1>a. pull \in ZSockOf(Nat) /\ busy \subseteq Contexts
    BY <1>0 DEF TypeOK
  <1>b. ASSUME UNCHANGED msgs, pull'.q = pull.q PROVE NReceived' = NReceived
    BY <1>b DEF NReceived
  <1>c. ASSUME UNCHANGED <<busy, ctx>> PROVE ToRelay' = ToRelay
    BY <1>c DEF ToRelay
  <1>1. ASSUME NEW m \in Envelopes, Push(m) PROVE NothingCounted
    BY <1>0, <1>1, <1>c, CountsAfterPush, EnvelopesAssumption
       DEF NothingCounted, Push, poolVars, statVars
  <1>2. CASE Connect \/ PullWake \/ PullTry
    <2>1. pull'.q = pull.q
      BY <1>a, <1>2 DEF Connect, Attach, PullWake, ReadEvents, PullTry,
           zsock_drain_remain_part, ZSockOf
    <2> QED BY <1>b, <1>c, <1>2, <2>1
            DEF Connect, PullWake, PullTry, StartScan, NothingCounted, poolVars, statVars
  <1>3. CASE PullScan \/ PullPost \/ MgntPost \/ SocketEvent \/ UNCHANGED vars
    <2>1. UNCHANGED <<msgs, pull, busy, ctx, stat, reasons>>
      BY <1>3 DEF PullScan, SkipOccupied, PullPost, MgntPost, SocketEvent, vars, recvVars,
                  poolVars, statVars
    <2> QED BY <1>b, <1>c, <2>1 DEF NothingCounted
  <1>4. CASE PullGetCtx
    <2>1. NReceived' = NReceived
      BY <1>b, <1>4, TakenFresh
    <2>2. ToRelay' = ToRelay
      BY <1>a, <1>4, TakenFresh DEF ToRelay
    <2> QED BY <1>4, <2>1, <2>2, TakenFresh DEF NothingCounted, statVars
  <1>5. CASE PullNone
    <2>1. pull'.q = pull.q
      BY <1>a, <1>5 DEF PullNone, Again, ZSockOf
    <2>2. ToRelay' = ToRelay
      BY <1>5 DEF PullNone, Fresh, free_msg_ctx, ToRelay
    <2> QED BY <1>b, <1>5, <2>1, <2>2 DEF PullNone, NothingCounted, statVars
  <1>6. CASE PullHead
    <2>1. PICK k \in {1, 2}, d \in Context, h \in {"push_relay", "router_err_reply"} :
            Filled(k, d, h)
      BY <1>0, <1>6, HeadFills
    <2>2. NReceived' = NReceived + 1 /\ Head(pull.q) # 0
      <3>1. NReceived' = NReceived + 1 /\ Head(pull.q) = NReceived + 1 /\ NReceived \in Nat
        BY <1>0, <2>1, CountsAfterReceive, Counts DEF Filled, Receive
      <3> QED BY <3>1
    <2>3. cur \in busy /\ ctx[cur].of = 0
      BY <2>1, CurBusy DEF Filled, Holding, Fresh
    <2>4. ctx' = [ctx EXCEPT ![cur] = d] /\ d.of # 0 /\ UNCHANGED busy /\ rpc' = h
      BY <2>1, <2>2 DEF Filled, Receive
    <2>5. ctx'[cur] = d /\ \A c \in busy : c # cur => ctx'[c] = ctx[c]
      BY <1>0, <1>a, <2>3, <2>4 DEF TypeOK
    <2>6. cur \notin ToRelay
      BY <2>3 DEF ToRelay
    <2>7. CASE h = "push_relay"
      <3>1. d.resp_code = "OK"
        BY <2>1, <2>7 DEF Filled
      <3>2. ToRelay' = ToRelay \cup {cur}
        BY <2>3, <2>4, <2>5, <3>1 DEF ToRelay
      <3> QED BY <1>6, <2>2, <2>4, <2>6, <2>7, <3>2, HeadCounts DEF Attempted
    <2>8. CASE h = "router_err_reply"
      <3>1. d.resp_code # "OK"
        BY <2>1, <2>8 DEF Filled
      <3>2. ToRelay' = ToRelay
        BY <2>3, <2>4, <2>5, <3>1 DEF ToRelay
      <3> QED BY <1>6, <2>2, <2>4, <2>8, <3>2, HeadCounts DEF RejectedAtOnce
    <2> QED BY <2>7, <2>8
  <1>7. ASSUME NextIs("push_relay") PROVE arg \in ToRelay
    <2>1. ctx[arg].resp_code = "OK" /\ ctx[arg].of # 0 /\ arg \in busy
      BY <1>7, HeadBusy DEF ReadyFor, NextIs, Received
    <2> QED BY <2>1 DEF ToRelay
  <1>8. CASE RelayBadRoute \/ RelayUnroutable
    <2>1. PICK code \in {"ROUTE_TYPE", "TO_ROUTE"} : NextIs("push_relay") /\ RelayFails(code)
      BY <1>8, FailCode
    <2>2. code \in zmsg_resp_t /\ code # "OK" /\ code \in ErrorCodes
      BY DEF zmsg_resp_t, ErrorCodes
    <2>3. /\ ctx'[arg].resp_code = code /\ \A c \in Contexts : c # arg => ctx'[c] = ctx[c]
          /\ UNCHANGED <<recvVars, busy>>
      BY <2>1, <2>2, FailMarks
    <2>4. ToRelay' = ToRelay \ {arg}
      BY <1>a, <2>2, <2>3 DEF ToRelay
    <2>5. NReceived' = NReceived
      BY <1>b, <2>3 DEF recvVars
    <2> QED BY <1>7, <2>1, <2>2, <2>4, <2>5 DEF RelayFails, RelayEnded
  <1>9. CASE RelayAccepted
    <2>1. ToRelay' = ToRelay \ {arg}
      BY <1>9 DEF RelayAccepted, free_msg_ctx, ToRelay
    <2>2. NReceived' = NReceived
      BY <1>b, <1>9 DEF RelayAccepted, recvVars
    <2> QED BY <1>7, <1>9, <2>1, <2>2 DEF RelayAccepted, RelayEnded
  <1>10. CASE evsock_router_err_reply
    <2>1. NextIs("router_err_reply") /\ busy' = busy \ {arg} /\ UNCHANGED <<recvVars, ctx, statVars>>
      BY <1>10, ReplyEnds
    <2>2. arg \notin ToRelay
      BY <2>1, HeadBusy DEF ReadyFor, NextIs, ToRelay
    <2>3. ToRelay' = ToRelay
      BY <2>1, <2>2 DEF ToRelay
    <2> QED BY <1>b, <2>1, <2>3 DEF NothingCounted, recvVars, statVars
  <1> QED BY <1>1, <1>2, <1>3, <1>4, <1>5, <1>6, <1>8, <1>9, <1>10
          DEF Next, Client, TrRecvStep, evsock_pull_read, TrSendNext, evsock_push_relay

\* STAT_INC, counter by counter.
LEMMA Incremented ==
  ASSUME TypeOK, NEW which \in SUBSET {"att", "succ", "fail"}, NEW code \in zmsg_resp_t,
         StatInc(which, code)
  PROVE  /\ \A s \in {"att", "succ", "fail"} :
              stat'[s] = IF s \in which THEN stat[s] + 1 ELSE stat[s]
         /\ reasons'[code] = reasons[code] + 1
         /\ \A r \in zmsg_resp_t : r # code => reasons'[r] = reasons[r]
BY DEF StatInc, TypeOK

\* The pool in use stays finite, so that its contexts can be counted.
LEMMA FiniteStep == IInv /\ Fresh /\ IsFiniteSet(busy) /\ [Next]_vars => IsFiniteSet(busy')
  <1> SUFFICES ASSUME IInv, Fresh, IsFiniteSet(busy), [Next]_vars PROVE IsFiniteSet(busy')
    OBVIOUS
  <1>1. busy' = busy \/ (\E c : busy' = busy \cup {c}) \/ (\E c : busy' = busy \ {c})
    BY Moves DEF NothingMoves, Taken, GivenBack, GotMessage, SentOff
  <1>2. ASSUME NEW c PROVE IsFiniteSet(busy \cup {c}) /\ IsFiniteSet(busy \ {c})
    BY FS_AddElement, FS_RemoveElement
  <1> QED BY <1>1, <1>2

\* The reasons given for failures.
Failures ==
  reasons["INVALID_TYPE"] + reasons["NULL_RECV"] + reasons["DIFF_RECV"]
    + reasons["ROUTE_TYPE"] + reasons["TO_ROUTE"]

\* A failure counted gives one reason, which is not OK.
LEMMA FailureCounted ==
  ASSUME TypeOK, NEW code \in ErrorCodes, NEW which \in SUBSET {"att", "succ", "fail"},
         StatInc(which, code)
  PROVE  Failures' = Failures + 1 /\ reasons'["OK"] = reasons["OK"]
  <1>1. \A r \in zmsg_resp_t : reasons[r] \in Nat
    BY DEF TypeOK
  <1>2. code \in zmsg_resp_t /\ code # "OK"
    BY DEF ErrorCodes, zmsg_resp_t
  <1>3. /\ reasons'[code] = reasons[code] + 1
        /\ \A r \in zmsg_resp_t : r # code => reasons'[r] = reasons[r]
    BY <1>2, Incremented
  <1>4. CASE code = "INVALID_TYPE"
    BY <1>1, <1>3, <1>4 DEF Failures, zmsg_resp_t
  <1>5. CASE code = "NULL_RECV"
    BY <1>1, <1>3, <1>5 DEF Failures, zmsg_resp_t
  <1>6. CASE code = "DIFF_RECV"
    BY <1>1, <1>3, <1>6 DEF Failures, zmsg_resp_t
  <1>7. CASE code = "ROUTE_TYPE"
    BY <1>1, <1>3, <1>7 DEF Failures, zmsg_resp_t
  <1>8. CASE code = "TO_ROUTE"
    BY <1>1, <1>3, <1>8 DEF Failures, zmsg_resp_t
  <1>9. reasons'["OK"] = reasons["OK"]
    BY <1>2, <1>3 DEF zmsg_resp_t
  <1> QED BY <1>4, <1>5, <1>6, <1>7, <1>8, <1>9 DEF ErrorCodes

\* Every step keeps the statistics balanced.
LEMMA StatStep ==
  IInv /\ Fresh /\ IsFiniteSet(busy) /\ StatBalance /\ [Next]_vars => StatBalance'
  <1> SUFFICES ASSUME IInv, Fresh, IsFiniteSet(busy), StatBalance, [Next]_vars
               PROVE  StatBalance'
    OBVIOUS
  <1>0. TypeOK
    BY DEF IInv
  <1>1. IsFiniteSet(ToRelay)
    BY FS_Subset DEF ToRelay
  <1> DEFINE n == Cardinality(ToRelay)
  <1>2. n \in Nat
    BY <1>1, FS_CardinalityType
  <1>3. /\ \A s \in {"att", "succ", "fail"} : stat[s] \in Nat
        /\ \A r \in zmsg_resp_t : reasons[r] \in Nat
        /\ ErrorCodes \cup {"OK"} = zmsg_resp_t
    BY <1>0 DEF TypeOK, ErrorCodes, zmsg_resp_t
  <1>4. NReceived \in Nat
    BY Counts DEF IInv
  <1>5. CASE NothingCounted
    BY <1>5 DEF NothingCounted, StatBalance
  <1>6. CASE Attempted
    <2>1. n' = n + 1
      BY <1>1, <1>6, FS_AddElement DEF Attempted
    <2>2. stat'["att"] = stat["att"] + 1 /\ stat'["succ"] = stat["succ"]
          /\ stat'["fail"] = stat["fail"] /\ reasons' = reasons /\ NReceived' = NReceived + 1
      BY <1>0, <1>6 DEF Attempted, TypeOK
    <2> HIDE DEF n
    <2>3. stat'["att"] = stat'["succ"] + stat'["fail"] + n'
      BY <1>2, <1>3, <2>1, <2>2 DEF StatBalance, n
    <2> QED BY <2>2, <2>3 DEF StatBalance, n
  <1>7. CASE RejectedAtOnce
    <2>1. PICK code \in ErrorCodes : StatInc({"att", "fail"}, code)
      BY <1>7 DEF RejectedAtOnce
    <2>2. /\ stat'["att"] = stat["att"] + 1 /\ stat'["succ"] = stat["succ"]
          /\ stat'["fail"] = stat["fail"] + 1
      BY <1>0, <1>3, <2>1, Incremented
    <2>3. Failures' = Failures + 1 /\ reasons'["OK"] = reasons["OK"]
      BY <1>0, <2>1, FailureCounted
    <2>4. NReceived' = NReceived + 1 /\ n' = n
      BY <1>7 DEF RejectedAtOnce
    <2> HIDE DEF n
    <2>5. stat'["att"] = stat'["succ"] + stat'["fail"] + n'
      BY <1>2, <1>3, <2>2, <2>4 DEF StatBalance, n
    <2> QED BY <2>2, <2>3, <2>4, <2>5 DEF StatBalance, Failures, n
  <1>8. CASE RelayEnded
    <2>1. n' = n - 1
      BY <1>1, <1>8, FS_RemoveElement DEF RelayEnded
    <2>2. NReceived' = NReceived
      BY <1>8 DEF RelayEnded
    <2> HIDE DEF n
    <2>3. CASE StatInc({"succ"}, "OK")
      <3>1. /\ stat'["att"] = stat["att"] /\ stat'["succ"] = stat["succ"] + 1
            /\ stat'["fail"] = stat["fail"]
        BY <1>0, <2>3, Incremented DEF zmsg_resp_t
      <3>2. /\ reasons'["OK"] = reasons["OK"] + 1
            /\ \A r \in ErrorCodes : reasons'[r] = reasons[r]
        BY <1>0, <2>3, Incremented DEF ErrorCodes, zmsg_resp_t
      <3>3. Failures' = Failures
        BY <3>2 DEF Failures, ErrorCodes
      <3>4. stat'["att"] = stat'["succ"] + stat'["fail"] + n'
        BY <1>2, <1>3, <2>1, <3>1 DEF StatBalance, n
      <3> QED BY <2>2, <3>1, <3>2, <3>3, <3>4 DEF StatBalance, Failures, n
    <2>4. ASSUME NEW code \in ErrorCodes, StatInc({"fail"}, code) PROVE StatBalance'
      <3>1. /\ stat'["att"] = stat["att"] /\ stat'["succ"] = stat["succ"]
            /\ stat'["fail"] = stat["fail"] + 1
        BY <1>0, <1>3, <2>4, Incremented
      <3>2. Failures' = Failures + 1 /\ reasons'["OK"] = reasons["OK"]
        BY <1>0, <2>4, FailureCounted
      <3>3. stat'["att"] = stat'["succ"] + stat'["fail"] + n'
        BY <1>2, <1>3, <2>1, <3>1 DEF StatBalance, n
      <3> QED BY <2>2, <3>1, <3>2, <3>3 DEF StatBalance, Failures, n
    <2> QED BY <1>8, <2>3, <2>4 DEF RelayEnded
  <1> QED BY <1>5, <1>6, <1>7, <1>8, StatMoves

-----------------------------------------------------------------------------
(* The theorems. *)

\* Initially there is no message and no scan.
LEMMA PlacesInit == Init => Fresh /\ Places /\ ScanSaw
  <1> SUFFICES ASSUME Init PROVE Fresh /\ Places /\ ScanSaw
    OBVIOUS
  <1>1. rpc = "wait" /\ busy = {} /\ wire = << >>
    BY DEF Init, InitRecv, InitPool
  <1>2. Received = {}
    BY DEF Init, InitRecv, NReceived, Received
  <1> QED BY <1>1, <1>2 DEF Fresh, Places, ScanSaw

\* The places, with the invariant they need.
THEOREM PlacesInvariant == Spec => [](Fresh /\ Places /\ ScanSaw)
  <1>1. IInv /\ Fresh /\ Places /\ ScanSaw /\ [Next]_vars => Fresh' /\ Places' /\ ScanSaw'
    BY FreshStep, PlacesStep, ScanStep
  <1> QED BY PlacesInit, RelayInvariant, <1>1, PTL DEF Spec

\* A received message is in one context or was sent once: it is neither lost
\* nor sent twice, for pools of any size and any number of messages.
THEOREM OnePlace == Spec => []ExactlyOnce
  <1>1. IInv /\ Fresh /\ Places /\ ScanSaw => ExactlyOnce
    BY PlacesCounted DEF IInv
  <1> QED BY RelayInvariant, PlacesInvariant, <1>1, PTL

\* get_msg_ctx mallocs only when every slot was taken as its scan began, even
\* though TR_SEND frees contexts while it scans.
THEOREM MallocNeedsFullPool == Spec => []MallocMeansExhausted
  <1>1. IInv /\ Fresh /\ Places /\ ScanSaw => MallocMeansExhausted
    BY ScanExhausts DEF IInv
  <1> QED BY RelayInvariant, PlacesInvariant, <1>1, PTL

\* The statistics add up at every step, not only when the broker is at rest:
\* what was attempted and neither succeeded nor failed is still to be relayed.
THEOREM StatisticsAddUp == Spec => []StatBalance
  <1>1. Init => IsFiniteSet(busy) /\ StatBalance
    <2> SUFFICES ASSUME Init PROVE IsFiniteSet(busy) /\ StatBalance
      OBVIOUS
    <2>1. busy = {} /\ ToRelay = {}
      BY DEF Init, InitPool, ToRelay
    <2>2. IsFiniteSet(busy) /\ Cardinality(ToRelay) = 0
      BY <2>1, FS_EmptySet
    <2>3. NReceived = 0
      BY DEF Init, InitRecv, FreshZSock, NReceived
    <2> QED BY <2>2, <2>3 DEF StatBalance, Init, InitRecv, zmsg_resp_t
  <1>2. IInv /\ Fresh /\ Places /\ ScanSaw /\ IsFiniteSet(busy) /\ StatBalance /\ [Next]_vars
        => IsFiniteSet(busy)' /\ StatBalance'
    BY FiniteStep, StatStep
  <1> QED BY <1>1, <1>2, RelayInvariant, PlacesInvariant, PTL DEF Spec

-----------------------------------------------------------------------------
(***************************************************************************)
(* The relay path keeps what module Delivery promises, step by step and    *)
(* for every value of the constants: each step receives the next message,  *)
(* decides on the oldest accepted one, ends a rejected one, or leaves the  *)
(* fate of every message alone.  (That it goes on doing so is liveness,    *)
(* which the run that checks KeepsPromise shows.)                          *)
(***************************************************************************)

MsgFate == [i \in DOMAIN msgs |-> FateOf(i)]

\* FateOf, of the wire W, the received R, the busy contexts B and their heads C.
FateAt(W, R, B, C, i) ==
  IF \E k \in DOMAIN W : W[k].of = i
  THEN W[CHOOSE k \in DOMAIN W : W[k].of = i].fate
  ELSE IF i \notin R THEN "queued"
  ELSE IF \E c \in B : C[c].of = i /\ C[c].resp_code = "OK"
  THEN "accepted" ELSE "rejected"

Code(c) == IF c.resp_code = "OK" THEN "accepted" ELSE "rejected"

\* Where a message is decides its fate.
LEMMA FateIs ==
  ASSUME NEW W, NEW R, NEW B, NEW C, NEW i, i # 0,
         \A k \in DOMAIN W : W[k].of \in R,
         \A j, k \in DOMAIN W : W[j].of = W[k].of => j = k,
         \A c \in B, k \in DOMAIN W : W[k].of # C[c].of,
         \A c, d \in B : C[c].of = C[d].of /\ C[c].of # 0 => c = d
  PROVE  /\ \A k \in DOMAIN W : W[k].of = i => FateAt(W, R, B, C, i) = W[k].fate
         /\ i \notin R => FateAt(W, R, B, C, i) = "queued"
         /\ \A c \in B : C[c].of = i /\ i \in R => FateAt(W, R, B, C, i) = Code(C[c])
  <1>1. ASSUME NEW k \in DOMAIN W, W[k].of = i PROVE FateAt(W, R, B, C, i) = W[k].fate
    <2>1. (CHOOSE j \in DOMAIN W : W[j].of = i) = k
      BY <1>1
    <2> QED BY <1>1, <2>1 DEF FateAt
  <1>2. i \notin R => FateAt(W, R, B, C, i) = "queued"
    BY DEF FateAt
  <1>3. ASSUME NEW c \in B, C[c].of = i, i \in R PROVE FateAt(W, R, B, C, i) = Code(C[c])
    <2>1. \A k \in DOMAIN W : W[k].of # i
      BY <1>3
    <2>2. \A d \in B : C[d].of = i => d = c
      BY <1>3
    <2> QED BY <1>3, <2>1, <2>2 DEF FateAt, Code
  <1> QED BY <1>1, <1>2, <1>3

\* The same, of the state before a step.
LEMMA FateNow ==
  ASSUME WireReceived, Places, NEW i \in Nat \ {0}
  PROVE  /\ \A k \in DOMAIN wire : wire[k].of = i => FateOf(i) = wire[k].fate
         /\ i \notin Received => FateOf(i) = "queued"
         /\ \A c \in busy : ctx[c].of = i /\ i \in Received => FateOf(i) = Code(ctx[c])
  <1>1. FateOf(i) = FateAt(wire, Received, busy, ctx, i)
    BY DEF FateOf, FateAt
  <1> QED BY <1>1, FateIs DEF WireReceived, Places

\* And of the state after it.
LEMMA FateThen ==
  ASSUME WireReceived', Places', NEW i \in Nat \ {0}
  PROVE  /\ \A k \in DOMAIN wire' : wire'[k].of = i => FateOf(i)' = wire'[k].fate
         /\ i \notin Received' => FateOf(i)' = "queued"
         /\ \A c \in busy' : ctx'[c].of = i /\ i \in Received' => FateOf(i)' = Code(ctx'[c])
  <1>1. FateOf(i)' = FateAt(wire', Received', busy', ctx', i)
    BY DEF FateOf, FateAt
  <1> QED BY <1>1, FateIs DEF WireReceived, Places

\* A fate changes only if the message moves, or the code of its context does.
LEMMA FateKept ==
  ASSUME WireReceived, WireReceived', Places, Places', NEW i \in Nat \ {0},
         \/ \E k \in DOMAIN wire : wire[k].of = i /\ k \in DOMAIN wire' /\ wire'[k] = wire[k]
         \/ i \notin Received /\ i \notin Received'
         \/ /\ i \in Received /\ i \in Received'
            /\ \E c \in busy : /\ c \in busy' /\ ctx[c].of = i /\ ctx'[c].of = i
                               /\ ctx'[c].resp_code = ctx[c].resp_code
  PROVE  FateOf(i)' = FateOf(i)
  <1>1. CASE \E k \in DOMAIN wire : wire[k].of = i /\ k \in DOMAIN wire' /\ wire'[k] = wire[k]
    BY <1>1, FateNow, FateThen
  <1>2. CASE i \notin Received /\ i \notin Received'
    BY <1>2, FateNow, FateThen
  <1>3. CASE /\ i \in Received /\ i \in Received'
             /\ \E c \in busy : /\ c \in busy' /\ ctx[c].of = i /\ ctx'[c].of = i
                                /\ ctx'[c].resp_code = ctx[c].resp_code
    BY <1>3, FateNow, FateThen DEF Code
  <1> QED BY <1>1, <1>2, <1>3

\* Only what was accepted and still waits has the fate accepted, and so on.
LEMMA FateTells ==
  ASSUME IInv, Places, NEW i \in Nat \ {0}
  PROVE  /\ FateOf(i) = "queued" <=> i \notin Received
         /\ FateOf(i) = "accepted" =>
              \E c \in busy : ctx[c].of = i /\ ctx[c].resp_code = "OK"
  <1>0. WireReceived /\ \A k \in DOMAIN wire : wire[k].fate \in {"relayed", "answered", "lost"}
    <2>1. \A w \in Wire : w.fate \in {"relayed", "answered", "lost"}
      BY DEF Wire
    <2>2. wire \in Seq(Wire)
      BY DEF IInv, TypeOK
    <2>3. \A k \in DOMAIN wire : wire[k] \in Wire
      BY <2>2
    <2> QED BY <2>1, <2>3 DEF IInv
  <1>1. CASE i \notin Received
    BY <1>0, <1>1, FateNow
  <1>2. CASE \E k \in DOMAIN wire : wire[k].of = i
    BY <1>0, <1>2, FateNow DEF WireReceived
  <1>3. CASE i \in Received /\ ~\E k \in DOMAIN wire : wire[k].of = i
    <2>1. PICK c \in busy : ctx[c].of = i
      BY <1>3 DEF Places
    <2>2. FateOf(i) = Code(ctx[c])
      BY <1>0, <1>3, <2>1, FateNow
    <2> QED BY <1>3, <2>1, <2>2 DEF Code
  <1> QED BY <1>1, <1>2, <1>3

-----------------------------------------------------------------------------
(* What each step does to the fates. *)

\* The messages that arrived, and those of them that were received.
LEMMA Arrived ==
  ASSUME IInv
  PROVE  /\ Len(msgs) \in Nat /\ DOMAIN msgs = 1 .. Len(msgs) /\ NReceived \in Nat
         /\ Received = 1 .. NReceived /\ NReceived <= Len(msgs)
         /\ DOMAIN msgs \subseteq Nat \ {0} /\ Received \subseteq DOMAIN msgs
  <1>1. msgs \in Seq(envelop_t) /\ pull.q \in Seq(Nat) /\ QueueIsRest
    BY DEF IInv, TypeOK, ZSockOf
  <1>2. Len(msgs) \in Nat /\ DOMAIN msgs = 1 .. Len(msgs) /\ Len(pull.q) \in Nat
    BY <1>1, LenProperties
  <1>3. NReceived \in Nat /\ NReceived <= Len(msgs)
    BY <1>1, <1>2 DEF QueueIsRest, NReceived
  <1> QED BY <1>2, <1>3 DEF Received

\* One fate changes.
LEMMA OneBecomes ==
  ASSUME NEW n \in DOMAIN msgs, NEW f, UNCHANGED msgs, FateOf(n)' = f,
         \A i \in DOMAIN msgs : i # n => FateOf(i)' = FateOf(i)
  PROVE  MsgFate' = [MsgFate EXCEPT ![n] = f]
BY DEF MsgFate

\* No fate changes.
LEMMA NoneBecomes ==
  ASSUME UNCHANGED msgs, \A i \in DOMAIN msgs : FateOf(i)' = FateOf(i)
  PROVE  MsgFate' = MsgFate
BY DEF MsgFate

\* The message whose turn it is in TR_SEND is the first of those accepted.
LEMMA HeadIsFirst ==
  ASSUME IInv, Fresh, Places, NextIs("push_relay")
  PROVE  /\ ctx[arg].of \in DOMAIN msgs /\ FateOf(ctx[arg].of) = "accepted"
         /\ \A j \in DOMAIN msgs : FateOf(j) = "accepted" => ctx[arg].of <= j
  <1> DEFINE i == ctx[arg].of
  <1>0. TypeOK /\ QueueIsRest /\ ContextsReady /\ ContextOwnership /\ QueueOrder /\ WireReceived
    BY DEF IInv
  <1>1. i \in Received /\ arg \in busy /\ ctx[arg].resp_code = "OK" /\ i \in DOMAIN msgs
    BY HeadBusy, Arrived DEF ReadyFor, NextIs
  <1>2. FateOf(i) = "accepted"
    BY <1>0, <1>1, Arrived, FateNow DEF Code
  <1>3. 1 \in ToRelayAt /\ sendq[1].arg = arg
    BY <1>0 DEF NextIs, ToRelayAt, arg, TypeOK
  <1>4. ASSUME NEW j \in DOMAIN msgs, FateOf(j) = "accepted" PROVE i <= j
    <2>1. PICK c \in busy : ctx[c].of = j /\ ctx[c].resp_code = "OK"
      BY <1>4, Arrived, FateTells
    <2>2. j # 0 /\ i \in Nat /\ j \in Nat /\ i <= NReceived /\ NReceived \in Nat
      BY <1>1, Arrived
    <2>3. CASE c \in Held
      <3>1. Posting
        BY <2>1, <2>2, <2>3 DEF Held, Holding, Fresh, Posting
      <3>2. j = NReceived
        BY <1>0, <2>1, <2>3, <3>1 DEF ContextsReady, Held
      <3> QED BY <2>2, <3>2
    <2>4. CASE c \notin Held
      <3>1. PICK k \in CtxEvents : sendq[k].arg = c
        BY <1>0, <2>4 DEF ContextOwnership
      <3>2. k \in ToRelayAt
        BY <1>0, <2>1, <3>1 DEF ContextsReady, ReadyFor, ToRelayAt, CtxEvents, IsCtxEvent
      <3>3. k \in Nat /\ k >= 1
        BY <1>0 DEF CtxEvents, TypeOK
      <3>4. CASE k = 1
        BY <1>3, <2>1, <2>2, <3>1, <3>4
      <3>5. CASE 1 < k
        BY <1>0, <1>3, <2>1, <2>2, <3>1, <3>2, <3>5 DEF QueueOrder
      <3> QED BY <3>3, <3>4, <3>5
    <2> QED BY <2>3, <2>4
  <1> QED BY <1>1, <1>2, <1>4

\* A message arrives: it is queued.
LEMMA PushArrives ==
  ASSUME IInv, IInv', Places, Places', NEW m \in Envelopes, Push(m), UNCHANGED wire
  PROVE  MsgFate' = Append(MsgFate, "queued")
  <1>0. TypeOK /\ QueueIsRest /\ WireReceived /\ WireReceived'
    BY DEF IInv
  <1>1. PICK n \in Nat : n = Len(msgs)
    BY Arrived
  <1>2. DOMAIN msgs = 1 .. n /\ NReceived \in Nat /\ NReceived <= n
        /\ NReceived' = NReceived /\ Received' = Received /\ Received = 1 .. NReceived
    BY <1>0, <1>1, Arrived, CountsAfterPush, EnvelopesAssumption DEF Received
  <1>3. DOMAIN msgs' = 1 .. n + 1
    BY <1>0, <1>1, AppendProperties, LenProperties DEF Push, TypeOK
  <1>4. UNCHANGED <<busy, ctx, wire>>
    BY DEF Push, poolVars
  <1>5. ASSUME NEW i \in 1 .. n PROVE FateOf(i)' = FateOf(i)
    BY <1>2, <1>4 DEF FateOf
  <1>6. n + 1 \in Nat \ {0} /\ n + 1 \notin Received'
    BY <1>2
  <1>7. FateOf(n + 1)' = "queued"
    BY <1>0, <1>6, FateThen
  <1>8. MsgFate' = [i \in 1 .. n + 1 |-> IF i = n + 1 THEN "queued" ELSE FateOf(i)]
    <2>1. \A i \in 1 .. n + 1 : i = n + 1 \/ i \in 1 .. n
      OBVIOUS
    <2>2. ASSUME NEW i \in 1 .. n + 1
          PROVE  FateOf(i)' = IF i = n + 1 THEN "queued" ELSE FateOf(i)
      BY <1>5, <1>7, <2>1
    <2> QED BY <1>3, <2>2 DEF MsgFate
  <1>9. MsgFate = [i \in 1 .. n |-> FateOf(i)]
    BY <1>2 DEF MsgFate
  <1>10. Append(MsgFate, "queued")
          = [i \in 1 .. n + 1 |-> IF i = n + 1 THEN "queued" ELSE FateOf(i)]
    BY <1>9
  <1> QED BY <1>8, <1>10

\* A step after which every message is where it was, with the code it had.
LEMMA QuietStep ==
  ASSUME IInv, IInv', Places, Places', UNCHANGED <<msgs, wire, NReceived>>,
         \A c \in busy : ctx[c].of # 0 =>
           c \in busy' /\ ctx'[c].of = ctx[c].of /\ ctx'[c].resp_code = ctx[c].resp_code
  PROVE  MsgFate' = MsgFate
  <1>0. WireReceived /\ WireReceived' /\ Received' = Received
    BY DEF IInv, Received
  <1>1. ASSUME NEW i \in DOMAIN msgs PROVE FateOf(i)' = FateOf(i)
    <2>1. i \in Nat \ {0}
      BY Arrived
    <2>2. CASE i \notin Received
      BY <1>0, <2>1, <2>2, FateKept
    <2>3. CASE \E k \in DOMAIN wire : wire[k].of = i
      BY <1>0, <2>1, <2>3, FateKept
    <2>4. CASE i \in Received /\ \E c \in busy : ctx[c].of = i
      BY <1>0, <2>1, <2>4, FateKept
    <2> QED BY <2>2, <2>3, <2>4 DEF Places
  <1> QED BY <1>1, NoneBecomes

\* TR_RECV receives the first of the queued messages, and accepts or rejects it.
LEMMA ReceiptStep ==
  ASSUME IInv, IInv', Fresh, Places, Places', PullHead, UNCHANGED wire
  PROVE  \E n \in DOMAIN MsgFate : Promise!ReceiptOf(n)
  <1>0. TypeOK /\ QueueIsRest /\ ContextsReady /\ WireReceived /\ WireReceived'
    BY DEF IInv
  <1>1. PICK k \in {1, 2}, d \in Context, h \in {"push_relay", "router_err_reply"} :
          Filled(k, d, h)
    BY <1>0, HeadFills
  <1>2. PICK n \in Nat : n = NReceived + 1
    BY Arrived
  <1>3. NReceived' = n /\ Head(pull.q) = n /\ UNCHANGED msgs
    BY <1>0, <1>1, <1>2, CountsAfterReceive DEF Filled, Receive
  <1>4. n # 0 /\ n \notin Received /\ n \in Received' /\ n \in DOMAIN msgs
        /\ \A i \in DOMAIN msgs : i # n => (i \in Received <=> i \in Received')
    <2>1. Received' = 1 .. n
      BY <1>3 DEF Received
    <2>2. NReceived < Len(msgs)
      <3>1. pull.q \in Seq(Nat) /\ pull.q # << >>
        BY <1>0, <1>1 DEF Filled, TypeOK, ZSockOf
      <3>2. Len(pull.q) \in Nat \ {0}
        BY <3>1
      <3> QED BY <3>2, Arrived DEF NReceived
    <2> QED BY <1>2, <2>1, <2>2, Arrived
  <1>5. cur \in busy /\ ctx[cur].of = 0
    BY <1>1, CurBusy DEF Filled, Holding, Fresh
  <1>6. ctx' = [ctx EXCEPT ![cur] = d] /\ d.of = n /\ UNCHANGED busy
    BY <1>1, <1>3 DEF Filled, Receive
  <1>7. ctx'[cur] = d /\ cur \in busy' /\ \A c \in busy : c # cur => ctx'[c] = ctx[c]
    BY <1>0, <1>5, <1>6 DEF TypeOK
  <1>8. PICK f \in {"accepted", "rejected"} : FateOf(n)' = f
    BY <1>0, <1>4, <1>6, <1>7, FateThen DEF Code
  <1>9. ASSUME NEW i \in DOMAIN msgs, i # n PROVE FateOf(i)' = FateOf(i)
    <2>1. i \in Nat \ {0}
      BY Arrived
    <2>2. CASE i \notin Received
      BY <1>0, <1>4, <1>9, <2>1, <2>2, FateKept
    <2>3. CASE \E j \in DOMAIN wire : wire[j].of = i
      BY <1>0, <2>1, <2>3, FateKept
    <2>4. CASE i \in Received /\ \E c \in busy : ctx[c].of = i
      BY <1>0, <1>4, <1>5, <1>6, <1>7, <1>9, <2>1, <2>4, FateKept
    <2> QED BY <2>2, <2>3, <2>4 DEF Places
  <1>10. MsgFate' = [MsgFate EXCEPT ![n] = f]
    BY <1>3, <1>4, <1>8, <1>9, OneBecomes
  <1>11. \A i \in DOMAIN msgs : FateOf(i) = "queued" <=> i \notin Received
    BY Arrived, FateTells
  <1>12. \A i \in DOMAIN msgs : i \notin Received => n <= i
    BY <1>2, Arrived
  <1>13. Promise!First("queued", n)
    BY <1>4, <1>11, <1>12 DEF Promise!First, Promise!Is
  <1>14. Promise!Becomes(n, f)
    BY <1>10 DEF Promise!Becomes, MsgFate
  <1> QED BY <1>4, <1>13, <1>14 DEF Promise!ReceiptOf, MsgFate

\* A relay that fails rejects the message.
LEMMA FailureStep ==
  ASSUME IInv, IInv', Fresh, Places, Places', RelayBadRoute \/ RelayUnroutable
  PROVE  \E n \in DOMAIN MsgFate : Promise!DecisionOn(n)
  <1>0. TypeOK /\ WireReceived /\ WireReceived' /\ busy \subseteq Contexts
    BY DEF IInv, TypeOK
  <1>1. PICK code \in {"ROUTE_TYPE", "TO_ROUTE"} : NextIs("push_relay") /\ RelayFails(code)
    BY FailCode
  <1>2. code \in zmsg_resp_t /\ code # "OK"
    BY DEF zmsg_resp_t
  <1>3. /\ ctx'[arg].of = ctx[arg].of /\ ctx'[arg].resp_code = code
        /\ \A c \in Contexts : c # arg => ctx'[c] = ctx[c]
        /\ UNCHANGED <<recvVars, busy, wire>>
    BY <1>1, <1>2, FailMarks
  <1>4. UNCHANGED msgs /\ NReceived' = NReceived /\ Received' = Received
    BY <1>3 DEF recvVars, NReceived, Received
  <1>5. PICK n : n = ctx[arg].of
    OBVIOUS
  <1>6. n \in DOMAIN msgs /\ n \in Nat \ {0} /\ n \in Received /\ arg \in busy
        /\ FateOf(n) = "accepted" /\ \A j \in DOMAIN msgs : FateOf(j) = "accepted" => n <= j
    BY <1>1, <1>5, HeadIsFirst, HeadBusy, Arrived
  <1>7. FateOf(n)' = "rejected"
    BY <1>0, <1>2, <1>3, <1>4, <1>5, <1>6, FateThen DEF Code
  <1>8. ASSUME NEW i \in DOMAIN msgs, i # n PROVE FateOf(i)' = FateOf(i)
    <2>1. i \in Nat \ {0}
      BY Arrived
    <2>2. CASE i \notin Received
      BY <1>0, <1>4, <2>1, <2>2, FateKept
    <2>3. CASE \E j \in DOMAIN wire : wire[j].of = i
      BY <1>0, <1>3, <2>1, <2>3, FateKept
    <2>4. CASE i \in Received /\ \E c \in busy : ctx[c].of = i
      BY <1>0, <1>3, <1>4, <1>5, <1>8, <2>1, <2>4, FateKept
    <2> QED BY <2>2, <2>3, <2>4 DEF Places
  <1>9. MsgFate' = [MsgFate EXCEPT ![n] = "rejected"]
    BY <1>4, <1>6, <1>7, <1>8, OneBecomes
  <1>10. Promise!First("accepted", n)
    BY <1>6 DEF Promise!First, Promise!Is
  <1>11. Promise!Becomes(n, "rejected")
    BY <1>9 DEF Promise!Becomes, MsgFate
  <1> QED BY <1>6, <1>10, <1>11 DEF Promise!DecisionOn, MsgFate

\* A send ends the message of the context it was given, and no other.
LEMMA SendEnds ==
  ASSUME IInv, IInv', Places, Places', NEW c \in busy, NEW w, NEW n,
         n = ctx[c].of, n \in Received, wire' = Append(wire, w), w.of = n,
         busy' = busy \ {c}, ctx' = ctx, UNCHANGED <<msgs, NReceived>>
  PROVE  n \in DOMAIN msgs /\ MsgFate' = [MsgFate EXCEPT ![n] = w.fate]
  <1>0. TypeOK /\ WireReceived /\ WireReceived' /\ Received' = Received
    BY DEF IInv, Received
  <1>1. n \in DOMAIN msgs /\ n \in Nat \ {0}
    BY Arrived
  <1>2. PICK k : k = Len(wire) + 1
    OBVIOUS
  <1>3. /\ k \in DOMAIN wire' /\ wire'[k] = w
        /\ \A j \in DOMAIN wire : j \in DOMAIN wire' /\ wire'[j] = wire[j]
    BY <1>0, <1>2, AfterSend
  <1>4. FateOf(n)' = w.fate
    BY <1>0, <1>1, <1>3, FateThen
  <1>5. ASSUME NEW i \in DOMAIN msgs, i # n PROVE FateOf(i)' = FateOf(i)
    <2>1. i \in Nat \ {0}
      BY Arrived
    <2>2. CASE i \notin Received
      BY <1>0, <2>1, <2>2, FateKept
    <2>3. CASE \E j \in DOMAIN wire : wire[j].of = i
      BY <1>0, <1>3, <2>1, <2>3, FateKept
    <2>4. CASE i \in Received /\ \E d \in busy : ctx[d].of = i
      BY <1>0, <1>5, <2>1, <2>4, FateKept
    <2> QED BY <2>2, <2>3, <2>4 DEF Places
  <1> QED BY <1>1, <1>4, <1>5, OneBecomes

\* A relay ends the first of the accepted messages.
LEMMA RelayStep ==
  ASSUME IInv, IInv', Fresh, Places, Places', RelayAccepted
  PROVE  \E n \in DOMAIN MsgFate : Promise!DecisionOn(n)
  <1> DEFINE s == Sent(arg, "relayed", head.dest)
  <1>0. s.of = ctx[arg].of /\ s.fate = "relayed"
    BY DEF Sent
  <1> HIDE DEF s
  <1>1. PICK w : w = s /\ w.of = ctx[arg].of /\ w.fate = "relayed"
    BY <1>0
  <1>2. PICK n : n = ctx[arg].of
    OBVIOUS
  <1>3. NextIs("push_relay") /\ wire' = Append(wire, w) /\ busy' = busy \ {arg} /\ ctx' = ctx
        /\ UNCHANGED <<msgs, NReceived>>
    BY <1>1 DEF RelayAccepted, free_msg_ctx, recvVars, NReceived, s
  <1>4. n \in DOMAIN msgs /\ n \in Received /\ arg \in busy
        /\ FateOf(n) = "accepted" /\ \A j \in DOMAIN msgs : FateOf(j) = "accepted" => n <= j
    BY <1>2, <1>3, HeadIsFirst, HeadBusy
  <1>5. MsgFate' = [MsgFate EXCEPT ![n] = "relayed"]
    BY <1>1, <1>2, <1>3, <1>4, SendEnds
  <1>6. Promise!First("accepted", n)
    BY <1>4 DEF Promise!First, Promise!Is
  <1>7. Promise!Becomes(n, "relayed")
    BY <1>5 DEF Promise!Becomes, MsgFate
  <1> QED BY <1>4, <1>6, <1>7 DEF Promise!DecisionOn, MsgFate

\* A reply, sent or lost, ends a rejected message.
LEMMA ReplyStep ==
  ASSUME IInv, IInv', Places, Places', evsock_router_err_reply
  PROVE  \E n \in DOMAIN MsgFate : Promise!EndOf(n)
  <1>0. WireReceived
    BY DEF IInv
  <1>1. NextIs("router_err_reply") /\ busy' = busy \ {arg}
        /\ UNCHANGED <<msgs, NReceived, ctx>>
    BY ReplyEnds DEF recvVars, NReceived
  <1>2. get_element(ROUTER) # "NONE"
    BY DEF IInv, RouterKept, get_element, Keys
  <1>3. PICK f \in {"answered", "lost"} : wire' = Append(wire, Sent(arg, f, head.from))
    BY <1>2 DEF evsock_router_err_reply
  <1> DEFINE s == Sent(arg, f, head.from)
  <1>a. s.of = ctx[arg].of /\ s.fate = f /\ wire' = Append(wire, s)
    BY <1>3 DEF Sent
  <1> HIDE DEF s
  <1>4. PICK w : w = s /\ w.of = ctx[arg].of /\ w.fate = f
    BY <1>a
  <1>5. PICK n : n = ctx[arg].of
    OBVIOUS
  <1>6. n \in Received /\ arg \in busy /\ n \in Nat \ {0} /\ ctx[arg].resp_code # "OK"
    BY <1>1, <1>5, HeadBusy, Arrived DEF ReadyFor, NextIs
  <1>7. FateOf(n) = "rejected"
    BY <1>0, <1>5, <1>6, FateNow DEF Code
  <1>8. n \in DOMAIN msgs /\ MsgFate' = [MsgFate EXCEPT ![n] = f]
    BY <1>1, <1>4, <1>5, <1>6, <1>a, SendEnds
  <1>9. Promise!Becomes(n, f)
    BY <1>8 DEF Promise!Becomes, MsgFate
  <1> QED BY <1>7, <1>8, <1>9 DEF Promise!EndOf, MsgFate

-----------------------------------------------------------------------------
\* Every step of the threads is one that module Delivery allows, or none.
LEMMA StepPromised ==
  IInv /\ IInv' /\ Fresh /\ Places /\ [Next]_vars => [Promise!Next]_MsgFate
  <1> SUFFICES ASSUME IInv, IInv', Fresh, Places, [Next]_vars
               PROVE  Promise!Next \/ MsgFate' = MsgFate
    BY DEF MsgFate
  <1>0. TypeOK /\ ContextsReady /\ Places' /\ pull \in ZSockOf(Nat) /\ busy \subseteq Contexts
    BY PlacesStep DEF IInv, TypeOK
  <1>b. ASSUME UNCHANGED msgs, pull'.q = pull.q PROVE NReceived' = NReceived
    BY <1>b DEF NReceived
  <1>1. ASSUME NEW m \in Envelopes, Len(msgs) < MaxMsgs, Push(m), UNCHANGED wire
        PROVE  Promise!Next
    <2>1. MsgFate' = Append(MsgFate, "queued")
      BY <1>0, <1>1, PushArrives
    <2>2. Len(MsgFate) = Len(msgs)
      BY Arrived DEF MsgFate
    <2> QED BY <1>1, <2>1, <2>2 DEF Promise!Next, Promise!Arrival, MsgFate
  <1>2. CASE (Connect \/ PullWake \/ PullTry) /\ UNCHANGED wire
    <2>1. pull'.q = pull.q
      BY <1>0, <1>2 DEF Connect, Attach, PullWake, ReadEvents, PullTry,
           zsock_drain_remain_part, ZSockOf
    <2>2. UNCHANGED <<msgs, wire, NReceived, busy, ctx>>
      BY <1>b, <1>2, <2>1 DEF Connect, PullWake, PullTry, StartScan, poolVars
    <2> QED BY <1>0, <2>2, QuietStep
  <1>3. CASE ((PullScan \/ PullPost) /\ UNCHANGED wire) \/ MgntPost \/ SocketEvent \/ UNCHANGED vars
    <2>1. UNCHANGED <<msgs, pull, busy, ctx, wire>>
      BY <1>3 DEF PullScan, SkipOccupied, PullPost, MgntPost, SocketEvent, vars, recvVars, poolVars
    <2> QED BY <1>0, <1>b, <2>1, QuietStep
  <1>4. CASE PullGetCtx /\ UNCHANGED wire
    <2>1. UNCHANGED <<msgs, wire, NReceived>>
      BY <1>b, <1>4, TakenFresh
    <2>2. \A c \in busy : c \in busy' /\ ctx'[c] = ctx[c]
      BY <1>0, <1>4, TakenFresh
    <2> QED BY <1>0, <2>1, <2>2, QuietStep
  <1>5. CASE PullNone /\ UNCHANGED wire
    <2>1. pull'.q = pull.q
      BY <1>0, <1>5 DEF PullNone, Again, ZSockOf
    <2>2. UNCHANGED <<msgs, wire, NReceived, ctx>> /\ busy' = busy \ {cur} /\ ctx[cur].of = 0
      BY <1>b, <1>5, <2>1 DEF PullNone, free_msg_ctx, Fresh
    <2> QED BY <1>0, <2>2, QuietStep
  <1>6. CASE PullHead /\ UNCHANGED wire
    BY <1>0, <1>6, ReceiptStep DEF Promise!Next, Promise!Service, MsgFate
  <1>7. CASE RelayBadRoute \/ RelayUnroutable
    BY <1>0, <1>7, FailureStep DEF Promise!Next, Promise!Service, MsgFate
  <1>8. CASE RelayAccepted
    BY <1>0, <1>8, RelayStep DEF Promise!Next, Promise!Service, MsgFate
  <1>9. CASE evsock_router_err_reply
    BY <1>0, <1>9, ReplyStep DEF Promise!Next, Promise!Service, MsgFate
  <1> QED BY <1>1, <1>2, <1>3, <1>4, <1>5, <1>6, <1>7, <1>8, <1>9
          DEF Next, Client, TrRecvStep, evsock_pull_read, TrSendNext, evsock_push_relay

\* The relay path implements module Delivery, but for its liveness: messages are
\* received in the order of arrival, the accepted ones are decided on in that
\* order, and each ends once, whatever the threads interleave.
THEOREM DeliversAsPromised == Spec => Promise!Init /\ [][Promise!Next]_MsgFate
  <1>1. Init => Promise!Init
    <2> SUFFICES ASSUME Init PROVE MsgFate = << >>
      BY DEF Promise!Init, MsgFate
    <2>1. msgs = << >>
      BY DEF Init, InitRecv
    <2> QED BY <2>1 DEF MsgFate
  <1>2. IInv /\ IInv' /\ Fresh /\ Places /\ ScanSaw /\ [Next]_vars => [Promise!Next]_MsgFate
    BY StepPromised
  <1> QED BY <1>1, <1>2, RelayInvariant, PlacesInvariant, PTL DEF Spec
=============================================================================
