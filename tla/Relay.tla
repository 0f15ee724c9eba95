------------------------------- MODULE Relay --------------------------------
(***************************************************************************)
(* The relay path of the broker: clients, TR_RECV and TR_SEND, with        *)
(* TR_MGNT reduced to what it may ever post to TR_SEND, the creation or    *)
(* the removal of any service's socket at any time.                        *)
(***************************************************************************)
EXTENDS TrSend, FiniteSets

CONSTANTS
  Envelopes,     \* the messages clients may push
  MaxMsgs,       \* bound: messages pushed
  MaxMgnt        \* bound: pending socket events of TR_MGNT

ASSUME EnvelopesAssumption == Envelopes \subseteq envelop_t
ASSUME BoundsAssumption == MaxMsgs \in Nat /\ MaxMgnt \in Nat
ASSUME NoCtxAssumption == NoCtx \notin Contexts

vars == <<recvVars, statVars, poolVars, sendVars, wire>>

Init == InitPool /\ InitSend /\ InitRecv /\ wire = << >>

IsSocketEvent(e) == e.h \in {"push_create", "push_remove"}

\* The socket events of a queue, in its order (SelectSeq, as a recursive
\* function of the events looked at).
SocketEvents(q) ==
  LET F[n \in 0 .. Len(q)] ==
        IF n = 0 THEN << >>
        ELSE IF IsSocketEvent(q[n]) THEN Append(F[n - 1], q[n]) ELSE F[n - 1]
  IN  F[Len(q)]

MgntPost ==
  /\ Len(SocketEvents(sendq)) < MaxMgnt
  /\ \E h \in {"push_create", "push_remove"}, s \in Services :
       event_base_once(Event(h, s))
  /\ UNCHANGED <<recvVars, statVars, poolVars, zsocks, wire>>

Client ==
  /\ \/ \E m \in Envelopes : Len(msgs) < MaxMsgs /\ Push(m)
     \/ Connect
  /\ UNCHANGED wire

TrRecvStep == evsock_pull_read /\ UNCHANGED wire

Next == Client \/ MgntPost \/ TrRecvStep \/ TrSendNext

Spec == Init /\ [][Next]_vars

\* Each thread runs as long as its base has something to run.
Fairness == WF_vars(TrRecvStep) /\ WF_vars(TrSendNext)
FairSpec == Spec /\ Fairness

-----------------------------------------------------------------------------
IsCtxEvent(e) == e.h \in {"push_relay", "router_err_reply"}

Events ==
  [h: {"push_relay", "router_err_reply"}, arg: Contexts] \cup
  [h: {"push_create", "push_remove"}, arg: Services]

Wire ==
  [of: Nat, fate: {"relayed", "answered", "lost"}, to: Keys \cup Uuids,
   n_bytes: Nat, resp_code: zmsg_resp_t, reason: {<< >>} \cup (Nat \X Nat),
   buf: Buffer]

TypeOK ==
  /\ msgs \in Seq(envelop_t)
  /\ pull \in ZSockOf(Nat)
  /\ rpc \in RecvPcs
  /\ cur \in Contexts \cup {NoCtx}
  /\ busy \in SUBSET Contexts
  /\ ctx \in [Contexts -> Context]
  /\ CURR_POS \in 0 .. MAX_MSGCTX_NUM
  /\ probe \in 0 .. MAX_MSGCTX_NUM
  /\ scanned \in SUBSET Slots
  /\ sendq \in Seq(Events)
  /\ zsocks \in [Keys -> {"NONE", "ZMQ_ROUTER", "ZMQ_PUSH"}]
  /\ stat \in [{"att", "succ", "fail"} -> Nat]
  /\ reasons \in [zmsg_resp_t -> Nat]
  /\ wire \in Seq(Wire)

(***************************************************************************)
(* Every context in use has exactly one owner: TR_RECV while it fills it,  *)
(* or one event of TR_SEND's queue.  None leaks, none is freed while an    *)
(* event still points to it, and none is given to two messages             *)
(* (broker.h:66, the life of msg_ctx).                                     *)
(***************************************************************************)
Held == IF Holding THEN {cur} ELSE {}
CtxEvents == {k \in DOMAIN sendq : IsCtxEvent(sendq[k])}

ContextOwnership ==
  /\ busy = Held \cup {sendq[k].arg : k \in CtxEvents}
  /\ \A k \in CtxEvents : sendq[k].arg \notin Held
  /\ \A j, k \in CtxEvents : sendq[j].arg = sendq[k].arg => j = k

(***************************************************************************)
(* A context is malloc-ed only when the pool really was exhausted: not     *)
(* just slot after slot, each at the moment it was looked at, while        *)
(* TR_SEND was freeing others, but all of it when the scan began           *)
(* (get_msg_ctx, tr_recv.c:13).                                           *)
(***************************************************************************)
MallocMeansExhausted ==
  rpc = "scan" /\ probe = MAX_MSGCTX_NUM => scanned = Slots

\* No part of a message is ever taken for the envelope of the next one: the
\* socket is at a message boundary whenever TR_RECV is about to receive one
\* (zsock_drain_remain_part).
MessageBoundary == rpc \in {"scan", "read"} => pull.more = 0

\* TR_RECV never sleeps on a message: the descriptor is edge triggered, so the
\* handler may stop only once it has seen the socket empty (evsock_pull_read).
NoLostWakeup == rpc = "wait" /\ pull.q # << >> => pull.signal

(***************************************************************************)
(* A received message is in exactly one place: the one context that holds  *)
(* it, or the one send that ended it.  It is neither lost nor sent twice,  *)
(* nor both relayed and answered with an error.                            *)
(***************************************************************************)
NReceived == Len(msgs) - Len(pull.q)
Received  == 1 .. NReceived

ExactlyOnce ==
  \A i \in Received :
    Cardinality({c \in busy : ctx[c].of = i})
      + Cardinality({k \in DOMAIN wire : wire[k].of = i}) = 1

\* The buffer has the body of the context's own message, or its first bytes.
OwnBody(c) ==
  /\ c.buf.of = c.of
  /\ c.n_bytes <= MAX_MSGSIZE_BYTE => c.buf.len = c.n_bytes
  /\ c.n_bytes > MAX_MSGSIZE_BYTE => c.buf.len = MAX_MSGSIZE_BYTE

(***************************************************************************)
(* What leaves the broker is what came in: a relayed message goes to its   *)
(* destination with its own body, whole if a context's buffer can hold it  *)
(* and else as much of it as the buffer holds (what is sent after that is  *)
(* not its own: BodyFitsBuffer); a reply goes to the sender with an error  *)
(* code and never with the bytes another message left in the reused        *)
(* buffer.                                                                 *)
(***************************************************************************)
FaithfulDelivery ==
  \A k \in DOMAIN wire : LET w == wire[k]  m == msgs[w.of] IN
    /\ w.n_bytes > 0 => OwnBody(w)
    /\ w.fate = "relayed" => /\ w.to = m.dest /\ w.resp_code = "OK"
                             /\ m.type = "TRAFFIC" /\ w.n_bytes = m.size
    /\ w.fate # "relayed" => w.to = m.from /\ w.resp_code # "OK"

\* Messages are relayed in the order in which they were received, though the
\* slots they travel in are taken and freed in any order.
RelayOrder ==
  \A j, k \in DOMAIN wire :
    j < k /\ wire[j].fate = "relayed" /\ wire[k].fate = "relayed"
      => wire[j].of < wire[k].of

\* Every attempt counted is counted once more as a success or a failure, with
\* its reason, unless its relay is still ahead (STAT_INC in the handlers).
ToRelay == {c \in busy : ctx[c].of # 0 /\ ctx[c].resp_code = "OK"}

StatBalance ==
  /\ stat["att"] = NReceived
  /\ stat["att"] = stat["succ"] + stat["fail"] + Cardinality(ToRelay)
  /\ stat["succ"] = reasons["OK"]
  /\ stat["fail"] = reasons["INVALID_TYPE"] + reasons["NULL_RECV"]
       + reasons["DIFF_RECV"] + reasons["ROUTE_TYPE"] + reasons["TO_ROUTE"]

\* The ROUTER socket outlives every service, also one that calls itself ROUTER,
\* so that no reply ever finds it gone and forgets its context.
RouterKept == zsocks[ROUTER] = "ZMQ_ROUTER"

\* Every message that reaches the broker leaves it: relayed, answered or dropped
\* for want of a way back to its sender.
EverySettled ==
  \A i \in 1 .. MaxMsgs :
    i \in DOMAIN msgs ~> \E k \in DOMAIN wire : wire[k].of = i

-----------------------------------------------------------------------------
(***************************************************************************)
(* Refinement: the fate of each message, read off the place it is in.      *)
(***************************************************************************)
FateOf(i) ==
  IF \E k \in DOMAIN wire : wire[k].of = i
  THEN wire[CHOOSE k \in DOMAIN wire : wire[k].of = i].fate
  ELSE IF i \notin Received THEN "queued"
  ELSE IF \E c \in busy : ctx[c].of = i /\ ctx[c].resp_code = "OK"
  THEN "accepted" ELSE "rejected"

Promise == INSTANCE Delivery WITH fate <- [i \in DOMAIN msgs |-> FateOf(i)]

\* The relay path delivers what module Delivery promises, for every
\* interleaving of the two threads, and keeps delivering.
KeepsPromise == Promise!Spec

-----------------------------------------------------------------------------
(***************************************************************************)
(* The inductive invariant of the relay path, that is what makes the parts *)
(* above hold: where a context is says what is in it.                      *)
(***************************************************************************)
Posting == rpc \in {"push_relay", "router_err_reply"}

\* The PULL socket holds the messages not yet received, in order.
QueueIsRest ==
  /\ Len(pull.q) <= Len(msgs)
  /\ \A k \in DOMAIN pull.q : pull.q[k] = NReceived + k

\* What a context holds when it is on its way to the handler h.
ReadyFor(h, c) ==
  /\ c.of \in Received
  /\ c.n_bytes > 0 => OwnBody(c)
  /\ h = "push_relay" => /\ c.resp_code = "OK" /\ msgs[c.of].type = "TRAFFIC"
                         /\ c.n_bytes = msgs[c.of].size
  /\ h = "router_err_reply" => c.resp_code # "OK"

ContextsReady ==
  /\ Holding => cur \in Contexts
  /\ rpc = "read" => ctx[cur].resp_code = "OK"
  /\ Posting => ReadyFor(rpc, ctx[cur]) /\ ctx[cur].of = NReceived
  /\ \A k \in CtxEvents : ReadyFor(sendq[k].h, ctx[sendq[k].arg])

\* The message in TR_RECV's hands is the last one received.
OnlyLastInHand ==
  Posting => /\ \A k \in CtxEvents : ctx[sendq[k].arg].of # NReceived
             /\ \A k \in DOMAIN wire : wire[k].of # NReceived

WireReceived == \A k \in DOMAIN wire : wire[k].of \in Received

\* Messages wait for their relay in order, behind all that were relayed.
ToRelayAt == {k \in DOMAIN sendq : sendq[k].h = "push_relay"}

QueueOrder ==
  \A k \in ToRelayAt :
    /\ \A j \in ToRelayAt : j < k => ctx[sendq[j].arg].of < ctx[sendq[k].arg].of
    /\ \A j \in DOMAIN wire :
         wire[j].fate = "relayed" => wire[j].of < ctx[sendq[k].arg].of

\* TR_RECV waits with a signal, or armed at an empty socket.
WaitsArmed == rpc = "wait" => pull.signal \/ (pull.armed /\ pull.q = << >>)

IInv ==
  /\ TypeOK /\ RouterKept /\ QueueIsRest /\ ContextOwnership
  /\ ContextsReady /\ WireReceived /\ FaithfulDelivery
  /\ OnlyLastInHand /\ QueueOrder /\ RelayOrder
  /\ MessageBoundary /\ WaitsArmed

-----------------------------------------------------------------------------
\* A body that left the broker was all in the buffer it was received into.
BodyFitsBuffer == \A k \in DOMAIN wire : wire[k].n_bytes <= MAX_MSGSIZE_BYTE
=============================================================================
