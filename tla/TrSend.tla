------------------------------- MODULE TrSend -------------------------------
(***************************************************************************)
(* Thread TR_SEND (tr_send.c): runs the events of its base one at a time.  *)
(* push_relay sends a context's message on, router_err_reply returns it to *)
(* its sender; both end the life of the context they were given.  Whether  *)
(* ZeroMQ takes a message (no peer, no room, unroutable id) is its choice. *)
(***************************************************************************)
EXTENDS TrRecv

VARIABLE
  wire      \* history: how each message left the broker, in order

\* What the last send of a context put on the wire.
Sent(c, fate, to) ==
  [of |-> ctx[c].of, fate |-> fate, to |-> to, n_bytes |-> ctx[c].n_bytes,
   resp_code |-> ctx[c].resp_code, reason |-> ctx[c].reason, buf |-> ctx[c].buf]

arg  == Head(sendq).arg            \* the msg_ctx of the event being run
head == msgs[ctx[arg].of]          \* its envelope

\* mutants of a failed relay: try again later instead of answering; count the
\* message as attempted again; free the context along with posting it; forget
\* to post the reply
FailRetries(code) ==
  /\ StatInc({"fail"}, code)
  /\ RunEvent(<<Event("push_relay", arg)>>)
  /\ UNCHANGED <<recvVars, ctx, busy, CURR_POS, probe, scanned, zsocks, wire>>

FailCountsAttempt(code) ==
  /\ StatInc({"att", "fail"}, code)
  /\ ctx' = [ctx EXCEPT ![arg] = Failed(@, code, << >>)]
  /\ RunEvent(<<Event("router_err_reply", arg)>>)
  /\ UNCHANGED <<recvVars, busy, CURR_POS, probe, scanned, zsocks, wire>>

FailFrees(code) ==
  /\ StatInc({"fail"}, code)
  /\ ctx' = [ctx EXCEPT ![arg] = Failed(@, code, << >>)]
  /\ RunEvent(<<Event("router_err_reply", arg)>>)
  /\ free_msg_ctx(arg)
  /\ UNCHANGED <<recvVars, zsocks, wire>>

FailSilently(code) ==
  /\ StatInc({"fail"}, code)
  /\ ctx' = [ctx EXCEPT ![arg] = Failed(@, code, << >>)]
  /\ RunEvent(<< >>)
  /\ UNCHANGED <<recvVars, busy, CURR_POS, probe, scanned, zsocks, wire>>

\* mutant: the socket that refused the message is closed
FailCloses(code) ==
  /\ StatInc({"fail"}, code)
  /\ ctx' = [ctx EXCEPT ![arg] = Failed(@, code, << >>)]
  /\ RunEvent(<<Event("router_err_reply", arg)>>)
  /\ del_zsock_from_list(head.dest, "ZMQ_PUSH")
  /\ UNCHANGED <<recvVars, busy, CURR_POS, probe, scanned, wire>>

\* ERR_MSG_REPLY inside push_relay posts to the very base that runs it.
RelayFails(code) ==
  /\ StatInc({"fail"}, code)
  /\ ctx' = [ctx EXCEPT ![arg] = Failed(@, code, << >>)]
  /\ RunEvent(<<Event("router_err_reply", arg)>>)
  /\ UNCHANGED <<recvVars, busy, CURR_POS, probe, scanned, zsocks, wire>>

RelayBadRoute ==
  /\ NextIs("push_relay")
  /\ head.route \notin {"SVC", "INST"}
  /\ RelayFails("ROUTE_TYPE")

\* The socket of an instance is ROUTER's, the one of a service its own.
RelaySocket == get_element(IF head.route = "SVC" THEN head.dest ELSE ROUTER)

\* No such socket, or one of its sends refuses the message.
RelayUnroutable ==
  /\ NextIs("push_relay")
  /\ head.route \in {"SVC", "INST"}
  /\ RelayFails("TO_ROUTE")

\* service_relay puts no routing id in front: over the ROUTER socket the
\* envelope would be taken for one and refused, so only a PUSH socket serves.
RelayAccepted ==
  /\ NextIs("push_relay")
  /\ \/ head.route = "SVC"  /\ RelaySocket = "ZMQ_PUSH"
     \/ head.route = "INST" /\ RelaySocket = "ZMQ_ROUTER"
  /\ wire' = Append(wire, Sent(arg, "relayed", head.dest))
  /\ StatInc({"succ"}, "OK")
  /\ free_msg_ctx(arg)
  /\ RunEvent(<< >>)
  /\ UNCHANGED <<recvVars, ctx, zsocks>>

evsock_push_relay == RelayBadRoute \/ RelayUnroutable \/ RelayAccepted

\* The reply is routed by the sender's uuid; if it cannot be, it is dropped.
\* Without a ROUTER socket the handler returns and forgets its context.
evsock_router_err_reply ==
  /\ NextIs("router_err_reply")
  /\ RunEvent(<< >>)
  /\ IF get_element(ROUTER) # "NONE"
     THEN /\ \E fate \in {"answered", "lost"} :
               wire' = Append(wire, Sent(arg, fate, head.from))
          /\ free_msg_ctx(arg)
     ELSE UNCHANGED <<wire, busy, CURR_POS, probe, scanned>>
  /\ UNCHANGED <<recvVars, ctx, statVars, zsocks>>

SocketEvent ==
  /\ evsock_push_create \/ evsock_push_remove
  /\ UNCHANGED <<recvVars, statVars, poolVars, wire>>

TrSendNext == evsock_push_relay \/ evsock_router_err_reply \/ SocketEvent
=============================================================================
