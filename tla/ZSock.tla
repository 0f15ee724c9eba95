------------------------------- MODULE ZSock --------------------------------
(***************************************************************************)
(* External: the receiving side of a ZeroMQ socket as the broker uses it.  *)
(* Multipart messages arrive whole, in the order of the queue q.  `more`   *)
(* counts the parts of the current message that were not read              *)
(* (ZMQ_RCVMORE is more > 0).  The descriptor behind ZMQ_FD is edge        *)
(* triggered: `signal` is raised for a message only if the reader has seen *)
(* the socket empty since the last one (`armed`), and reading ZMQ_EVENTS   *)
(* or running into EAGAIN takes it down.                                   *)
(***************************************************************************)
EXTENDS Integers, Sequences

ZSockOf(Msg) ==
  [q: Seq(Msg), more: Nat, armed: BOOLEAN, signal: BOOLEAN]

FreshZSock == [q |-> << >>, more |-> 0, armed |-> TRUE, signal |-> FALSE]

Arrive(s, m) ==
  [s EXCEPT !.q = Append(@, m), !.signal = @ \/ s.armed, !.armed = FALSE]

\* A peer connects: the descriptor fires though there is nothing to read.
Attach(s) == [s EXCEPT !.signal = TRUE]

\* zmq_getsockopt(ZMQ_EVENTS); the answer is POLLIN iff s.q # << >>.
ReadEvents(s) == [s EXCEPT !.signal = FALSE, !.armed = @ \/ s.q = << >>]

\* zmq_recv of a first part, of a further part, and of nothing (EAGAIN).
TakeHead(s, parts) == [s EXCEPT !.q = Tail(@), !.more = parts - 1]
TakePart(s)        == [s EXCEPT !.more = @ - 1]
Again(s)           == [s EXCEPT !.signal = FALSE, !.armed = TRUE]

\* mutant: the rest of the last message is left in the socket
DrainNothing(s) == s

\* The broker's own: throw away what is left of the current message.
zsock_drain_remain_part(s) == [s EXCEPT !.more = 0]
=============================================================================
