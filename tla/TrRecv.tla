------------------------------- MODULE TrRecv -------------------------------
(***************************************************************************)
(* Thread TR_RECV (tr_recv.c): evsock_pull_read drains the PULL socket, one *)
(* context per message, and hands each context to TR_SEND: as a            *)
(* push_relay event when the message is well formed, as a router_err_reply *)
(* event when it is not.                                                   *)
(***************************************************************************)
EXTENDS MsgCtx, SendBase, ZSock

CONSTANT NoCtx

VARIABLES
  msgs,     \* history: everything clients pushed, in order of arrival
  pull,     \* the PULL socket; its queue holds indices of msgs
  rpc,      \* where evsock_pull_read is
  cur,      \* its msg_ctx
  stat,     \* increments of att, succ and fail so far
  reasons   \* increments of each reason so far

recvVars == <<msgs, pull, rpc, cur>>
statVars == <<stat, reasons>>

RecvPcs == {"wait", "try", "scan", "read", "push_relay", "router_err_reply"}
Holding == rpc \in {"read", "push_relay", "router_err_reply"}

InitRecv ==
  /\ msgs = << >>
  /\ pull = FreshZSock
  /\ rpc = "wait"
  /\ cur = NoCtx
  /\ stat = [s \in {"att", "succ", "fail"} |-> 0]
  /\ reasons = [r \in zmsg_resp_t |-> 0]

(***************************************************************************)
(* The effect of err_msg_reply on the statistics, and on the context       *)
(* before it is posted to TR_SEND.                                         *)
(***************************************************************************)
StatInc(which, code) ==
  /\ stat' = [s \in DOMAIN stat |-> IF s \in which THEN stat[s] + 1 ELSE stat[s]]
  /\ reasons' = [reasons EXCEPT ![code] = @ + 1]

Failed(c, code, why) == [c EXCEPT !.resp_code = code, !.reason = why]

-----------------------------------------------------------------------------
(* Clients, and the descriptor of the PULL socket. *)

Push(m) ==
  /\ msgs' = Append(msgs, m)
  /\ pull' = Arrive(pull, Len(msgs) + 1)
  /\ UNCHANGED <<rpc, cur, statVars, poolVars, sendVars>>

Connect ==
  /\ pull' = Attach(pull)
  /\ UNCHANGED <<msgs, rpc, cur, statVars, poolVars, sendVars>>

-----------------------------------------------------------------------------
(* evsock_pull_read *)

\* The descriptor fired: read ZMQ_EVENTS, and stop unless it says POLLIN.
PullWake ==
  /\ rpc = "wait" /\ pull.signal
  /\ pull' = ReadEvents(pull)
  /\ rpc' = IF pull.q # << >> THEN "try" ELSE "wait"
  /\ UNCHANGED <<msgs, cur, statVars, poolVars, sendVars>>

PullTry ==
  /\ rpc = "try"
  /\ pull' = zsock_drain_remain_part(pull)
  /\ rpc' = "scan"
  /\ StartScan
  /\ UNCHANGED <<msgs, cur, statVars, sendVars>>

PullScan ==
  /\ rpc = "scan"
  /\ SkipOccupied
  /\ UNCHANGED <<recvVars, statVars, sendVars>>

PullGetCtx ==
  /\ rpc = "scan"
  /\ \E c \in Contexts : get_msg_ctx(c) /\ cur' = c
  /\ rpc' = "read"
  /\ UNCHANGED <<msgs, pull, statVars, sendVars>>

\* Nothing more to receive: give the context back and wait for the descriptor.
PullNone ==
  /\ rpc = "read" /\ pull.q = << >>
  /\ free_msg_ctx(cur)
  /\ pull' = Again(pull)
  /\ rpc' = "wait" /\ cur' = NoCtx
  /\ UNCHANGED <<msgs, ctx, statVars, sendVars>>

\* Receive the next message with k of its parts read, leaving c in the
\* context and the event `next` to post.
Receive(k, c, next) ==
  LET i == Head(pull.q) IN
  /\ pull' = [TakeHead(pull, msgs[i].parts) EXCEPT !.more = @ - (k - 1)]
  /\ ctx' = [ctx EXCEPT ![cur] = c]
  /\ rpc' = next
  /\ UNCHANGED <<msgs, cur, busy, CURR_POS, probe, scanned, sendVars>>

\* zmq_recv stores what fits the buffer, though it returns the whole size.
Stored(i) ==
  [of  |-> i,
   len |-> IF msgs[i].size <= MAX_MSGSIZE_BYTE THEN msgs[i].size ELSE MAX_MSGSIZE_BYTE]

PullBadType ==
  /\ rpc = "read" /\ pull.q # << >>
  /\ LET i == Head(pull.q)  m == msgs[i]  c == ctx[cur] IN
     /\ m.type # "TRAFFIC"
     /\ Receive(1, Failed([c EXCEPT !.of = i, !.n_bytes = 0], "INVALID_TYPE", << >>),
                "router_err_reply")
     /\ StatInc({"att", "fail"}, "INVALID_TYPE")

\* mutant: the size the envelope claims is kept though no body came
NullBodyKeepsSize ==
  /\ rpc = "read" /\ pull.q # << >>
  /\ LET i == Head(pull.q)  m == msgs[i]  c == ctx[cur] IN
     /\ m.type = "TRAFFIC" /\ m.parts = 1
     /\ Receive(1, Failed([c EXCEPT !.of = i, !.n_bytes = m.n_bytes], "NULL_RECV", << >>),
                "router_err_reply")
     /\ StatInc({"att", "fail"}, "NULL_RECV")

PullNullBody ==
  /\ rpc = "read" /\ pull.q # << >>
  /\ LET i == Head(pull.q)  m == msgs[i]  c == ctx[cur] IN
     /\ m.type = "TRAFFIC" /\ m.parts = 1
     /\ Receive(1, Failed([c EXCEPT !.of = i, !.n_bytes = 0], "NULL_RECV", << >>),
                "router_err_reply")
     /\ StatInc({"att", "fail"}, "NULL_RECV")

\* n_bytes is overwritten before the reason is printed from it.
PullDiffSize ==
  /\ rpc = "read" /\ pull.q # << >>
  /\ LET i == Head(pull.q)  m == msgs[i]  c == ctx[cur] IN
     /\ m.type = "TRAFFIC" /\ m.parts > 1 /\ m.size # m.n_bytes
     /\ Receive(2, Failed([c EXCEPT !.of = i, !.n_bytes = m.size, !.buf = Stored(i)],
                          "DIFF_RECV", <<m.size, m.size>>),
                "router_err_reply")
     /\ StatInc({"att", "fail"}, "DIFF_RECV")

PullAccept ==
  /\ rpc = "read" /\ pull.q # << >>
  /\ LET i == Head(pull.q)  m == msgs[i]  c == ctx[cur] IN
     /\ m.type = "TRAFFIC" /\ m.parts > 1 /\ m.size = m.n_bytes
     /\ Receive(2, [c EXCEPT !.of = i, !.n_bytes = m.n_bytes, !.buf = Stored(i)], "push_relay")
     /\ stat' = [stat EXCEPT !["att"] = @ + 1] /\ UNCHANGED reasons

\* mutant: one message per wakeup, without going round again
PostOnce ==
  /\ rpc \in {"push_relay", "router_err_reply"}
  /\ event_base_once(Event(rpc, cur))
  /\ rpc' = "wait" /\ cur' = NoCtx
  /\ UNCHANGED <<msgs, pull, statVars, poolVars, zsocks>>

\* event_base_once to TR_SEND; the context is TR_SEND's from here on.
PullPost ==
  /\ rpc \in {"push_relay", "router_err_reply"}
  /\ event_base_once(Event(rpc, cur))
  /\ rpc' = "try" /\ cur' = NoCtx
  /\ UNCHANGED <<msgs, pull, statVars, poolVars, zsocks>>

PullHead == PullBadType \/ PullNullBody \/ PullDiffSize \/ PullAccept

evsock_pull_read ==
  \/ PullWake \/ PullTry \/ PullScan \/ PullGetCtx
  \/ PullNone \/ PullHead \/ PullPost
=============================================================================
