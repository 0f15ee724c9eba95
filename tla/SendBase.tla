------------------------------ MODULE SendBase ------------------------------
(***************************************************************************)
(* What the other threads and TR_SEND share: the queue of one-shot events  *)
(* of TR_SEND's event base, and TR_SEND's own list of sockets.             *)
(* event_base_once with no timeout activates the event at once, under the  *)
(* base's lock, and libevent runs active events first in, first out        *)
(* (external).  The socket list is touched by TR_SEND only.                *)
(***************************************************************************)
EXTENDS ZMessage

VARIABLES
  sendq,    \* active events of TR_SEND: the handler and its argument
  zsocks    \* thrd_ctx[TR_SEND].zsock_llist: the type of the socket, or NONE

sendVars == <<sendq, zsocks>>

Event(handler, arg) == [h |-> handler, arg |-> arg]

event_base_once(ev) == sendq' = Append(sendq, ev)

\* The base drops the event it runs; post what the handler itself activates.
RunEvent(post) == sendq' = Tail(sendq) \o post

NextIs(handler) == sendq # << >> /\ Head(sendq).h = handler

InitSend ==
  /\ sendq = << >>
  /\ zsocks = [k \in Keys |-> IF k = ROUTER THEN "ZMQ_ROUTER" ELSE "NONE"]

\* get_element: the type of the socket listed under a name, NONE if there is none.
get_element(key) == IF key \in Keys THEN zsocks[key] ELSE "NONE"

\* A second socket under a name in use is refused.
add_zsock_to_list(key, type) ==
  zsocks' = IF zsocks[key] = "NONE" THEN [zsocks EXCEPT ![key] = type]
                                    ELSE zsocks

\* mutant: the type comparison of del_zsock_from_list is forgotten
DelAnyType(key, type) == zsocks' = [zsocks EXCEPT ![key] = "NONE"]

\* Only a socket of the type the caller means is closed.
del_zsock_from_list(key, type) ==
  zsocks' = IF zsocks[key] = type THEN [zsocks EXCEPT ![key] = "NONE"]
                                  ELSE zsocks

evsock_push_create ==
  /\ NextIs("push_create")
  /\ add_zsock_to_list(Head(sendq).arg, "ZMQ_PUSH")
  /\ RunEvent(<< >>)

evsock_push_remove ==
  /\ NextIs("push_remove")
  /\ del_zsock_from_list(Head(sendq).arg, "ZMQ_PUSH")
  /\ RunEvent(<< >>)
=============================================================================
