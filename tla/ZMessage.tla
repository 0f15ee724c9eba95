------------------------------ MODULE ZMessage ------------------------------
(***************************************************************************)
(* The vocabulary of broker/zmessage.h: what a client puts on the wire and *)
(* what the broker puts in a reply.  A name, a stamp or a body is never    *)
(* spelled out; a body is known by the message it came with and its size.  *)
(***************************************************************************)
EXTENDS Integers, Sequences

CONSTANTS
  Uuids,              \* the ids clients register under and sign messages with
  Services,           \* service names, as clients spell them
  MAX_MSGSIZE_BYTE    \* bytes of a context's buffer

ASSUME MsgSizeAssumption == MAX_MSGSIZE_BYTE \in Nat \ {0}

zmsg_type_t  == {"REGI", "TRAFFIC", "CONF", "LOG"}
zmsg_route_t == {"SVC", "INST", "OTHER"}     \* OTHER: any other integer
zmsg_resp_t  == {"OK", "INVALID_TYPE", "NULL_RECV", "DIFF_RECV",
                 "ROUTE_TYPE", "TO_ROUTE"}

ROUTER == "ROUTER"
Keys   == Services \cup {ROUTER}             \* keys of TR_SEND's socket list

(***************************************************************************)
(* One multipart message: the envelope, how many parts follow one another  *)
(* (1 is an envelope alone) and the size of the second.  n_bytes is what   *)
(* the envelope claims, size what is really there.                         *)
(***************************************************************************)
envelop_t ==
  [type: zmsg_type_t, route: zmsg_route_t, from: Uuids, dest: Keys \cup Uuids,
   n_bytes: Nat, parts: Nat \ {0}, size: Nat]
=============================================================================
