------------------------------- MODULE TrMgnt -------------------------------
(***************************************************************************)
(* Thread TR_MGNT (tr_mgnt.c): evsock_sub_read keeps a list of the clients *)
(* that announce themselves, manage_appls sweeps it every second for those *)
(* gone silent, and both tell TR_SEND when a service gets its first client *)
(* or loses its last.                                                      *)
(***************************************************************************)
EXTENDS SendBase, ZSock, FiniteSets

CONSTANTS
  Expiry,     \* seconds of silence a client is allowed (10)
  Rank        \* the place of each uuid in strcmp order

NoName == ""

ASSUME ExpiryAssumption == Expiry \in Nat
ASSUME RankAssumption ==
  /\ Rank \in [Uuids -> Nat \ {0}]
  /\ \A u, v \in Uuids : Rank[u] = Rank[v] => u = v

VARIABLES
  sub,       \* the SUB socket
  appls,     \* the uuids in appls_llist
  svcname,   \* the service of each of them
  age,       \* seconds since its timestamp, counted up to Expiry + 1
  due,       \* the timer of manage_appls has expired
  mpc,       \* what TR_MGNT is doing
  cursor     \* the place in the list the sweep has passed

mgntVars == <<sub, appls, svcname, age, due, mpc, cursor>>

(***************************************************************************)
(* A message on the SUB socket.  `whole` says the body received has the    *)
(* size the envelope claims, `fits` that this is the size of appls_ctx_t.  *)
(***************************************************************************)
Announcement == [type: zmsg_type_t, parts: Nat \ {0}, whole: BOOLEAN,
                 fits: BOOLEAN, uuid: Uuids, svcname: Services \cup {NoName}]

InitMgnt ==
  /\ sub = FreshZSock
  /\ appls = {}
  /\ svcname = [u \in Uuids |-> NoName]
  /\ age = [u \in Uuids |-> 0]
  /\ due = FALSE
  /\ mpc = "wait"
  /\ cursor = 0

-----------------------------------------------------------------------------
(* The outside: announcements arrive, a client connects, a second passes.  *)

Announce(m) ==
  /\ sub' = Arrive(sub, m)
  /\ UNCHANGED <<appls, svcname, age, due, mpc, cursor, sendVars>>

SubConnect ==
  /\ sub' = Attach(sub)
  /\ UNCHANGED <<appls, svcname, age, due, mpc, cursor, sendVars>>

Second ==
  /\ age' = [u \in Uuids |-> IF u \in appls /\ age[u] <= Expiry
                             THEN age[u] + 1 ELSE age[u]]
  /\ due' = TRUE
  /\ UNCHANGED <<sub, appls, svcname, mpc, cursor, sendVars>>

-----------------------------------------------------------------------------
(* evsock_sub_read *)

SubWake ==
  /\ mpc = "wait" /\ sub.signal
  /\ sub' = ReadEvents(sub)
  /\ mpc' = IF sub.q # << >> THEN "sub" ELSE "wait"
  /\ UNCHANGED <<appls, svcname, age, due, cursor, sendVars>>

SubNone ==
  /\ mpc = "sub" /\ sub.q = << >>
  /\ sub' = Again(zsock_drain_remain_part(sub))
  /\ mpc' = "wait"
  /\ UNCHANGED <<appls, svcname, age, due, cursor, sendVars>>

\* Drain, receive the envelope, and the body if there is one.
ReadOne ==
  LET m == Head(sub.q)  s == TakeHead(zsock_drain_remain_part(sub), m.parts) IN
  sub' = IF m.parts > 1 THEN TakePart(s) ELSE s

SubReceive ==
  /\ mpc = "sub" /\ sub.q # << >>
  /\ ReadOne
  /\ UNCHANGED <<due, mpc, cursor, zsocks>>

IsRegi(m) == m.parts > 1 /\ m.whole /\ m.type = "REGI" /\ m.fits

\* mutant: a message that is no registration ends the reading
DiscardReturns ==
  /\ mpc = "sub" /\ sub.q # << >>
  /\ ~IsRegi(Head(sub.q))
  /\ ReadOne
  /\ mpc' = "wait"
  /\ UNCHANGED <<appls, svcname, age, due, cursor, sendVars>>

SubDiscard ==
  /\ SubReceive
  /\ ~IsRegi(Head(sub.q))
  /\ UNCHANGED <<appls, svcname, age, sendq>>

\* find_svc_exist counts the clients of a named service over the whole list;
\* the caller asks whether it found just the client in hand, that is whether
\* none of the others is of that service.
NoneFound(others, name) == name # NoName /\ \A v \in others : svcname[v] # name

\* handle_regi for a uuid already listed: update and return.
RegiUpdate ==
  /\ SubReceive
  /\ LET m == Head(sub.q) IN
     /\ IsRegi(m) /\ m.uuid \in appls
     /\ svcname' = [svcname EXCEPT ![m.uuid] = m.svcname]
     /\ age' = [age EXCEPT ![m.uuid] = 0]
  /\ UNCHANGED <<appls, sendq>>

\* handle_regi for a new uuid: list it, and if it is the first of its service
\* (the only one found) have TR_SEND create the socket.
ListNew(first) ==
  /\ SubReceive
  /\ LET m == Head(sub.q) IN
     /\ IsRegi(m) /\ m.uuid \notin appls
     /\ appls' = appls \cup {m.uuid}
     /\ svcname' = [svcname EXCEPT ![m.uuid] = m.svcname]
     /\ age' = [age EXCEPT ![m.uuid] = 0]
     /\ IF first THEN event_base_once(Event("push_create", m.svcname))
                 ELSE UNCHANGED sendq

\* mutant: the new client is not in the list yet when its service is counted,
\* so finding one means another one
CountBeforeAdd ==
  ListNew(Cardinality({v \in appls : svcname[v] = Head(sub.q).svcname}) = 1)

RegiNew == ListNew(NoneFound(appls, Head(sub.q).svcname))

handle_regi == RegiUpdate \/ RegiNew

evsock_sub_read == SubWake \/ SubNone \/ SubDiscard \/ handle_regi

-----------------------------------------------------------------------------
(* manage_appls: list_element walks the list in key order and has the next *)
(* element in hand before check_svc_alive may remove the one it visits.    *)

ManageStart ==
  /\ mpc = "wait" /\ due
  /\ due' = FALSE
  /\ mpc' = "sweep" /\ cursor' = 0
  /\ UNCHANGED <<sub, appls, svcname, age, sendVars>>

Ahead == {u \in appls : Rank[u] > cursor}
Visited(u) == u \in Ahead /\ \A v \in Ahead : Rank[u] <= Rank[v]

ManageEnd ==
  /\ mpc = "sweep" /\ Ahead = {}
  /\ mpc' = "wait"
  /\ UNCHANGED <<sub, appls, svcname, age, due, cursor, sendVars>>

\* mutant: the sweep stops at the first client that is alive
StopAtAlive(u) ==
  /\ mpc = "sweep" /\ Visited(u) /\ age[u] <= Expiry
  /\ mpc' = "wait"
  /\ UNCHANGED <<sub, appls, svcname, age, due, cursor, sendVars>>

VisitAlive(u) ==
  /\ mpc = "sweep" /\ Visited(u) /\ age[u] <= Expiry
  /\ cursor' = Rank[u]
  /\ UNCHANGED <<sub, appls, svcname, age, due, mpc, sendVars>>

\* check_svc_alive for an expired client: it is unlisted, and if it is the last
\* of its service (the only one found) TR_SEND is told to remove the socket.
Unlist(u, last) ==
  /\ mpc = "sweep" /\ Visited(u)
  /\ cursor' = Rank[u]
  /\ appls' = appls \ {u}
  /\ svcname' = [svcname EXCEPT ![u] = NoName]
  /\ age' = [age EXCEPT ![u] = 0]
  /\ IF last THEN event_base_once(Event("push_remove", svcname[u]))
             ELSE UNCHANGED sendq
  /\ UNCHANGED <<sub, due, mpc, zsocks>>

\* mutants: expire a second early; tell TR_SEND whoever is left; count after
\* the client is unlisted, so that the last one finds none
ExpireEarly(u) == age[u] >= Expiry /\ Unlist(u, NoneFound(appls \ {u}, svcname[u]))
RemoveAlways(u) == age[u] > Expiry /\ Unlist(u, svcname[u] # NoName)
RemoveNever(u) == age[u] > Expiry /\ Unlist(u, FALSE)

\* mutant: TR_MGNT closes the socket itself instead of asking TR_SEND to
RemoveDirectly(u) ==
  /\ mpc = "sweep" /\ Visited(u) /\ age[u] > Expiry
  /\ cursor' = Rank[u]
  /\ appls' = appls \ {u}
  /\ svcname' = [svcname EXCEPT ![u] = NoName]
  /\ age' = [age EXCEPT ![u] = 0]
  /\ IF NoneFound(appls \ {u}, svcname[u])
     THEN del_zsock_from_list(svcname[u], "ZMQ_PUSH") ELSE UNCHANGED zsocks
  /\ UNCHANGED <<sub, due, mpc, sendq>>

VisitExpired(u) == age[u] > Expiry /\ Unlist(u, NoneFound(appls \ {u}, svcname[u]))

manage_appls ==
  ManageStart \/ ManageEnd \/ \E u \in Uuids : VisitAlive(u) \/ VisitExpired(u)

TrMgntNext == evsock_sub_read \/ manage_appls
=============================================================================
