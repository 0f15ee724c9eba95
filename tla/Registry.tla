------------------------------ MODULE Registry ------------------------------
(***************************************************************************)
(* The registration path: clients that announce themselves once a second,  *)
(* TR_MGNT, which lists them and drops the silent ones, and TR_SEND, which *)
(* opens and closes the PUSH socket of each service on TR_MGNT's word.     *)
(*                                                                         *)
(* A client takes a fresh uuid when it starts and keeps its service name   *)
(* (zutil_init), so a uuid never comes back; what it has published may     *)
(* still be under way when it is dead.                                     *)
(***************************************************************************)
EXTENDS TrMgnt

CONSTANTS
  SvcOf,        \* the service of each client
  Strays,       \* what else may be published, beside registrations
  MaxQueue,     \* bound: announcements waiting in the SUB socket
  MaxEvents,    \* bound: events waiting for TR_SEND
  Paces         \* the paces to check, see `pace`

ASSUME SvcOfAssumption == SvcOf \in [Uuids -> Services \cup {NoName}]
\* A client keeps its service name; the empty name is the name of none.
ASSUME StraysAssumption ==
  /\ Strays \subseteq Announcement
  /\ \A m \in Strays : IsRegi(m) => m.svcname = SvcOf[m.uuid]
ASSUME NamesAssumption == NoName \notin Services
ASSUME RegistryBounds ==
  MaxQueue \in Nat /\ MaxEvents \in Nat
  /\ Paces \subseteq {"lagging", "prompt", "punctual"}

VARIABLES
  status,     \* of each client: new, up, dead
  told,       \* the clients that published something in this second
  pace        \* never changed.  lagging: nothing is known of who is how fast;
              \* prompt: TR_MGNT is done with a second before the next one;
              \* punctual: besides, a client lets no second pass unannounced

clientVars == <<status, told, pace>>
vars == <<mgntVars, sendVars, clientVars>>

Init ==
  /\ InitMgnt /\ InitSend
  /\ status = [u \in Uuids |-> "new"]
  /\ told = {}
  /\ pace \in Paces

-----------------------------------------------------------------------------
Join(u) ==
  /\ status[u] = "new"
  /\ status' = [status EXCEPT ![u] = "up"]
  /\ SubConnect
  /\ UNCHANGED <<told, pace>>

\* A process dies; the descriptor of the SUB socket fires for the lost peer.
Leave(u) ==
  /\ status[u] = "up"
  /\ status' = [status EXCEPT ![u] = "dead"]
  /\ SubConnect
  /\ UNCHANGED <<told, pace>>

regi(u) == [type |-> "REGI", parts |-> 2, whole |-> TRUE, fits |-> TRUE,
            uuid |-> u, svcname |-> SvcOf[u]]

\* zutil_regi: at most once a second; a published message may also be lost,
\* which is a client that does not publish.
zutil_regi(u) ==
  /\ status[u] = "up" /\ u \notin told
  /\ Len(sub.q) < MaxQueue
  /\ \E m \in {regi(u)} \cup Strays : Announce(m)
  /\ told' = told \cup {u}
  /\ UNCHANGED <<status, pace>>

Up == {u \in Uuids : status[u] = "up"}

Tick ==
  /\ pace # "lagging" => ~due /\ ~sub.signal /\ mpc = "wait"
  /\ pace = "punctual" => Up \subseteq told
  /\ Second
  /\ told' = {}
  /\ UNCHANGED <<status, pace>>

Client == \E u \in Uuids : Join(u) \/ Leave(u) \/ zutil_regi(u)

TrMgntStep ==
  /\ Len(sendq) < MaxEvents
  /\ TrMgntNext
  /\ UNCHANGED clientVars

TrSendStep ==
  /\ evsock_push_create \/ evsock_push_remove
  /\ UNCHANGED <<mgntVars, clientVars>>

Next == Client \/ Tick \/ TrMgntStep \/ TrSendStep

Spec == Init /\ [][Next]_vars

\* The base runs every event that is active before it polls again, the timer
\* of the sweep too, when TR_MGNT comes back to it.
SweepStart == ManageStart /\ UNCHANGED clientVars

\* The threads run, and time passes; nothing is owed by the clients.
FairSpec ==
  /\ Spec
  /\ WF_vars(TrMgntStep) /\ WF_vars(TrSendStep) /\ WF_vars(Tick)
  /\ SF_vars(SweepStart)

-----------------------------------------------------------------------------
TypeOK ==
  /\ sub \in ZSockOf(Announcement)
  /\ appls \in SUBSET Uuids
  /\ svcname \in [Uuids -> Services \cup {NoName}]
  /\ age \in [Uuids -> 0 .. Expiry + 1]
  /\ due \in BOOLEAN
  /\ mpc \in {"wait", "sub", "sweep"}
  /\ cursor \in Nat
  /\ sendq \in Seq([h: {"push_create", "push_remove"}, arg: Services])
  /\ zsocks \in [Keys -> {"NONE", "ZMQ_ROUTER", "ZMQ_PUSH"}]
  /\ status \in [Uuids -> {"new", "up", "dead"}]
  /\ told \in SUBSET Uuids
  /\ pace \in Paces

ClientsOf(s) == {u \in appls : svcname[u] = s}
Registered(s) == ClientsOf(s) # {}

\* The places of a service's events in the queue, and those that open its socket.
Pending(s) == {k \in DOMAIN sendq : sendq[k].arg = s}
Creating(s) == {k \in Pending(s) : sendq[k].h = "push_create"}

(***************************************************************************)
(* Events at the places P, of which those at C open a socket and the       *)
(* others close it, lead in turn from the socket there is to the clients   *)
(* there are.                                                              *)
(***************************************************************************)
Alternate(P, C, socket, clients) ==
  /\ P = {} => (socket = "ZMQ_PUSH" <=> clients # {})
  /\ \A k \in P :
       /\ (\A j \in P : k <= j) => (k \in C <=> socket # "ZMQ_PUSH")
       /\ (\A j \in P : j <= k) => (k \in C <=> clients # {})
       /\ \A j \in P : j < k /\ (\A i \in P : i <= j \/ k <= i)
                       => (j \in C <=> k \notin C)

Follows(s) == Alternate(Pending(s), Creating(s), zsocks[s], ClientsOf(s))

(***************************************************************************)
(* The sockets follow the registry.  With nothing pending for a service it *)
(* has a socket exactly when it has a client; else the pending events      *)
(* alternate, the first changes what the socket list has and the last      *)
(* leaves what the registry says.  So no create is refused for a socket    *)
(* that is about to go, and no late remove closes the socket of a service  *)
(* that came back (handle_regi, check_svc_alive, evsock_push_create and    *)
(* evsock_push_remove).  A service cannot have the name of the ROUTER.     *)
(***************************************************************************)
SocketFollowsRegistry == \A s \in Services \ {ROUTER} : Follows(s)

\* TR_MGNT never sleeps on an announcement (evsock_sub_read).
NoLostAnnouncement == mpc = "wait" /\ sub.q # << >> => sub.signal

\* A client that announces itself every second is never taken for dead, though
\* its announcement and the sweep race in every second (check_svc_alive).
OnlySilentExpire ==
  [][\A u \in Uuids : pace = "punctual" /\ u \in appls /\ u \notin appls'
                       => status[u] = "dead"]_vars

Dead(u) == status[u] = "dead"

(***************************************************************************)
(* A dead client is forgotten for good, though announcements it left in    *)
(* the socket may list it again after it was dropped.  A TR_MGNT that lags *)
(* behind, however far, must find the SUB socket empty again and again:    *)
(* the loop of evsock_sub_read (tr_mgnt.c:134) has no other end, and no    *)
(* sweep is run inside it.  Where clients are punctual by assumption, time *)
(* waits for them, and nothing is said of it.                              *)
(***************************************************************************)
DeadForgotten ==
  pace = "prompt" \/ (pace = "lagging" /\ []<>(mpc = "wait")) =>
    \A u \in Uuids : Dead(u) ~> [](u \notin appls)

\* Once all the clients of a service are dead its socket is closed for good.
DeadServiceClosed ==
  \A s \in Services \ {ROUTER} :
    pace = "prompt" /\ (\A u \in Uuids : SvcOf[u] = s => Dead(u))
      ~> [](zsocks[s] = "NONE")

\* A service with a client gets its socket, unless it loses all its clients.
ServiceOpened ==
  \A s \in Services \ {ROUTER} :
    Registered(s) ~> (zsocks[s] = "ZMQ_PUSH" \/ ~Registered(s))
=============================================================================
