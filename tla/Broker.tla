------------------------------- MODULE Broker -------------------------------
(***************************************************************************)
(* The broker whole: its three threads around the one event base of        *)
(* TR_SEND, clients that push messages and clients that announce           *)
(* themselves.  Where Relay lets TR_MGNT post any socket event at any      *)
(* time, here it posts what evsock_sub_read and manage_appls do; where     *)
(* Registry's TR_SEND has only socket events to run, here they wait among  *)
(* messages and replies.                                                   *)
(***************************************************************************)
EXTENDS Relay, TrMgnt

CONSTANTS
  SvcOf, Strays, MaxQueue, Paces     \* as in Registry

ASSUME ClientsAssumption ==
  /\ SvcOf \in [Uuids -> Services \cup {NoName}]
  /\ Strays \subseteq Announcement
  /\ \A m \in Strays : IsRegi(m) => m.svcname = SvcOf[m.uuid]
  /\ NoName \notin Services \cup Uuids
  /\ MaxQueue \in Nat
  /\ Paces \subseteq {"lagging", "prompt", "punctual"}

VARIABLES
  status, told, pace,     \* as in Registry
  owed              \* history: messages posted to TR_SEND while their service
                    \* had a client, which it has had ever since

relayVars == <<recvVars, statVars, poolVars, wire>>
brokerVars == <<vars, mgntVars, status, told, pace, owed>>

Reg == INSTANCE Registry WITH
         sendq <- SocketEvents(sendq), MaxEvents <- MaxMgnt

HasClient(s) == \E u \in appls : svcname[u] = s

\* The messages on their way to evsock_push_relay.
IsRelay(e) == e.h = "push_relay"
Posted == {ctx[sendq[k].arg].of : k \in {j \in DOMAIN sendq : IsRelay(sendq[j])}}

KeepOwed ==
  owed' = {i \in owed \cup (Posted' \ Posted) :
             (msgs[i].route = "SVC" /\ HasClient(msgs[i].dest))'}

BrokerInit == Init /\ Reg!Init /\ owed = {}

TrafficStep ==
  /\ Client \/ TrRecvStep
  /\ UNCHANGED <<mgntVars, status, told, pace>>

SendStep ==
  /\ TrSendNext
  /\ UNCHANGED <<mgntVars, status, told, pace>>

MgntStep ==
  /\ Len(SocketEvents(sendq)) < MaxMgnt
  /\ TrMgntNext
  /\ UNCHANGED <<relayVars, status, told, pace>>

RegiStep ==
  /\ UNCHANGED <<relayVars, sendVars>>
  /\ Reg!Client \/ Reg!Tick

BrokerNext == (TrafficStep \/ SendStep \/ MgntStep \/ RegiStep) /\ KeepOwed

BrokerSpec == BrokerInit /\ [][BrokerNext]_brokerVars

-----------------------------------------------------------------------------
(***************************************************************************)
(* A message received when its service has a client finds the socket of    *)
(* the service when its turn comes, if the service keeps a client: the     *)
(* order to open the socket went ahead of the message, the order to close  *)
(* it comes only after the last client is gone, and the base runs both in  *)
(* the order of posting (handle_regi, check_svc_alive, evsock_pull_read,   *)
(* evsock_push_relay).                                                     *)
(***************************************************************************)
SocketWaits ==
  NextIs("push_relay") =>
    LET i == ctx[Head(sendq).arg].of IN
      i \in owed /\ msgs[i].dest # ROUTER => zsocks[msgs[i].dest] = "ZMQ_PUSH"

\* Seen from the messages, the whole is the relay path of module Relay, so what
\* is proved of that holds here: TR_MGNT posts nothing that Relay leaves out.
ImplementsRelay == Spec

\* Seen from the announcements, it is the registration path of module Registry:
\* messages and replies never touch a service's socket.
ImplementsRegistry == Reg!Spec
=============================================================================
