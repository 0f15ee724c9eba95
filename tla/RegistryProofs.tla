--------------------------- MODULE RegistryProofs ---------------------------
(***************************************************************************)
(* Proofs about module Registry, for any clients, services and bounds: the *)
(* sockets follow the registry, and TR_MGNT never sleeps on an             *)
(* announcement.                                                           *)
(*                                                                         *)
(* The invariant adds to the two what they rest on: the types, the names   *)
(* (a listed client, and one that waits to be listed, has its own service  *)
(* name), and the descriptor of the SUB socket, which is signalled, or     *)
(* armed at an empty socket, unless TR_MGNT is reading; besides, no        *)
(* service but one of that name has the ROUTER socket.                     *)
(***************************************************************************)
EXTENDS Registry, DataLemmas

Own(m) == IsRegi(m) => m.svcname = SvcOf[m.uuid]

NamesKept ==
  /\ \A u \in appls : svcname[u] = SvcOf[u]
  /\ \A k \in DOMAIN sub.q : Own(sub.q[k])

WaitsArmed == mpc # "sub" => sub.signal \/ (sub.armed /\ sub.q = << >>)

OnlyPush == \A s \in Services \ {ROUTER} : zsocks[s] # "ZMQ_ROUTER"

IInv == TypeOK /\ NamesKept /\ WaitsArmed /\ OnlyPush /\ SocketFollowsRegistry

-----------------------------------------------------------------------------
(* Steps.  Changes says what each action does to what the invariant reads. *)

Events == [h: {"push_create", "push_remove"}, arg: Services]

\* A message is read off the queue.
LEMMA Received ==
  ASSUME TypeOK, SubReceive
  PROVE  /\ sub' \in ZSockOf(Announcement) /\ sub'.q = Tail(sub.q)
         /\ Head(sub.q) \in Announcement /\ 1 \in DOMAIN sub.q /\ Head(sub.q) = sub.q[1]
  <1>1. sub \in ZSockOf(Announcement) /\ sub.q # << >> /\ sub.q \in Seq(Announcement)
    BY DEF TypeOK, SubReceive, ZSockOf
  <1>2. Head(sub.q) \in Announcement /\ 1 \in DOMAIN sub.q /\ Head(sub.q) = sub.q[1]
    BY <1>1, TailOf
  <1>3. Head(sub.q).parts \in Nat \ {0}
    BY <1>2 DEF Announcement
  <1>4. ReadOne
    BY DEF SubReceive
  <1>5. sub' \in ZSockOf(Announcement) /\ sub'.q = Tail(sub.q)
    BY <1>1, <1>3, <1>4, ReadKeeps DEF ReadOne
  <1> QED BY <1>2, <1>5

\* A client's registration is an announcement.
LEMMA RegiType == ASSUME NEW u \in Uuids PROVE regi(u) \in Announcement
  <1>1. SvcOf[u] \in Services \cup {NoName}
    BY SvcOfAssumption
  <1> QED BY <1>1, Z3 DEF regi, Announcement, zmsg_type_t

\* An event is posted: the queue keeps its type.
LEMMA PostType ==
  ASSUME TypeOK, NEW h \in {"push_create", "push_remove"}, NEW s \in Services,
         event_base_once(Event(h, s))
  PROVE  sendq' \in Seq(Events)
  <1>1. Event(h, s) \in Events
    BY DEF Event, Events
  <1>2. sendq \in Seq(Events) /\ sendq' = Append(sendq, Event(h, s))
    BY DEF TypeOK, Events, event_base_once
  <1> QED BY <1>1, <1>2, AppendProperties

\* Only a named service is ever posted about.
LEMMA FoundIsService ==
  ASSUME NEW others, NEW n \in Services \cup {NoName}, NoneFound(others, n)
  PROVE  n \in Services
BY DEF NoneFound

\* An event is run: the queue keeps its type, and the event was about a service.
LEMMA RunType ==
  ASSUME TypeOK, sendq # << >>, RunEvent(<< >>)
  PROVE  /\ sendq' = Tail(sendq) /\ sendq' \in Seq(Events) /\ sendq \in Seq(Events)
         /\ Head(sendq) \in Events /\ Head(sendq).arg \in Services
         /\ Head(sendq).arg \in Keys
  <1>1. sendq \in Seq(Events)
    BY DEF TypeOK, Events
  <1>2. Tail(sendq) \in Seq(Events) /\ Head(sendq) \in Events
    BY <1>1, TailOf
  <1>3. sendq' = Tail(sendq)
    BY <1>2, ConcatEmptySeq DEF RunEvent
  <1>4. Head(sendq).arg \in Services /\ Head(sendq).arg \in Keys
    BY <1>2 DEF Events, Keys
  <1> QED BY <1>1, <1>2, <1>3, <1>4

\* The broker starts with every variable in its type.
LEMMA InitType == Init => TypeOK
  <1> SUFFICES ASSUME Init PROVE TypeOK
    OBVIOUS
  <1>1. FreshZSock \in ZSockOf(Announcement)
    BY EmptySeq DEF FreshZSock, ZSockOf
  <1>2. 0 \in 0 .. Expiry + 1
    BY ExpiryAssumption
  <1>3. << >> \in Seq([h: {"push_create", "push_remove"}, arg: Services])
    BY EmptySeq
  <1>4. zsocks \in [Keys -> {"NONE", "ZMQ_ROUTER", "ZMQ_PUSH"}]
    BY DEF Init, InitSend
  <1> QED BY <1>1, <1>2, <1>3, <1>4 DEF Init, InitMgnt, InitSend, TypeOK

\* Every step of the clients, TR_MGNT and TR_SEND keeps the types.
LEMMA TypeStep == TypeOK /\ [Next]_vars => TypeOK'
  <1> SUFFICES ASSUME TypeOK, [Next]_vars PROVE TypeOK'
    OBVIOUS
  <1> USE ExpiryAssumption
  <1>0. sub \in ZSockOf(Announcement)
    BY DEF TypeOK
  <1>1. ASSUME NEW u \in Uuids, Join(u) \/ Leave(u) PROVE TypeOK'
    <2>1. sub' \in ZSockOf(Announcement)
      BY <1>0, <1>1, SocketKeeps DEF Join, Leave, SubConnect
    <2> QED BY <1>1, <2>1 DEF Join, Leave, SubConnect, TypeOK, sendVars
  <1>2. ASSUME NEW u \in Uuids, zutil_regi(u) PROVE TypeOK'
    <2>1. PICK m \in {regi(u)} \cup Strays : Announce(m)
      BY <1>2 DEF zutil_regi
    <2>2. m \in Announcement
      BY RegiType, StraysAssumption
    <2>3. sub' \in ZSockOf(Announcement)
      BY <1>0, <2>1, <2>2, ArriveKeeps DEF Announce
    <2> QED BY <1>2, <2>1, <2>3 DEF zutil_regi, Announce, TypeOK, sendVars
  <1>3. CASE Tick
    <2>1. age' \in [Uuids -> 0 .. Expiry + 1]
      BY <1>3 DEF Tick, Second, TypeOK
    <2> QED BY <1>3, <2>1 DEF Tick, Second, TypeOK, sendVars
  <1>4. CASE TrMgntStep
    <2>0. UNCHANGED clientVars /\ TrMgntNext
      BY <1>4 DEF TrMgntStep
    <2>1. CASE SubWake \/ SubNone
      <3>1. sub' \in ZSockOf(Announcement)
        BY <1>0, <2>1, SocketKeeps DEF SubWake, SubNone
      <3> QED BY <2>0, <2>1, <3>1 DEF SubWake, SubNone, TypeOK, sendVars, clientVars
    <2>2. CASE SubDiscard
      <3>1. sub' \in ZSockOf(Announcement)
        BY <2>2, Received DEF SubDiscard
      <3> QED BY <2>0, <2>2, <3>1 DEF SubDiscard, SubReceive, TypeOK, clientVars
    <2>3. CASE handle_regi
      <3> DEFINE m == Head(sub.q)
      <3>1. SubReceive
        BY <2>3 DEF handle_regi, RegiUpdate, RegiNew, ListNew
      <3>2. sub' \in ZSockOf(Announcement) /\ m.uuid \in Uuids
            /\ m.svcname \in Services \cup {NoName}
        BY <3>1, Received DEF Announcement
      <3>3. /\ svcname' = [svcname EXCEPT ![m.uuid] = m.svcname]
            /\ age' = [age EXCEPT ![m.uuid] = 0]
            /\ appls' = appls \/ appls' = appls \cup {m.uuid}
        BY <2>3 DEF handle_regi, RegiUpdate, RegiNew, ListNew
      <3>4. sendq' \in Seq(Events)
        <4>1. CASE UNCHANGED sendq
          BY <4>1 DEF TypeOK, Events
        <4>2. CASE ~UNCHANGED sendq
          <5>1. NoneFound(appls, m.svcname) /\ event_base_once(Event("push_create", m.svcname))
            BY <2>3, <4>2 DEF handle_regi, RegiUpdate, RegiNew, ListNew
          <5>2. m.svcname \in Services
            BY <3>2, <5>1, FoundIsService
          <5> QED BY <5>1, <5>2, PostType
        <4> QED BY <4>1, <4>2
      <3> HIDE DEF m
      <3>5. /\ svcname' \in [Uuids -> Services \cup {NoName}]
            /\ age' \in [Uuids -> 0 .. Expiry + 1] /\ appls' \in SUBSET Uuids
        BY <3>2, <3>3 DEF TypeOK
      <3> QED BY <2>0, <3>1, <3>2, <3>4, <3>5 DEF SubReceive, TypeOK, clientVars, Events
    <2>4. CASE ManageStart \/ ManageEnd \/ \E u \in Uuids : VisitAlive(u)
      <3>1. cursor' \in Nat
        BY <2>4, RankAssumption DEF ManageStart, ManageEnd, VisitAlive, TypeOK
      <3>2. UNCHANGED <<sub, appls, svcname, age, sendVars>> /\ mpc' \in {"wait", "sweep"}
            /\ due' \in BOOLEAN
        BY <2>4 DEF ManageStart, ManageEnd, VisitAlive, TypeOK
      <3> QED BY <2>0, <3>1, <3>2 DEF TypeOK, sendVars, clientVars
    <2>5. ASSUME NEW u \in Uuids, VisitExpired(u) PROVE TypeOK'
      <3>1. Unlist(u, NoneFound(appls \ {u}, svcname[u])) /\ svcname[u] \in Services \cup {NoName}
        BY <2>5 DEF VisitExpired, TypeOK
      <3>2. sendq' \in Seq(Events)
        <4>1. CASE UNCHANGED sendq
          BY <4>1 DEF TypeOK, Events
        <4>2. CASE ~UNCHANGED sendq
          <5>1. /\ NoneFound(appls \ {u}, svcname[u])
                /\ event_base_once(Event("push_remove", svcname[u]))
            BY <3>1, <4>2 DEF Unlist
          <5>2. svcname[u] \in Services
            BY <3>1, <5>1, FoundIsService
          <5> QED BY <5>1, <5>2, PostType
        <4> QED BY <4>1, <4>2
      <3>3. /\ svcname' \in [Uuids -> Services \cup {NoName}]
            /\ age' \in [Uuids -> 0 .. Expiry + 1]
        BY <3>1 DEF Unlist, TypeOK
      <3>4. cursor' \in Nat
        BY <3>1, RankAssumption DEF Unlist
      <3> QED BY <2>0, <3>1, <3>2, <3>3, <3>4 DEF Unlist, TypeOK, clientVars, Events
    <2> QED BY <2>0, <2>1, <2>2, <2>3, <2>4, <2>5
            DEF TrMgntNext, evsock_sub_read, manage_appls
  <1>5. CASE TrSendStep
    <2>1. UNCHANGED <<mgntVars, clientVars>> /\ sendq # << >> /\ RunEvent(<< >>)
      BY <1>5 DEF TrSendStep, evsock_push_create, evsock_push_remove, NextIs
    <2>2. sendq' \in Seq(Events) /\ Head(sendq).arg \in Keys
      BY <2>1, RunType
    <2>3. zsocks' \in [Keys -> {"NONE", "ZMQ_ROUTER", "ZMQ_PUSH"}]
      BY <1>5, <2>2 DEF TrSendStep, evsock_push_create, evsock_push_remove,
           add_zsock_to_list, del_zsock_from_list, TypeOK
    <2> QED BY <2>1, <2>2, <2>3 DEF TypeOK, mgntVars, clientVars, Events
  <1>6. CASE UNCHANGED vars
    BY <1>6 DEF vars, mgntVars, sendVars, clientVars, TypeOK
  <1> QED BY <1>1, <1>2, <1>3, <1>4, <1>5, <1>6 DEF Next, Client
-----------------------------------------------------------------------------
(* The names and the SUB socket. *)

\* Every step keeps the listed names those that were announced.
LEMMA NamesStep == TypeOK /\ NamesKept /\ [Next]_vars => NamesKept'
  <1> SUFFICES ASSUME TypeOK, NamesKept, [Next]_vars PROVE NamesKept'
    OBVIOUS
  <1>0. sub \in ZSockOf(Announcement) /\ sub.q \in Seq(Announcement)
    BY DEF TypeOK, ZSockOf
  <1>1. ASSUME NEW u \in Uuids, Join(u) \/ Leave(u) PROVE NamesKept'
    <2>1. sub'.q = sub.q
      BY <1>0, <1>1, SocketKeeps DEF Join, Leave, SubConnect
    <2> QED BY <1>1, <2>1 DEF Join, Leave, SubConnect, NamesKept
  <1>2. ASSUME NEW u \in Uuids, zutil_regi(u) PROVE NamesKept'
    <2>1. PICK m \in {regi(u)} \cup Strays : Announce(m)
      BY <1>2 DEF zutil_regi
    <2>2. m \in Announcement
      BY RegiType, StraysAssumption
    <2>3. Own(m)
      <3>1. CASE m = regi(u)
        BY <3>1 DEF Own, regi
      <3>2. CASE m \in Strays
        BY <3>2, StraysAssumption DEF Own
      <3> QED BY <2>1, <3>1, <3>2
    <2>4. sub'.q = Append(sub.q, m)
      BY <1>0, <2>1, <2>2, ArriveKeeps DEF Announce
    <2>5. \A k \in DOMAIN sub'.q : Own(sub'.q[k])
      BY <1>0, <2>2, <2>3, <2>4, AppendOf DEF NamesKept
    <2> QED BY <2>1, <2>5 DEF Announce, NamesKept
  <1>3. ASSUME SubReceive PROVE \A k \in DOMAIN sub'.q : Own(sub'.q[k])
    <2>1. sub'.q = Tail(sub.q) /\ sub.q # << >>
      BY <1>3, Received DEF SubReceive
    <2> QED BY <1>0, <2>1, TailOf DEF NamesKept
  <1>4. CASE SubDiscard
    BY <1>3, <1>4 DEF SubDiscard, NamesKept
  <1>5. CASE handle_regi
    <2> DEFINE m == Head(sub.q)
    <2>1. SubReceive /\ IsRegi(m)
      BY <1>5 DEF handle_regi, RegiUpdate, RegiNew, ListNew
    <2>2. m.svcname = SvcOf[m.uuid] /\ m.uuid \in Uuids
      BY <2>1, Received DEF NamesKept, Own, Announcement
    <2>3. /\ svcname' = [svcname EXCEPT ![m.uuid] = m.svcname]
          /\ appls' = appls \/ appls' = appls \cup {m.uuid}
      BY <1>5 DEF handle_regi, RegiUpdate, RegiNew, ListNew
    <2> HIDE DEF m
    <2>4. \A u \in appls' : svcname'[u] = SvcOf[u]
      BY <2>2, <2>3 DEF NamesKept, TypeOK
    <2> QED BY <1>3, <2>1, <2>4 DEF NamesKept
  <1>6. ASSUME NEW u \in Uuids, VisitExpired(u) PROVE NamesKept'
    BY <1>6 DEF VisitExpired, Unlist, NamesKept, TypeOK
  <1>7. CASE SubWake \/ SubNone
    <2>1. sub'.q = sub.q
      BY <1>0, <1>7, SocketKeeps DEF SubWake, SubNone
    <2> QED BY <1>7, <2>1 DEF SubWake, SubNone, NamesKept
  <1>8. CASE \/ Tick \/ TrSendStep \/ UNCHANGED vars \/ ManageStart \/ ManageEnd
             \/ \E u \in Uuids : VisitAlive(u)
    <2>1. UNCHANGED <<sub, appls, svcname>>
      BY <1>8 DEF Tick, Second, TrSendStep, vars, mgntVars, ManageStart, ManageEnd, VisitAlive
    <2> QED BY <2>1 DEF NamesKept
  <1> QED BY <1>1, <1>2, <1>4, <1>5, <1>6, <1>7, <1>8
          DEF Next, Client, TrMgntStep, TrMgntNext, evsock_sub_read, manage_appls

\* Outside the SUB callback every step leaves a wake-up signalled, or an empty
\* queue behind an armed socket.
LEMMA ArmedStep == TypeOK /\ WaitsArmed /\ [Next]_vars => WaitsArmed'
  <1> SUFFICES ASSUME TypeOK, WaitsArmed, [Next]_vars PROVE WaitsArmed'
    OBVIOUS
  <1>0. sub \in ZSockOf(Announcement)
    BY DEF TypeOK
  <1>1. ASSUME NEW u \in Uuids, Join(u) \/ Leave(u) PROVE WaitsArmed'
    <2>1. sub'.signal
      BY <1>0, <1>1 DEF Join, Leave, SubConnect, Attach, ZSockOf
    <2> QED BY <2>1 DEF WaitsArmed
  <1>2. ASSUME NEW u \in Uuids, zutil_regi(u) PROVE WaitsArmed'
    <2>1. PICK m \in {regi(u)} \cup Strays : Announce(m)
      BY <1>2 DEF zutil_regi
    <2>2. m \in Announcement
      BY RegiType, StraysAssumption
    <2>3. sub'.signal = (sub.signal \/ sub.armed) /\ mpc' = mpc
      BY <1>0, <2>1, <2>2, ArriveKeeps DEF Announce
    <2> QED BY <2>3 DEF WaitsArmed
  <1>3. CASE SubWake
    <2>1. (mpc' = "sub" \/ sub.q = << >>) /\ sub'.q = sub.q /\ (sub.q = << >> => sub'.armed)
      BY <1>0, <1>3 DEF SubWake, ReadEvents, ZSockOf
    <2> QED BY <2>1 DEF WaitsArmed
  <1>4. CASE SubNone
    <2>1. sub'.armed /\ sub'.q = << >>
      BY <1>0, <1>4 DEF SubNone, Again, zsock_drain_remain_part, ZSockOf
    <2> QED BY <2>1 DEF WaitsArmed
  <1>5. CASE SubDiscard \/ handle_regi
    <2>1. mpc' = "sub"
      BY <1>5 DEF SubDiscard, handle_regi, RegiUpdate, RegiNew, ListNew, SubReceive
    <2> QED BY <2>1 DEF WaitsArmed
  <1>6. CASE \/ Tick \/ TrSendStep \/ UNCHANGED vars \/ manage_appls
    <2>1. UNCHANGED sub /\ (mpc' = "sub" => mpc = "sub") /\ (mpc = "sub" => mpc' = "sub")
      BY <1>6 DEF Tick, Second, TrSendStep, vars, mgntVars, manage_appls, ManageStart,
           ManageEnd, VisitAlive, VisitExpired, Unlist
    <2> QED BY <2>1 DEF WaitsArmed
  <1> QED BY <1>1, <1>2, <1>3, <1>4, <1>5, <1>6
          DEF Next, Client, TrMgntStep, TrMgntNext, evsock_sub_read

-----------------------------------------------------------------------------
(* The sockets.  A service's events alternate between what its socket is   *)
(* and what the registry says; a step posts behind the last of them, runs  *)
(* the first, or leaves all three alone.                                   *)

\* An event at the end turns what is listed round.
LEMMA OneMore ==
  ASSUME NEW P \in SUBSET Nat, NEW C \in SUBSET P, NEW socket, NEW clients,
         Alternate(P, C, socket, clients), NEW n \in Nat, \A k \in P : k < n,
         NEW Q, Q = P \cup {n}, NEW next, next # {} <=> clients = {},
         NEW D \in SUBSET Q, \A k \in P : k \in D <=> k \in C, n \in D <=> next # {}
  PROVE  Alternate(Q, D, socket, next)
  <1>1. ASSUME NEW k \in Q, \A j \in Q : k <= j PROVE k \in D <=> socket # "ZMQ_PUSH"
    <2>1. CASE k = n
      <3>1. P = {}
        BY <1>1, <2>1
      <3> QED BY <2>1, <3>1 DEF Alternate
    <2>2. CASE k \in P
      BY <1>1, <2>2 DEF Alternate
    <2> QED BY <2>1, <2>2
  <1>2. ASSUME NEW k \in Q, \A j \in Q : j <= k PROVE k \in D <=> next # {}
    <2>1. k = n
      BY <1>2
    <2> QED BY <2>1
  <1>3. ASSUME NEW k \in Q, NEW j \in Q, j < k, \A i \in Q : i <= j \/ k <= i
        PROVE  j \in D <=> k \notin D
    <2>1. j \in P
      BY <1>3
    <2>2. CASE k = n
      <3>1. \A i \in P : i <= j
        BY <1>3, <2>2
      <3> QED BY <2>1, <2>2, <3>1 DEF Alternate
    <2>3. CASE k \in P
      BY <1>3, <2>1, <2>3 DEF Alternate
    <2> QED BY <2>2, <2>3
  <1> QED BY <1>1, <1>2, <1>3 DEF Alternate

\* The places move up by one; if there was an event at the first, it has been run.
LEMMA OneLess ==
  ASSUME NEW P \in SUBSET (Nat \ {0}), NEW C \in SUBSET P,
         NEW socket, NEW clients, Alternate(P, C, socket, clients),
         NEW Q \in SUBSET (Nat \ {0}), NEW D \in SUBSET Q,
         \A k \in Q : k + 1 \in P /\ (k \in D <=> k + 1 \in C),
         \A k \in P : k # 1 => k - 1 \in Q,
         NEW now, now = "ZMQ_PUSH" <=> IF 1 \in P THEN 1 \in C ELSE socket = "ZMQ_PUSH"
  PROVE  Alternate(Q, D, now, clients)
  <1>1. ASSUME Q = {} PROVE now = "ZMQ_PUSH" <=> clients # {}
    <2>1. \A k \in P : k = 1
      BY <1>1
    <2>2. CASE 1 \in P
      BY <2>1, <2>2 DEF Alternate
    <2>3. CASE 1 \notin P
      BY <2>1, <2>3 DEF Alternate
    <2> QED BY <2>2, <2>3
  <1>2. ASSUME NEW k \in Q, \A j \in Q : k <= j PROVE k \in D <=> now # "ZMQ_PUSH"
    <2>1. \A i \in P : i = 1 \/ k + 1 <= i
      BY <1>2
    <2>2. CASE 1 \in P
      <3>1. 1 < k + 1 /\ \A i \in P : i <= 1 \/ k + 1 <= i
        BY <2>1
      <3> QED BY <2>2, <3>1 DEF Alternate
    <2>3. CASE 1 \notin P
      BY <2>1, <2>3 DEF Alternate
    <2> QED BY <2>2, <2>3
  <1>3. ASSUME NEW k \in Q, \A j \in Q : j <= k PROVE k \in D <=> clients # {}
    <2>1. \A j \in P : j <= k + 1
      BY <1>3
    <2> QED BY <2>1 DEF Alternate
  <1>4. ASSUME NEW k \in Q, NEW j \in Q, j < k, \A i \in Q : i <= j \/ k <= i
        PROVE  j \in D <=> k \notin D
    <2>1. j + 1 < k + 1 /\ \A i \in P : i <= j + 1 \/ k + 1 <= i
      BY <1>4
    <2> QED BY <2>1 DEF Alternate
  <1> QED BY <1>1, <1>2, <1>3, <1>4 DEF Alternate

\* An event of another service is posted.
LEMMA OtherPosts ==
  ASSUME TypeOK, NEW s \in Services, Follows(s), NEW e \in Events, e.arg # s,
         sendq' = Append(sendq, e), UNCHANGED zsocks, ClientsOf(s)' = ClientsOf(s)
  PROVE  Follows(s)'
  <1>1. sendq \in Seq(Events)
    BY DEF TypeOK, Events
  <1> DEFINE n == Len(sendq) + 1
  <1>2. /\ n \in DOMAIN sendq' /\ sendq'[n] = e
        /\ \A k \in DOMAIN sendq : k \in DOMAIN sendq' /\ sendq'[k] = sendq[k]
        /\ \A k \in DOMAIN sendq' : k # n => k \in DOMAIN sendq
    BY <1>1, AppendOf
  <1> HIDE DEF n
  <1>3. Pending(s)' = Pending(s) /\ Creating(s)' = Creating(s)
    BY <1>2 DEF Pending, Creating
  <1> QED BY <1>3 DEF Follows

\* The service gets its first client, or loses its last, and says so.
LEMMA OwnPosts ==
  ASSUME TypeOK, NEW s \in Services, Follows(s), NEW e \in Events, e.arg = s,
         e.h = "push_create" <=> Registered(s)',
         sendq' = Append(sendq, e), UNCHANGED zsocks, Registered(s)' <=> ~Registered(s)
  PROVE  Follows(s)'
  <1>1. sendq \in Seq(Events)
    BY DEF TypeOK, Events
  <1> DEFINE n == Len(sendq) + 1
  <1>2. /\ n \in DOMAIN sendq' /\ sendq'[n] = e
        /\ \A k \in DOMAIN sendq : k < n /\ k \in DOMAIN sendq' /\ sendq'[k] = sendq[k]
        /\ \A k \in DOMAIN sendq' : k # n => k \in DOMAIN sendq
        /\ n \in Nat /\ DOMAIN sendq \subseteq Nat
    BY <1>1, AppendOf, LenProperties
  <1> HIDE DEF n
  <1> DEFINE P == Pending(s)  C == Creating(s)  Q == Pending(s)'  D == Creating(s)'
             clients == ClientsOf(s)  next == ClientsOf(s)'
  <1>3. /\ Q = P \cup {n} /\ P \in SUBSET Nat /\ C \in SUBSET P
        /\ D \in SUBSET Q /\ (\A k \in P : k < n)
        /\ \A k \in P : k \in D <=> k \in C
        /\ n \in D <=> e.h = "push_create"
    BY <1>2 DEF Pending, Creating
  <1>4. (n \in D <=> next # {}) /\ (next # {} <=> clients = {}) /\ n \in Nat
    BY <1>2, <1>3 DEF Registered
  <1>5. Alternate(P, C, zsocks[s], clients)
    BY DEF Follows
  <1> HIDE DEF P, C, Q, D, clients, next
  <1>6. Alternate(Q, D, zsocks[s], next)
    BY ONLY <1>3, <1>4, <1>5, OneMore
  <1> QED BY <1>6 DEF Follows, Q, D, next

\* TR_SEND runs the next event, for this service or another.
LEMMA Runs ==
  ASSUME TypeOK, NEW s \in Services, Follows(s), sendq # << >>, sendq' = Tail(sendq),
         ClientsOf(s)' = ClientsOf(s),
         Head(sendq).arg # s => zsocks'[s] = zsocks[s],
         Head(sendq).arg = s =>
           (zsocks'[s] = "ZMQ_PUSH" <=> Head(sendq).h = "push_create")
  PROVE  Follows(s)'
  <1>1. sendq \in Seq(Events)
    BY DEF TypeOK, Events
  <1>2. /\ 1 \in DOMAIN sendq /\ sendq[1] = Head(sendq) /\ DOMAIN sendq \subseteq Nat \ {0}
        /\ DOMAIN sendq' \subseteq Nat \ {0}
        /\ \A k \in DOMAIN sendq' : k + 1 \in DOMAIN sendq /\ sendq'[k] = sendq[k + 1]
        /\ \A k \in DOMAIN sendq : k # 1 => k - 1 \in DOMAIN sendq' /\ sendq'[k - 1] = sendq[k]
    BY <1>1, TailOf, LenProperties
  <1> DEFINE P == Pending(s)  C == Creating(s)  Q == Pending(s)'  D == Creating(s)'
             clients == ClientsOf(s)  now == zsocks'[s]
  <1>3. /\ P \in SUBSET (Nat \ {0}) /\ Q \in SUBSET (Nat \ {0})
        /\ C \in SUBSET P /\ D \in SUBSET Q
        /\ \A k \in Q : k + 1 \in P /\ (k \in D <=> k + 1 \in C)
        /\ \A k \in P : k # 1 => k - 1 \in Q
        /\ 1 \in P <=> Head(sendq).arg = s
        /\ 1 \in P => (1 \in C <=> Head(sendq).h = "push_create")
    BY <1>2 DEF Pending, Creating
  <1>4. now = "ZMQ_PUSH" <=> IF 1 \in P THEN 1 \in C ELSE zsocks[s] = "ZMQ_PUSH"
    BY <1>3
  <1>5. Alternate(P, C, zsocks[s], clients)
    BY DEF Follows
  <1> HIDE DEF P, C, Q, D, clients, now
  <1>6. Alternate(Q, D, now, clients)
    BY <1>3, <1>4, <1>5, OneLess
  <1> QED BY <1>6 DEF Follows, Q, D, now, clients

\* Every step keeps the sockets of services PUSH sockets.
LEMMA PushStep == TypeOK /\ OnlyPush /\ [Next]_vars => OnlyPush'
  <1> SUFFICES ASSUME TypeOK, OnlyPush, [Next]_vars PROVE OnlyPush'
    OBVIOUS
  <1>1. CASE TrSendStep
    <2>1. sendq # << >> /\ RunEvent(<< >>)
      BY <1>1 DEF TrSendStep, evsock_push_create, evsock_push_remove, NextIs
    <2>2. Head(sendq).arg \in Keys
      BY <2>1, RunType
    <2> QED BY <1>1, <2>2 DEF TrSendStep, evsock_push_create, evsock_push_remove,
              add_zsock_to_list, del_zsock_from_list, TypeOK, OnlyPush, Keys
  <1>2. CASE ~TrSendStep
    <2>1. UNCHANGED zsocks
      BY <1>2 DEF Next, Client, Join, Leave, zutil_regi, SubConnect, Announce, Tick, Second,
           TrMgntStep, TrMgntNext, evsock_sub_read, SubWake, SubNone, SubDiscard, SubReceive,
           handle_regi, RegiUpdate, RegiNew, ListNew, manage_appls, ManageStart, ManageEnd,
           VisitAlive, VisitExpired, Unlist, vars, sendVars
    <2> QED BY <2>1 DEF OnlyPush
  <1> QED BY <1>1, <1>2

\* A new client is listed.
LEMMA ListStep ==
  ASSUME TypeOK, NamesKept, RegiNew, NEW s \in Services, Follows(s)
  PROVE  Follows(s)'
  <1> DEFINE m == Head(sub.q)  n == m.svcname  e == Event("push_create", n)
  <1>1. SubReceive /\ m.uuid \notin appls /\ appls' = appls \cup {m.uuid}
        /\ svcname' = [svcname EXCEPT ![m.uuid] = n] /\ UNCHANGED zsocks
        /\ IF NoneFound(appls, n) THEN sendq' = Append(sendq, e) ELSE UNCHANGED sendq
    BY DEF RegiNew, ListNew, SubReceive, event_base_once
  <1>2. m.uuid \in Uuids /\ n \in Services \cup {NoName}
    BY <1>1, Received DEF Announcement
  <1> DEFINE u == m.uuid
  <1>3. /\ \A v \in appls : svcname'[v] = svcname[v]
        /\ svcname'[u] = n
    BY <1>1, <1>2 DEF TypeOK
  <1>4. ClientsOf(s)' = IF s = n THEN ClientsOf(s) \cup {u} ELSE ClientsOf(s)
    <2> HIDE DEF m, n
    <2> QED BY <1>1, <1>3 DEF ClientsOf
  <1>5. NoneFound(appls, n) <=> n # NoName /\ ClientsOf(n) = {}
    BY DEF NoneFound, ClientsOf
  <1>6. n \in Services => e \in Events /\ e.arg = n /\ e.h = "push_create"
    BY DEF Event, Events
  <1>7. s # NoName
    BY NamesAssumption
  <1> HIDE DEF m, n, u, e
  <1>8. CASE NoneFound(appls, n)
    <2>1. n \in Services /\ sendq' = Append(sendq, e)
      BY <1>1, <1>2, <1>8, FoundIsService
    <2>2. CASE s = n
      <3>1. (Registered(s) <=> FALSE) /\ (Registered(s)' <=> TRUE)
        BY <1>4, <1>5, <1>8, <2>2 DEF Registered
      <3> QED BY <1>1, <1>6, <2>1, <2>2, <3>1, OwnPosts
    <2>3. CASE s # n
      BY <1>1, <1>4, <1>6, <2>1, <2>3, OtherPosts
    <2> QED BY <2>2, <2>3
  <1>9. CASE ~NoneFound(appls, n)
    <2>1. UNCHANGED <<sendq, zsocks>>
      BY <1>1, <1>9
    <2>2. ClientsOf(s)' # {} <=> ClientsOf(s) # {}
      BY <1>4, <1>5, <1>7, <1>9
    <2> QED BY <2>1, <2>2 DEF Follows, Alternate, Pending, Creating
  <1> QED BY <1>8, <1>9

\* A silent client is unlisted.
LEMMA UnlistStep ==
  ASSUME TypeOK, NEW u \in Uuids, VisitExpired(u), NEW s \in Services, Follows(s)
  PROVE  Follows(s)'
  <1> DEFINE n == svcname[u]  e == Event("push_remove", n)  rest == appls \ {u}
  <1>1. /\ u \in appls /\ appls' = rest /\ svcname' = [svcname EXCEPT ![u] = NoName]
        /\ UNCHANGED zsocks
        /\ IF NoneFound(rest, n) THEN sendq' = Append(sendq, e) ELSE UNCHANGED sendq
    BY DEF VisitExpired, Unlist, Visited, Ahead, event_base_once
  <1>2. n \in Services \cup {NoName}
    BY DEF TypeOK
  <1>3. \A v \in rest : svcname'[v] = svcname[v]
    BY <1>1 DEF TypeOK
  <1>4. /\ ClientsOf(s)' = ClientsOf(s) \ {u}
        /\ u \in ClientsOf(s) <=> s = n
    BY <1>1, <1>3 DEF ClientsOf
  <1>5. NoneFound(rest, n) <=> n # NoName /\ ClientsOf(n) \ {u} = {}
    BY DEF NoneFound, ClientsOf
  <1>6. n \in Services => e \in Events /\ e.arg = n /\ e.h # "push_create"
    BY DEF Event, Events
  <1>7. s # NoName
    BY NamesAssumption
  <1> HIDE DEF n, e, rest
  <1>8. CASE NoneFound(rest, n)
    <2>1. n \in Services /\ sendq' = Append(sendq, e)
      BY <1>1, <1>2, <1>8, FoundIsService
    <2>2. CASE s = n
      <3>1. (Registered(s) <=> TRUE) /\ (Registered(s)' <=> FALSE)
        BY <1>4, <1>5, <1>8, <2>2 DEF Registered
      <3> QED BY <1>1, <1>6, <2>1, <2>2, <3>1, OwnPosts
    <2>3. CASE s # n
      <3>1. ClientsOf(s)' = ClientsOf(s)
        BY <1>4, <2>3
      <3> QED BY <1>1, <1>6, <2>1, <2>3, <3>1, OtherPosts
    <2> QED BY <2>2, <2>3
  <1>9. CASE ~NoneFound(rest, n)
    <2>1. UNCHANGED <<sendq, zsocks>>
      BY <1>1, <1>9
    <2>2. ClientsOf(s)' # {} <=> ClientsOf(s) # {}
      BY <1>4, <1>5, <1>7, <1>9
    <2> QED BY <2>1, <2>2 DEF Follows, Alternate, Pending, Creating
  <1> QED BY <1>8, <1>9

\* TR_SEND opens a socket only where there is none, and closes only a service's.
LEMMA SendStep ==
  ASSUME TypeOK, OnlyPush, TrSendStep, NEW s \in Services \ {ROUTER}, Follows(s)
  PROVE  Follows(s)'
  <1> DEFINE e == Head(sendq)
  <1>1. sendq # << >> /\ RunEvent(<< >>) /\ UNCHANGED <<mgntVars, clientVars>>
    BY DEF TrSendStep, evsock_push_create, evsock_push_remove, NextIs
  <1>2. /\ sendq' = Tail(sendq) /\ e \in Events /\ e.arg \in Keys
        /\ e.h \in {"push_create", "push_remove"}
    BY <1>1, RunType DEF Events
  <1>3. zsocks[s] \in {"NONE", "ZMQ_PUSH"}
    BY DEF OnlyPush, TypeOK, Keys
  <1>4. CASE evsock_push_create
    <2>1. e.h = "push_create" /\ add_zsock_to_list(e.arg, "ZMQ_PUSH")
      BY <1>4 DEF evsock_push_create, NextIs
    <2>2. /\ e.arg # s => zsocks'[s] = zsocks[s]
          /\ e.arg = s => zsocks'[s] = "ZMQ_PUSH"
      BY <1>2, <1>3, <2>1 DEF add_zsock_to_list, TypeOK, Keys
    <2>3. ClientsOf(s)' = ClientsOf(s)
      BY <1>1 DEF ClientsOf, mgntVars
    <2> QED BY <1>1, <1>2, <2>1, <2>2, <2>3, Runs
  <1>5. CASE evsock_push_remove
    <2>1. e.h = "push_remove" /\ del_zsock_from_list(e.arg, "ZMQ_PUSH")
      BY <1>5 DEF evsock_push_remove, NextIs
    <2>2. /\ e.arg # s => zsocks'[s] = zsocks[s]
          /\ e.arg = s => zsocks'[s] # "ZMQ_PUSH"
      BY <1>2, <1>3, <2>1 DEF del_zsock_from_list, TypeOK, Keys
    <2>3. ClientsOf(s)' = ClientsOf(s)
      BY <1>1 DEF ClientsOf, mgntVars
    <2> QED BY <1>1, <1>2, <2>1, <2>2, <2>3, Runs
  <1> QED BY <1>4, <1>5 DEF TrSendStep

\* Every step keeps sockets and pending events in line with the clients listed.
LEMMA FollowStep ==
  TypeOK /\ NamesKept /\ OnlyPush /\ SocketFollowsRegistry /\ [Next]_vars
    => SocketFollowsRegistry'
  <1> SUFFICES ASSUME TypeOK, NamesKept, OnlyPush, SocketFollowsRegistry, [Next]_vars,
                      NEW s \in Services \ {ROUTER}
               PROVE  Follows(s)'
    BY DEF SocketFollowsRegistry
  <1>0. Follows(s)
    BY DEF SocketFollowsRegistry
  <1>1. CASE RegiNew
    BY <1>0, <1>1, ListStep
  <1>2. ASSUME NEW u \in Uuids, VisitExpired(u) PROVE Follows(s)'
    BY <1>0, <1>2, UnlistStep
  <1>3. CASE TrSendStep
    BY <1>0, <1>3, SendStep
  <1>4. CASE RegiUpdate
    <2> DEFINE m == Head(sub.q)
    <2>1. /\ m.uuid \in appls /\ IsRegi(m) /\ SubReceive /\ UNCHANGED <<appls, sendq, zsocks>>
          /\ svcname' = [svcname EXCEPT ![m.uuid] = m.svcname]
      BY <1>4 DEF RegiUpdate, SubReceive
    <2>2. svcname[m.uuid] = SvcOf[m.uuid] /\ m.svcname = SvcOf[m.uuid]
      BY <2>1, Received DEF NamesKept, Own
    <2> HIDE DEF m
    <2>3. UNCHANGED svcname
      BY <2>1, <2>2 DEF TypeOK
    <2> QED BY <1>0, <2>1, <2>3 DEF Follows, Pending, Creating, ClientsOf
  <1>5. CASE \/ Client \/ Tick \/ UNCHANGED vars \/ SubWake \/ SubNone \/ SubDiscard
             \/ ManageStart \/ ManageEnd \/ \E u \in Uuids : VisitAlive(u)
    <2>1. UNCHANGED <<appls, svcname, sendq, zsocks>>
      BY <1>5 DEF Client, Join, Leave, zutil_regi, SubConnect, Announce, Tick, Second, vars,
           mgntVars, sendVars, SubWake, SubNone, SubDiscard, SubReceive, ManageStart,
           ManageEnd, VisitAlive
    <2> QED BY <1>0, <2>1 DEF Follows, Pending, Creating, ClientsOf
  <1> QED BY <1>1, <1>2, <1>3, <1>4, <1>5
          DEF Next, TrMgntStep, TrMgntNext, evsock_sub_read, handle_regi, manage_appls

-----------------------------------------------------------------------------
(* The theorems. *)

\* With nobody listed, nothing queued and no socket open, the invariant holds.
LEMMA InitInv == Init => IInv
  <1> SUFFICES ASSUME Init PROVE IInv
    OBVIOUS
  <1>1. TypeOK
    BY InitType
  <1>2. NamesKept /\ WaitsArmed
    BY EmptySeq DEF Init, InitMgnt, FreshZSock, NamesKept, WaitsArmed
  <1>3. /\ sendq = << >> /\ appls = {}
        /\ \A s \in Services \ {ROUTER} : zsocks[s] = "NONE"
    BY DEF Init, InitMgnt, InitSend, Keys
  <1>4. \A s \in Services : Pending(s) = {} /\ ClientsOf(s) = {}
    BY <1>3, EmptySeq DEF Pending, ClientsOf
  <1>5. OnlyPush /\ SocketFollowsRegistry
    BY <1>3, <1>4 DEF OnlyPush, SocketFollowsRegistry, Follows, Alternate
  <1> QED BY <1>1, <1>2, <1>5 DEF IInv

\* It is inductive: part by part, by the lemmas above.
LEMMA InvStep == IInv /\ [Next]_vars => IInv'
BY TypeStep, NamesStep, ArmedStep, PushStep, FollowStep DEF IInv

\* The registry's strengthened invariant holds of every reachable state
\* (evsock_sub_read, manage_appls and the socket handlers of TR_SEND).
THEOREM RegistryInvariant == Spec => []IInv
BY InitInv, InvStep, PTL DEF Spec

\* All variables of the registration path keep their types.
THEOREM TypeCorrect == Spec => []TypeOK
  <1>1. IInv => TypeOK
    BY DEF IInv
  <1> QED BY <1>1, RegistryInvariant, PTL

\* No create is refused for a socket about to go, and no late remove closes the
\* socket of a service that came back, for any number of clients and services
\* and however far TR_SEND lags behind (handle_regi, check_svc_alive).
THEOREM SocketsFollow == Spec => []SocketFollowsRegistry
  <1>1. IInv => SocketFollowsRegistry
    BY DEF IInv
  <1> QED BY <1>1, RegistryInvariant, PTL

\* TR_MGNT never sleeps on an announcement: with one in the SUB socket and
\* nothing in hand it has a signal (evsock_sub_read).
THEOREM NoSleepOnAnnouncement == Spec => []NoLostAnnouncement
  <1>1. IInv => NoLostAnnouncement
    BY DEF IInv, WaitsArmed, NoLostAnnouncement
  <1> QED BY <1>1, RegistryInvariant, PTL

-----------------------------------------------------------------------------
(* Who is dropped.  Where clients are punctual and publish nothing but     *)
(* their registrations, as zutil.c does, the time stamp of a client that   *)
(* is up is at most a second old, and it is fresh once the client has      *)
(* announced itself in this second, unless the announcement still waits in *)
(* the SUB socket; at the next tick none does.                             *)

\* An announcement of the client waits in the SUB socket.
Waiting(u) == \E k \in DOMAIN sub.q : sub.q[k] = regi(u)

OwnOnly == \A k \in DOMAIN sub.q :
             \E u \in Uuids : sub.q[k] = regi(u) /\ status[u] # "new"

ListedNotNew == \A u \in appls : status[u] # "new"

FreshStamp(u) == age[u] <= 1 /\ (u \in told => age[u] = 0 \/ Waiting(u))

FreshStamps ==
  pace = "punctual" => \A u \in appls : status[u] = "up" => FreshStamp(u)

\* A client of the registry is registered by what it publishes.
LEMMA RegiIsRegi ==
  ASSUME NEW u \in Uuids, NEW v \in Uuids
  PROVE  IsRegi(regi(u)) /\ regi(u).uuid = u /\ (regi(u) = regi(v) => u = v)
BY DEF IsRegi, regi

\* What waits behind the head still waits when it is taken.
LEMMA TakenOne ==
  ASSUME TypeOK, SubReceive, OwnOnly
  PROVE  /\ \E u \in Uuids : Head(sub.q) = regi(u) /\ status[u] # "new"
         /\ \A k \in DOMAIN sub'.q :
              \E u \in Uuids : sub'.q[k] = regi(u) /\ status[u] # "new"
         /\ \A u \in Uuids : Waiting(u) => Head(sub.q) = regi(u) \/ Waiting(u)'
  <1>1. sub.q # << >> /\ sub.q \in Seq(Announcement) /\ sub'.q = Tail(sub.q)
    BY Received DEF SubReceive, TypeOK, ZSockOf
  <1>2. 1 \in DOMAIN sub.q /\ sub.q[1] = Head(sub.q)
    BY <1>1, TailOf
  <1>3. \A k \in DOMAIN sub'.q : k + 1 \in DOMAIN sub.q /\ sub'.q[k] = sub.q[k + 1]
    BY <1>1, TailOf
  <1>4. \A k \in DOMAIN sub.q : k = 1 \/ (k - 1 \in DOMAIN sub'.q /\ sub'.q[k - 1] = sub.q[k])
    BY <1>1, TailOf, LenProperties
  <1>5. ASSUME NEW u \in Uuids, Waiting(u) PROVE Head(sub.q) = regi(u) \/ Waiting(u)'
    <2>1. PICK k \in DOMAIN sub.q : sub.q[k] = regi(u)
      BY <1>5 DEF Waiting
    <2>2. CASE k = 1
      BY <1>2, <2>1, <2>2
    <2>3. CASE k # 1
      <3>1. k - 1 \in DOMAIN sub'.q /\ sub'.q[k - 1] = regi(u)
        BY <1>4, <2>1, <2>3
      <3>2. regi(u)' = regi(u)
        BY DEF regi
      <3> QED BY <3>1, <3>2 DEF Waiting
    <2> QED BY <2>2, <2>3
  <1> QED BY <1>2, <1>3, <1>5 DEF OwnOnly

\* A step that leaves the socket's queue, the list and the stamps alone, and
\* makes no client up or told that has a stamp, keeps the stamps fresh.
LEMMA StampsFrame ==
  ASSUME FreshStamps, UNCHANGED pace, sub'.q = sub.q,
         \A u \in appls' : status'[u] = "up" =>
           u \in appls /\ status[u] = "up" /\ age'[u] = age[u] /\ (u \in told' => u \in told)
  PROVE  FreshStamps'
  <1> SUFFICES ASSUME pace = "punctual", NEW u \in appls', status'[u] = "up"
               PROVE  FreshStamp(u)'
    BY DEF FreshStamps
  <1>1. FreshStamp(u) /\ age'[u] = age[u] /\ (u \in told' => u \in told)
    BY DEF FreshStamps
  <1>2. Waiting(u)' <=> Waiting(u)
    BY DEF Waiting, regi
  <1> QED BY <1>1, <1>2 DEF FreshStamp

Punctual == OwnOnly /\ ListedNotNew /\ FreshStamps

\* With punctual clients every step keeps the stamps of those listed fresh.
LEMMA PunctualStep ==
  ASSUME Strays = {}, Expiry > 0, TypeOK, WaitsArmed, Punctual, [Next]_vars
  PROVE  Punctual'
  <1>0. /\ sub \in ZSockOf(Announcement) /\ sub.q \in Seq(Announcement)
        /\ OwnOnly /\ ListedNotNew /\ FreshStamps
        /\ \A u \in Uuids : age[u] \in Nat
        /\ appls \subseteq Uuids
    BY ExpiryAssumption DEF TypeOK, ZSockOf, Punctual
  <1>1. ASSUME NEW u \in Uuids, Join(u) \/ Leave(u) PROVE Punctual'
    <2>1. sub'.q = sub.q /\ UNCHANGED <<appls, age, told, pace>>
      BY <1>0, <1>1, SocketKeeps DEF Join, Leave, SubConnect
    <2>2. \A v \in Uuids : /\ status[v] # "new" => status'[v] # "new"
                           /\ status'[v] = "up" => status[v] \in {"new", "up"}
      BY <1>1 DEF Join, Leave, TypeOK
    <2>3. OwnOnly' /\ ListedNotNew'
      BY <1>0, <2>1, <2>2 DEF OwnOnly, ListedNotNew, regi
    <2>4. \A v \in appls : status'[v] = "up" => status[v] = "up"
      BY <1>0, <2>2 DEF ListedNotNew
    <2> QED BY <1>0, <2>1, <2>3, <2>4, StampsFrame DEF Punctual
  <1>2. ASSUME NEW u \in Uuids, zutil_regi(u) PROVE Punctual'
    <2>1. /\ Announce(regi(u)) /\ status[u] = "up" /\ told' = told \cup {u}
          /\ UNCHANGED <<status, pace, appls, age>>
      BY <1>2 DEF zutil_regi, Announce
    <2>2. sub'.q = Append(sub.q, regi(u))
      BY <1>0, <2>1, RegiType, ArriveKeeps DEF Announce
    <2> DEFINE n == Len(sub.q) + 1
    <2>3. /\ n \in DOMAIN sub'.q /\ sub'.q[n] = regi(u)
          /\ \A k \in DOMAIN sub.q : k \in DOMAIN sub'.q /\ sub'.q[k] = sub.q[k]
          /\ \A k \in DOMAIN sub'.q : k # n => k \in DOMAIN sub.q
      BY <1>0, <2>2, RegiType, AppendOf
    <2> HIDE DEF n
    <2>4. OwnOnly' /\ ListedNotNew'
      BY <1>0, <2>1, <2>3 DEF OwnOnly, ListedNotNew, regi
    <2>5. Waiting(u)' /\ \A v \in Uuids : Waiting(v) => Waiting(v)'
      BY <2>3 DEF Waiting, regi
    <2>6. FreshStamps'
      BY <1>0, <2>1, <2>5 DEF FreshStamps, FreshStamp
    <2> QED BY <2>4, <2>6 DEF Punctual
  <1>3. CASE Tick
    <2>1. UNCHANGED <<sub, appls, status, pace>> /\ told' = {}
      BY <1>3 DEF Tick, Second
    <2>2. OwnOnly' /\ ListedNotNew'
      BY <1>0, <2>1 DEF OwnOnly, ListedNotNew, regi
    <2>3. ASSUME pace = "punctual", NEW u \in appls, status[u] = "up" PROVE FreshStamp(u)'
      <3>1. sub.q = << >> /\ u \in told
        BY <1>0, <1>3, <2>3 DEF Tick, WaitsArmed, Up
      <3>2. age[u] = 0
        BY <1>0, <2>3, <3>1, EmptySeq DEF FreshStamps, FreshStamp, Waiting
      <3>3. age'[u] = 1
        BY <1>0, <1>3, <3>2, ExpiryAssumption DEF Tick, Second
      <3> QED BY <2>1, <3>3 DEF FreshStamp
    <2> QED BY <2>1, <2>2, <2>3 DEF Punctual, FreshStamps
  <1>4. CASE SubDiscard /\ UNCHANGED clientVars
    BY <1>0, <1>4, TakenOne, RegiIsRegi DEF SubDiscard
  <1>5. CASE handle_regi /\ UNCHANGED clientVars
    <2>1. SubReceive /\ UNCHANGED <<status, told, pace>>
      BY <1>5 DEF handle_regi, RegiUpdate, RegiNew, ListNew, clientVars
    <2>2. PICK u \in Uuids : Head(sub.q) = regi(u) /\ status[u] # "new"
      BY <1>0, <2>1, TakenOne
    <2>3. age' = [age EXCEPT ![u] = 0] /\ (appls' = appls \/ appls' = appls \cup {u})
      BY <1>5, <2>2, RegiIsRegi DEF handle_regi, RegiUpdate, RegiNew, ListNew
    <2>4. OwnOnly'
      BY <1>0, <2>1, TakenOne DEF OwnOnly, regi
    <2>5. ListedNotNew'
      BY <1>0, <2>1, <2>2, <2>3 DEF ListedNotNew
    <2>6. ASSUME pace = "punctual", NEW v \in appls', status[v] = "up" PROVE FreshStamp(v)'
      <3>1. CASE v = u
        <4>1. age'[v] = 0
          BY <2>3, <3>1 DEF TypeOK
        <4> QED BY <4>1 DEF FreshStamp
      <3>2. CASE v # u
        <4>1. v \in appls /\ age'[v] = age[v] /\ Head(sub.q) # regi(v) /\ v \in Uuids
          BY <1>0, <2>2, <2>3, <2>6, <3>2, RegiIsRegi DEF TypeOK
        <4>2. FreshStamp(v) /\ (Waiting(v) => Waiting(v)')
          BY <1>0, <2>1, <2>6, <4>1, TakenOne DEF FreshStamps
        <4> QED BY <2>1, <4>1, <4>2 DEF FreshStamp
      <3> QED BY <3>1, <3>2
    <2> QED BY <2>1, <2>4, <2>5, <2>6 DEF Punctual, FreshStamps
  <1>6. ASSUME NEW u \in Uuids, VisitExpired(u), UNCHANGED clientVars PROVE Punctual'
    <2>1. /\ UNCHANGED <<sub, status, told, pace>> /\ appls' = appls \ {u}
          /\ \A v \in Uuids \ {u} : age'[v] = age[v]
      BY <1>6 DEF VisitExpired, Unlist, clientVars, TypeOK
    <2>2. OwnOnly' /\ ListedNotNew'
      BY <1>0, <2>1 DEF OwnOnly, ListedNotNew, regi
    <2> QED BY <1>0, <2>1, <2>2, StampsFrame DEF Punctual
  <1>7. CASE (SubWake \/ SubNone) /\ UNCHANGED clientVars
    <2>1. sub'.q = sub.q /\ UNCHANGED <<appls, age, status, told, pace>>
      BY <1>0, <1>7, SocketKeeps DEF SubWake, SubNone, clientVars
    <2> QED BY <1>0, <2>1, StampsFrame DEF Punctual, OwnOnly, ListedNotNew, regi
  <1>8. CASE \/ TrSendStep \/ UNCHANGED vars
             \/ /\ ManageStart \/ ManageEnd \/ \E u \in Uuids : VisitAlive(u)
                /\ UNCHANGED clientVars
    <2>1. UNCHANGED <<sub, appls, age, status, told, pace>>
      BY <1>8 DEF TrSendStep, vars, mgntVars, clientVars, ManageStart, ManageEnd, VisitAlive
    <2> QED BY <1>0, <2>1, StampsFrame DEF Punctual, OwnOnly, ListedNotNew, regi
  <1> QED BY <1>1, <1>2, <1>3, <1>4, <1>5, <1>6, <1>7, <1>8
          DEF Next, Client, TrMgntStep, TrMgntNext, evsock_sub_read, manage_appls

\* Only check_svc_alive drops a client, and only one silent for longer than
\* Expiry.
LEMMA DropStep ==
  ASSUME Expiry > 0, TypeOK, Punctual, [Next]_vars,
         NEW u \in Uuids, pace = "punctual", u \in appls, u \notin appls'
  PROVE  status[u] = "dead"
  <1>1. VisitExpired(u)
    BY DEF Next, Client, Join, Leave, zutil_regi, SubConnect, Announce, Tick, Second,
       TrMgntStep, TrMgntNext, evsock_sub_read, SubWake, SubNone, SubDiscard, handle_regi,
       RegiUpdate, RegiNew, ListNew, manage_appls, ManageStart, ManageEnd, VisitAlive,
       VisitExpired, Unlist, TrSendStep, vars, mgntVars
  <1>2. age[u] > Expiry /\ age[u] \in Nat
    BY <1>1, ExpiryAssumption DEF VisitExpired, TypeOK
  <1>3. status[u] # "up"
    BY <1>2, ExpiryAssumption DEF Punctual, FreshStamps, FreshStamp
  <1> QED BY <1>3 DEF Punctual, ListedNotNew, TypeOK

\* Where clients publish only their registrations and may be silent for at least
\* a second, one that announces itself in every second is never taken for dead,
\* for any number of clients and however announcements and sweeps race
\* (check_svc_alive, zutil_regi).
THEOREM SilentOnly ==
  ASSUME Strays = {}, Expiry > 0
  PROVE  Spec => OnlySilentExpire
  <1>1. Init => Punctual
    BY EmptySeq DEF Init, InitMgnt, FreshZSock, Punctual, OwnOnly, ListedNotNew, FreshStamps
  <1>2. IInv /\ Punctual /\ [Next]_vars => Punctual'
    BY PunctualStep DEF IInv
  <1>3. IInv /\ Punctual /\ [Next]_vars =>
          [\A u \in Uuids : pace = "punctual" /\ u \in appls /\ u \notin appls'
                              => status[u] = "dead"]_vars
    BY DropStep DEF IInv
  <1> QED BY <1>1, <1>2, <1>3, RegistryInvariant, PTL DEF Spec, OnlySilentExpire
=============================================================================
