---------------------------- MODULE BrokerProofs -----------------------------
(***************************************************************************)
(* The whole broker runs its relay path as module Relay has it and its     *)
(* registration path as module Registry has it, for every value of the     *)
(* constants: TR_MGNT posts socket events about services and touches       *)
(* nothing else of the relay path, messages and replies touch no service's *)
(* socket, and the socket events keep their order among them.  What is     *)
(* proved of the two paths holds of the whole, then, and from both it      *)
(* follows that a message finds the socket of its service.                 *)
(***************************************************************************)
EXTENDS Broker, RelayProofs, DataLemmas

RegP == INSTANCE RegistryProofs WITH
          sendq <- SocketEvents(sendq), MaxEvents <- MaxMgnt

-----------------------------------------------------------------------------
(* The socket events of a queue. *)

\* The socket events among those of a queue.
Kept(q) == {q[k] : k \in {j \in DOMAIN q : IsSocketEvent(q[j])}}

\* What SocketEvents does with the next event of a queue.
WithNext(q, i, s) == IF IsSocketEvent(q[i]) THEN Append(s, q[i]) ELSE s

Collects(q, F) ==
  /\ F \in [0 .. Len(q) -> Seq(Kept(q))]
  /\ F[0] = << >>
  /\ \A i \in 1 .. Len(q) : F[i] = WithNext(q, i, F[i - 1])

\* A recursion as that of SocketEvents has a solution, and its values are queues
\* of socket events.
LEMMA CollectsSome ==
  ASSUME NEW S, NEW q \in Seq(S)
  PROVE  /\ \E F : Collects(q, F)
         /\ \A F : (\A n \in 0 .. Len(q) :
                      F[n] = IF n = 0 THEN << >> ELSE WithNext(q, n, F[n - 1]))
                   /\ F = [n \in 0 .. Len(q) |-> F[n]]
                   => Collects(q, F)
  <1> DEFINE N == Len(q)  V == Seq(Kept(q))
             step == [p \in (1 .. N) \X V |-> WithNext(q, p[1], p[2])]
  <1>1. N \in Nat /\ DOMAIN q = 1 .. N
    BY LenProperties
  <1>2. << >> \in V
    BY EmptySeq
  <1>3. ASSUME NEW i \in 1 .. N, NEW s \in V PROVE WithNext(q, i, s) \in V
    <2>1. CASE IsSocketEvent(q[i])
      <3>1. q[i] \in Kept(q)
        BY <1>1, <2>1 DEF Kept
      <3> QED BY <2>1, <3>1, AppendProperties DEF WithNext
    <2> QED BY <2>1 DEF WithNext
  <1> HIDE DEF V
  <1>4. step \in [(1 .. N) \X V -> V]
    BY <1>3
  <1>5. \A i \in 1 .. N, s \in V : step[<<i, s>>] = WithNext(q, i, s)
    OBVIOUS
  <1> HIDE DEF step
  <1>6. \E F : Collects(q, F)
    <2> HIDE DEF N
    <2> DEFINE base == << >>
    <2>0. base \in V /\ N \in Nat
      BY <1>1, <1>2
    <2> HIDE DEF base
    <2>1. PICK F : Recurs(N, V, base, step, F)
      BY <1>4, <2>0, Recursion
    <2>2. \A i \in 1 .. N : i - 1 \in 0 .. N
      BY <1>1
    <2>3. \A i \in 1 .. N : F[i] = WithNext(q, i, F[i - 1])
      BY <1>5, <2>1, <2>2 DEF Recurs
    <2> QED BY <2>1, <2>3 DEF Collects, Recurs, base, N, V
  <1>7. ASSUME NEW F, F = [n \in 0 .. N |-> F[n]],
               \A n \in 0 .. N : F[n] = IF n = 0 THEN << >> ELSE WithNext(q, n, F[n - 1])
        PROVE  Collects(q, F)
    <2> DEFINE G == {n \in 0 .. N : F[n] \in V}
    <2> HIDE DEF N
    <2>1. F[0] = << >> /\ \A i \in 1 .. N : F[i] = WithNext(q, i, F[i - 1])
      BY <1>1, <1>7
    <2>2. 0 \in G
      BY <1>1, <1>2, <2>1
    <2>3. ASSUME NEW n \in G, n < N PROVE n + 1 \in G
      <3>1. n + 1 \in 1 .. N /\ n + 1 \in 0 .. N /\ n + 1 - 1 = n /\ F[n] \in V
        BY <1>1, <2>3
      <3>2. F[n + 1] \in V
        BY <1>3, <2>1, <3>1
      <3> QED BY <3>1, <3>2
    <2>4. G \in SUBSET (0 .. N)
      OBVIOUS
    <2>5. G = 0 .. N
      <3> HIDE DEF G
      <3> QED BY <1>1, <2>2, <2>3, <2>4, Climb
    <2>6. \A n \in 0 .. N : F[n] \in V
      BY <2>5
    <2>7. F \in [0 .. N -> V]
      BY <1>7, <2>6
    <2> QED BY <2>1, <2>7 DEF Collects, N, V
  <1> QED BY <1>6, <1>7

\* The function in SocketEvents is such a solution.
LEMMA Collected ==
  ASSUME NEW S, NEW q \in Seq(S)
  PROVE  \E F : Collects(q, F) /\ SocketEvents(q) = F[Len(q)]
  <1> DEFINE Is(E) == E = [n \in 0 .. Len(q) |->
        IF n = 0 THEN << >>
        ELSE IF IsSocketEvent(q[n]) THEN Append(E[n - 1], q[n]) ELSE E[n - 1]]
      E == CHOOSE E : Is(E)
  <1>1. PICK F : Collects(q, F)
    BY CollectsSome
  <1>2. Is(F)
    <2>1. \A n \in 0 .. Len(q) :
            F[n] = IF n = 0 THEN << >>
                   ELSE IF IsSocketEvent(q[n]) THEN Append(F[n - 1], q[n]) ELSE F[n - 1]
      <3> SUFFICES ASSUME NEW n \in 0 .. Len(q), n # 0
                   PROVE  F[n] = WithNext(q, n, F[n - 1])
        BY <1>1 DEF Collects, WithNext
      <3> QED BY <1>1, LenProperties DEF Collects
    <2>2. F = [n \in 0 .. Len(q) |-> F[n]]
      BY <1>1 DEF Collects
    <2> QED BY <2>1, <2>2
  <1>3. Is(E)
    <2> HIDE DEF Is
    <2> QED BY <1>2
  <1>4. SocketEvents(q) = E[Len(q)]
    BY DEF SocketEvents
  <1> HIDE DEF E
  <1>5. \A n \in 0 .. Len(q) :
          E[n] = IF n = 0 THEN << >> ELSE WithNext(q, n, E[n - 1])
    BY <1>3, Zenon DEF WithNext
  <1>6. E = [n \in 0 .. Len(q) |-> E[n]]
    BY <1>3, Zenon
  <1> QED BY <1>4, <1>5, <1>6, CollectsSome

\* The socket events of a queue are events of it.
LEMMA EventsKept ==
  ASSUME NEW S, NEW q \in Seq(S)
  PROVE  SocketEvents(q) \in Seq(Kept(q))
  <1>1. PICK F : Collects(q, F) /\ SocketEvents(q) = F[Len(q)]
    BY Collected
  <1>2. Len(q) \in 0 .. Len(q)
    BY LenProperties
  <1> QED BY <1>1, <1>2 DEF Collects

\* An event is posted: if it is about a socket it is behind the others.
LEMMA EventsAppend ==
  ASSUME NEW S, NEW q \in Seq(S), NEW e \in S
  PROVE  SocketEvents(Append(q, e))
           = IF IsSocketEvent(e) THEN Append(SocketEvents(q), e) ELSE SocketEvents(q)
  <1> DEFINE p == Append(q, e)  N == Len(q)
  <1>1. /\ p \in Seq(S) /\ Len(p) = N + 1 /\ p[N + 1] = e /\ N \in Nat
        /\ \A k \in 1 .. N : p[k] = q[k]
    BY AppendProperties, LenProperties
  <1>2. PICK F : Collects(q, F) /\ SocketEvents(q) = F[N]
    BY Collected
  <1> HIDE DEF p
  <1>3. PICK E : Collects(p, E) /\ SocketEvents(p) = E[N + 1]
    BY <1>1, Collected
  <1> HIDE DEF N
  <1>4. /\ E[0] = F[0]
        /\ \A i \in 1 .. N : F[i] = WithNext(q, i, F[i - 1])
        /\ \A i \in 1 .. N + 1 : E[i] = WithNext(p, i, E[i - 1])
    BY <1>1, <1>2, <1>3 DEF Collects, N
  <1> DEFINE G == {n \in 0 .. N : E[n] = F[n]}
  <1>5. 0 \in G
    BY <1>1, <1>4
  <1>6. ASSUME NEW n \in G, n < N PROVE n + 1 \in G
    <2>1. n + 1 \in 1 .. N /\ n + 1 \in 1 .. N + 1 /\ n + 1 - 1 = n /\ E[n] = F[n]
      BY <1>1, <1>6
    <2>2. E[n + 1] = F[n + 1]
      BY <1>1, <1>4, <2>1 DEF WithNext
    <2> QED BY <2>1, <2>2
  <1>7. G = 0 .. N
    <2>1. G \in SUBSET (0 .. N)
      OBVIOUS
    <2> HIDE DEF G
    <2> QED BY <1>1, <1>5, <1>6, <2>1, Climb
  <1>8. E[N] = F[N] /\ E[N + 1] = WithNext(p, N + 1, E[N])
    <2>1. N \in 0 .. N /\ N + 1 \in 1 .. N + 1 /\ N + 1 - 1 = N
      BY <1>1
    <2>2. N \in G
      BY ONLY <1>7, <2>1
    <2>3. E[N] = F[N]
      BY ONLY <2>2
    <2>4. E[N + 1] = WithNext(p, N + 1, E[N + 1 - 1])
      BY ONLY <1>4, <2>1
    <2> QED BY ONLY <2>1, <2>3, <2>4
  <1> QED BY <1>1, <1>2, <1>3, <1>8 DEF WithNext, p

\* The first event is taken off: it was the first about a socket, if it is one.
LEMMA EventsTail ==
  ASSUME NEW S, NEW q \in Seq(S), q # << >>
  PROVE  SocketEvents(q) = IF IsSocketEvent(Head(q))
                           THEN <<Head(q)>> \o SocketEvents(Tail(q))
                           ELSE SocketEvents(Tail(q))
  <1> DEFINE p == Tail(q)  N == Len(p)  h == Head(q)  B == {h}
             In(s) == IF IsSocketEvent(h) THEN <<h>> \o s ELSE s
  <1>1. /\ p \in Seq(S) /\ Len(q) = N + 1 /\ q[1] = h /\ N \in Nat /\ h \in S
        /\ \A k \in 1 .. N : p[k] = q[k + 1]
    BY HeadTailProperties, LenProperties, EmptySeq
  <1>2. PICK F : Collects(q, F) /\ SocketEvents(q) = F[N + 1]
    BY <1>1, Collected
  <1> HIDE DEF p, h
  <1>10. ASSUME NEW s \in Seq(S), NEW e \in S PROVE Append(In(s), e) = In(Append(s, e))
    BY <1>1, AppendBehind
  <1>3. PICK E : Collects(p, E) /\ SocketEvents(p) = E[N]
    BY <1>1, Collected
  <1>4. E \in [0 .. N -> Seq(S)]
    <2>1. Kept(p) \subseteq S
      BY <1>1, LenProperties, ElementOfSeq DEF Kept
    <2>2. Seq(Kept(p)) \subseteq Seq(S)
      BY <2>1, SeqMonotonic
    <2> QED BY <1>3, <2>2 DEF Collects
  <1> HIDE DEF N
  <1>5. /\ E[0] = << >> /\ F[0] = << >>
        /\ \A i \in 1 .. N : E[i] = WithNext(p, i, E[i - 1])
        /\ \A i \in 1 .. N + 1 : F[i] = WithNext(q, i, F[i - 1])
    BY <1>1, <1>2, <1>3 DEF Collects, N
  <1> DEFINE G == {n \in 0 .. N : F[n + 1] = In(E[n])}
  <1>6. 0 \in G
    <2>0. 1 \in 1 .. N + 1 /\ 1 - 1 = 0
      BY ONLY <1>1
    <2>1. F[1] = WithNext(q, 1, << >>)
      BY ONLY <1>5, <2>0
    <2>2. Append(<< >>, h) = <<h>> /\ <<h>> \o << >> = <<h>>
      BY ONLY AppendFirst
    <2>3. WithNext(q, 1, << >>) = In(<< >>)
      BY <1>1, <2>2 DEF WithNext
    <2>4. F[0 + 1] = In(E[0]) /\ 0 \in 0 .. N
      BY <1>1, <1>5, <2>1, <2>3
    <2> QED BY <2>4
  <1>7. ASSUME NEW n \in G, n < N PROVE n + 1 \in G
    <2>1. /\ n + 1 \in 1 .. N /\ n + 2 \in 1 .. N + 1 /\ n + 1 - 1 = n /\ n + 2 - 1 = n + 1
          /\ F[n + 1] = In(E[n]) /\ n + 1 + 1 = n + 2 /\ n \in 0 .. N /\ n + 1 \in 0 .. N
      BY <1>1, <1>7
    <2> DEFINE e == p[n + 1]
    <2>2. e = q[n + 2] /\ e \in S /\ E[n] \in Seq(S)
      BY <1>1, <1>4, <2>1, ElementOfSeq DEF N
    <2>4. E[n + 1] = (IF IsSocketEvent(e) THEN Append(E[n], e) ELSE E[n])
      BY <1>5, <2>1 DEF WithNext
    <2>5. F[n + 2] = (IF IsSocketEvent(e) THEN Append(F[n + 1], e) ELSE F[n + 1])
      BY <1>5, <2>1, <2>2 DEF WithNext
    <2> HIDE DEF e, In
    <2>3. Append(In(E[n]), e) = In(Append(E[n], e))
      BY <1>10, <2>2
    <2>6. F[n + 2] = In(E[n + 1])
      BY <2>1, <2>3, <2>4, <2>5
    <2> QED BY <2>1, <2>6
  <1>8. G = 0 .. N
    <2>1. G \in SUBSET (0 .. N)
      OBVIOUS
    <2> HIDE DEF G
    <2> QED BY <1>1, <1>6, <1>7, <2>1, Climb
  <1>9. F[N + 1] = In(E[N])
    <2>1. N \in 0 .. N
      BY <1>1
    <2>2. N \in G
      BY ONLY <1>8, <2>1
    <2> QED BY ONLY <2>2
  <1> QED BY <1>2, <1>3, <1>9 DEF p, h

-----------------------------------------------------------------------------
(* The relay path. *)

\* What TR_MGNT takes the names from that it posts.
NamesTyped ==
  /\ sub \in ZSockOf(Announcement)
  /\ svcname \in [Uuids -> Services \cup {NoName}]

\* What TR_MGNT reads off the SUB socket is an announcement.
LEMMA Heard ==
  ASSUME NamesTyped, SubReceive
  PROVE  sub' \in ZSockOf(Announcement) /\ Head(sub.q) \in Announcement
  <1>1. sub \in ZSockOf(Announcement) /\ sub.q # << >> /\ sub.q \in Seq(Announcement)
    BY DEF NamesTyped, SubReceive, ZSockOf
  <1>2. Head(sub.q) \in Announcement
    BY <1>1, TailOf
  <1>3. Head(sub.q).parts \in Nat \ {0}
    BY <1>2 DEF Announcement
  <1>4. ReadOne
    BY DEF SubReceive
  <1> QED BY <1>1, <1>2, <1>3, <1>4, ReadKeeps DEF ReadOne

\* What TR_MGNT posts is about a service that has no client before the step, or
\* none after it.
Told(h, s) == event_base_once(Event(h, s)) /\ ~(HasClient(s) /\ HasClient(s)')

\* A step of TR_MGNT posts at most one event, about such a service, and keeps
\* the names' types.
LEMMA MgntPosts ==
  ASSUME NamesTyped, TrMgntNext
  PROVE  /\ NamesTyped' /\ UNCHANGED zsocks
         /\ \/ UNCHANGED sendq
            \/ \E h \in {"push_create", "push_remove"}, s \in Services : Told(h, s)
  <1>1. CASE SubWake \/ SubNone
    <2>1. sub' \in ZSockOf(Announcement)
      BY <1>1, SocketKeeps DEF SubWake, SubNone, NamesTyped
    <2> QED BY <1>1, <2>1 DEF SubWake, SubNone, NamesTyped, sendVars
  <1>2. CASE SubDiscard
    BY <1>2, Heard DEF SubDiscard, SubReceive, NamesTyped
  <1>3. CASE handle_regi
    <2>1. SubReceive
      BY <1>3 DEF handle_regi, RegiUpdate, RegiNew, ListNew
    <2>2. PICK m \in Announcement : m = Head(sub.q)
      BY <2>1, Heard
    <2>3. m.uuid \in Uuids /\ m.svcname \in Services \cup {NoName}
      BY DEF Announcement
    <2>4. svcname' = [svcname EXCEPT ![m.uuid] = m.svcname]
      BY <1>3, <2>2 DEF handle_regi, RegiUpdate, RegiNew, ListNew
    <2>5. NamesTyped'
      BY <2>1, <2>3, <2>4, Heard DEF NamesTyped
    <2>6. ASSUME ~UNCHANGED sendq
          PROVE  NoneFound(appls, m.svcname) /\ event_base_once(Event("push_create", m.svcname))
      BY <1>3, <2>2, <2>6 DEF handle_regi, RegiUpdate, RegiNew, ListNew
    <2>7. ASSUME ~UNCHANGED sendq PROVE m.svcname \in Services /\ ~HasClient(m.svcname)
      BY <2>3, <2>6, <2>7 DEF NoneFound, HasClient
    <2> HIDE DEF HasClient
    <2> QED BY <2>1, <2>5, <2>6, <2>7 DEF SubReceive, Told
  <1>4. CASE ManageStart \/ ManageEnd \/ \E u \in Uuids : VisitAlive(u)
    BY <1>4 DEF ManageStart, ManageEnd, VisitAlive, NamesTyped, sendVars
  <1>5. ASSUME NEW u \in Uuids, VisitExpired(u)
        PROVE  /\ NamesTyped' /\ UNCHANGED zsocks
               /\ \/ UNCHANGED sendq
                  \/ \E h \in {"push_create", "push_remove"}, s \in Services : Told(h, s)
    <2>1. Unlist(u, NoneFound(appls \ {u}, svcname[u])) /\ svcname[u] \in Services \cup {NoName}
      BY <1>5 DEF VisitExpired, NamesTyped
    <2>2. NamesTyped' /\ UNCHANGED zsocks
      BY <2>1 DEF Unlist, NamesTyped
    <2>3. ASSUME ~UNCHANGED sendq
          PROVE  /\ NoneFound(appls \ {u}, svcname[u])
                 /\ event_base_once(Event("push_remove", svcname[u]))
      BY <2>1, <2>3 DEF Unlist
    <2>4. ASSUME ~UNCHANGED sendq
          PROVE  \E s \in Services : Told("push_remove", s)
      <3>1. PICK s \in Services : s = svcname[u]
        BY <2>1, <2>3, <2>4 DEF NoneFound
      <3>2. \A v \in appls \ {u} : svcname[v] # s
        BY <2>3, <2>4, <3>1 DEF NoneFound
      <3>3. appls' = appls \ {u} /\ \A v \in appls \ {u} : svcname'[v] = svcname[v]
        BY <1>5, <2>1 DEF Unlist, NamesTyped
      <3>4. ~HasClient(s)'
        BY <3>2, <3>3 DEF HasClient
      <3> QED BY <2>3, <2>4, <3>1, <3>4 DEF Told
    <2> QED BY <2>2, <2>4
  <1> QED BY <1>1, <1>2, <1>3, <1>4, <1>5 DEF TrMgntNext, evsock_sub_read, manage_appls

\* Clients and time keep the names' types.
LEMMA RegiKeeps == ASSUME NamesTyped, RegiStep PROVE NamesTyped'
  <1>0. sub \in ZSockOf(Announcement)
    BY DEF NamesTyped
  <1>1. ASSUME NEW u \in Uuids, Reg!Join(u) \/ Reg!Leave(u) PROVE NamesTyped'
    <2>1. sub' = Attach(sub) /\ UNCHANGED svcname
      BY <1>1 DEF Reg!Join, Reg!Leave, Reg!SubConnect, Reg!Attach, Attach
    <2> QED BY <1>0, <2>1, SocketKeeps DEF NamesTyped
  <1>2. ASSUME NEW u \in Uuids, Reg!zutil_regi(u) PROVE NamesTyped'
    <2>1. PICK m \in {Reg!regi(u)} \cup Strays : sub' = Arrive(sub, m) /\ UNCHANGED svcname
      BY <1>2 DEF Reg!zutil_regi, Reg!Announce, Reg!Arrive, Arrive
    <2>2. Reg!regi(u) \in Announcement
      <3>1. SvcOf[u] \in Services \cup {NoName}
        BY ClientsAssumption
      <3> QED BY <3>1 DEF Reg!regi, Announcement, zmsg_type_t
    <2>3. m \in Announcement
      BY <2>1, <2>2, ClientsAssumption
    <2> QED BY <1>0, <2>1, <2>3, ArriveKeeps DEF NamesTyped
  <1>3. CASE Reg!Tick
    BY <1>3 DEF Reg!Tick, Reg!Second, NamesTyped
  <1> QED BY <1>1, <1>2, <1>3 DEF RegiStep, Reg!Client

\* Every step of the whole is one of the relay path, or leaves it alone.
LEMMA BrokerStep == NamesTyped /\ [BrokerNext]_brokerVars => NamesTyped' /\ [Next]_vars
  <1> SUFFICES ASSUME NamesTyped, [BrokerNext]_brokerVars PROVE NamesTyped' /\ [Next]_vars
    OBVIOUS
  <1>1. CASE TrafficStep
    BY <1>1 DEF TrafficStep, Next, mgntVars, NamesTyped
  <1>2. CASE SendStep
    BY <1>2 DEF SendStep, Next, mgntVars, NamesTyped
  <1>3. CASE MgntStep
    <2>1. TrMgntNext /\ UNCHANGED relayVars
      BY <1>3 DEF MgntStep
    <2>2. NamesTyped' /\ UNCHANGED zsocks
      BY <2>1, MgntPosts
    <2>3. CASE UNCHANGED sendq
      BY <2>1, <2>2, <2>3 DEF relayVars, vars, sendVars
    <2>4. CASE \E h \in {"push_create", "push_remove"}, s \in Services : Told(h, s)
      <3>1. MgntPost
        BY <1>3, <2>1, <2>2, <2>4 DEF MgntPost, MgntStep, Told, relayVars
      <3> QED BY <2>2, <3>1 DEF Next
    <2> QED BY <2>1, <2>3, <2>4, MgntPosts
  <1>4. CASE RegiStep
    BY <1>4, RegiKeeps DEF RegiStep, relayVars, vars
  <1>5. CASE UNCHANGED brokerVars
    BY <1>5 DEF brokerVars, mgntVars, NamesTyped
  <1> QED BY <1>1, <1>2, <1>3, <1>4, <1>5 DEF BrokerNext

\* Where the whole begins.
LEMMA BrokerStart == BrokerInit => Init /\ NamesTyped
  <1> SUFFICES ASSUME BrokerInit PROVE Init /\ NamesTyped
    OBVIOUS
  <1>1. Init /\ sub = FreshZSock /\ svcname = [u \in Uuids |-> NoName]
    BY DEF BrokerInit, Reg!Init, Reg!InitMgnt, Reg!FreshZSock, FreshZSock, Reg!NoName, NoName
  <1>2. FreshZSock \in ZSockOf(Announcement)
    BY EmptySeq DEF FreshZSock, ZSockOf
  <1> QED BY <1>1, <1>2 DEF NamesTyped

\* The whole implements the relay path (ImplementsRelay): the messages of module
\* Broker are treated as module Relay says, and its theorems hold here.
THEOREM WholeImplementsRelay == BrokerSpec => ImplementsRelay
  <1>1. BrokerInit => Init /\ NamesTyped
    BY BrokerStart
  <1>2. NamesTyped /\ [BrokerNext]_brokerVars => NamesTyped' /\ [Next]_vars
    BY BrokerStep
  <1> QED BY <1>1, <1>2, PTL DEF BrokerSpec, ImplementsRelay, Spec

\* With TR_MGNT and its clients beside the relay path, too, no context leaks or
\* has two owners, and a received message is in one place only.
THEOREM WholeLosesNothing == BrokerSpec => [](ContextOwnership /\ ExactlyOnce)
BY WholeImplementsRelay, OneOwner, OnePlace, PTL DEF ImplementsRelay

\* The whole keeps the promise of module Delivery, but for its liveness, while
\* services come and go: messages are received in order, the accepted ones are
\* decided on in order, and each ends once (evsock_pull_read, evsock_push_relay,
\* evsock_router_err_reply).
THEOREM WholeDelivers == BrokerSpec => Promise!Init /\ [][Promise!Next]_MsgFate
BY WholeImplementsRelay, DeliversAsPromised, PTL DEF ImplementsRelay

-----------------------------------------------------------------------------
(* The registration path.  Its queue of events is that of TR_SEND without  *)
(* the contexts.                                                           *)

RegQueue == SocketEvents(sendq)

\* What posts or runs no socket event leaves the registration path's queue.
LEMMA QueueFrame ==
  ASSUME TypeOK
  PROVE  /\ \A e \in Events : sendq' = Append(sendq, e) =>
              RegQueue' = IF IsSocketEvent(e) THEN Append(RegQueue, e) ELSE RegQueue
         /\ sendq # << >> /\ ~IsSocketEvent(Head(sendq)) =>
              /\ RunEvent(<< >>) => RegQueue' = RegQueue
              /\ \A e \in Events : ~IsSocketEvent(e) /\ RunEvent(<<e>>) => RegQueue' = RegQueue
  <1>1. sendq \in Seq(Events)
    BY DEF TypeOK
  <1>2. ASSUME NEW e \in Events, sendq' = Append(sendq, e)
        PROVE  RegQueue' = IF IsSocketEvent(e) THEN Append(RegQueue, e) ELSE RegQueue
    BY <1>1, <1>2, EventsAppend DEF RegQueue
  <1>3. ASSUME sendq # << >>, ~IsSocketEvent(Head(sendq))
        PROVE  SocketEvents(Tail(sendq)) = RegQueue /\ Tail(sendq) \in Seq(Events)
    BY <1>1, <1>3, EventsTail, TailOf DEF RegQueue
  <1>4. ASSUME sendq # << >>, ~IsSocketEvent(Head(sendq)), RunEvent(<< >>)
        PROVE  RegQueue' = RegQueue
    <2>1. sendq' = Tail(sendq)
      BY <1>3, <1>4, ConcatEmptySeq DEF RunEvent
    <2> QED BY <1>3, <1>4, <2>1 DEF RegQueue
  <1>5. ASSUME NEW e \in Events, sendq # << >>, ~IsSocketEvent(Head(sendq)),
               ~IsSocketEvent(e), RunEvent(<<e>>)
        PROVE  RegQueue' = RegQueue
    <2>1. Tail(sendq) \in Seq(Events) /\ SocketEvents(Tail(sendq)) = RegQueue
      BY <1>3, <1>5
    <2>2. sendq' = Append(Tail(sendq), e)
      BY <1>5, <2>1, AppendIsConcat DEF RunEvent
    <2> QED BY <1>5, <2>1, <2>2, EventsAppend DEF RegQueue
  <1> QED BY <1>2, <1>4, <1>5

\* A socket event that TR_SEND runs is the first of the registration path's.
LEMMA SocketEventRun ==
  ASSUME TypeOK, SocketEvent
  PROVE  /\ RegQueue # << >> /\ Head(RegQueue) = Head(sendq)
         /\ RegQueue' = Tail(RegQueue) \o << >>
  <1>1. sendq \in Seq(Events) /\ sendq # << >> /\ IsSocketEvent(Head(sendq)) /\ RunEvent(<< >>)
    BY DEF TypeOK, SocketEvent, evsock_push_create, evsock_push_remove, NextIs, IsSocketEvent
  <1> DEFINE t == Tail(sendq)  r == SocketEvents(t)  h == Head(sendq)
  <1>2. t \in Seq(Events) /\ h \in Events /\ sendq' = t
    BY <1>1, TailOf, ConcatEmptySeq DEF RunEvent
  <1>3. RegQueue = <<h>> \o r
    BY <1>1, EventsTail DEF RegQueue
  <1>4. r \in Seq(Events)
    <2>1. r \in Seq(Kept(t))
      BY <1>2, EventsKept
    <2>2. Kept(t) \subseteq Events
      BY <1>2, LenProperties, ElementOfSeq DEF Kept
    <2> QED BY <2>1, <2>2, SeqMonotonic
  <1>5. RegQueue' = r
    BY <1>2 DEF RegQueue
  <1> HIDE DEF t, r, h
  <1>6. <<h>> \o r # << >> /\ Head(<<h>> \o r) = h /\ Tail(<<h>> \o r) = r /\ r \o << >> = r
    BY <1>2, <1>4, FrontOf
  <1> QED BY <1>3, <1>5, <1>6 DEF h

\* A step of the relay path other than a socket event leaves the registration
\* path's queue and all sockets alone.
LEMMA TrafficFrame ==
  ASSUME IInv, TrafficStep \/ (SendStep /\ ~SocketEvent)
  PROVE  UNCHANGED <<RegQueue, zsocks>>
  <1>0. TypeOK /\ QueueIsRest /\ ContextsReady
    BY DEF IInv
  <1>1. CASE TrafficStep /\ ~PullPost
    <2>1. UNCHANGED <<sendq, zsocks>>
      BY <1>1 DEF TrafficStep, Client, Push, Connect, TrRecvStep, evsock_pull_read, PullWake,
           PullTry, PullScan, PullGetCtx, PullNone, PullHead, PullBadType, PullNullBody,
           PullDiffSize, PullAccept, Receive, sendVars
    <2> QED BY <2>1 DEF RegQueue
  <1>2. CASE PullPost
    <2> DEFINE e == Event(rpc, cur)
    <2>1. e \in Events /\ ~IsSocketEvent(e) /\ sendq' = Append(sendq, e) /\ UNCHANGED zsocks
      BY <1>0, <1>2 DEF PullPost, Event, Events, IsSocketEvent, event_base_once,
           ContextsReady, Holding
    <2> QED BY <1>0, <2>1, QueueFrame
  <1>3. CASE RelayBadRoute \/ RelayUnroutable
    <2>1. NextIs("push_relay") /\ \E code \in {"ROUTE_TYPE", "TO_ROUTE"} : RelayFails(code)
      BY <1>3, FailCode
    <2> DEFINE e == Event("router_err_reply", arg)
    <2>2. /\ sendq # << >> /\ ~IsSocketEvent(Head(sendq)) /\ RunEvent(<<e>>)
          /\ UNCHANGED zsocks
      BY <2>1 DEF NextIs, IsSocketEvent, RelayFails
    <2>3. e \in Events /\ ~IsSocketEvent(e)
      BY <1>0, <2>1, HeadCtx DEF Event, Events, IsSocketEvent
    <2> HIDE DEF e
    <2> QED BY <1>0, <2>2, <2>3, QueueFrame
  <1>4. CASE RelayAccepted \/ evsock_router_err_reply
    <2>1. sendq # << >> /\ ~IsSocketEvent(Head(sendq)) /\ RunEvent(<< >>) /\ UNCHANGED zsocks
      BY <1>4 DEF RelayAccepted, evsock_router_err_reply, NextIs, IsSocketEvent
    <2> QED BY <1>0, <2>1, QueueFrame
  <1> QED BY <1>1, <1>2, <1>3, <1>4 DEF SendStep, TrSendNext, evsock_push_relay

\* A step of TR_MGNT is one of the registration path.
LEMMA MgntIsReg ==
  ASSUME TypeOK, NamesTyped, MgntStep
  PROVE  Reg!TrMgntStep
  <1>1. TrMgntNext /\ UNCHANGED <<status, told, pace>> /\ Len(RegQueue) < MaxMgnt
    BY DEF MgntStep, RegQueue
  <1>2. UNCHANGED zsocks
    BY <1>1, MgntPosts
  <1>3. UNCHANGED sendq => UNCHANGED RegQueue
    BY DEF RegQueue
  <1>4. \A h \in {"push_create", "push_remove"}, s \in Services :
          event_base_once(Event(h, s)) => RegQueue' = Append(RegQueue, Event(h, s))
    <2> SUFFICES ASSUME NEW h \in {"push_create", "push_remove"}, NEW s \in Services,
                        event_base_once(Event(h, s))
                 PROVE  RegQueue' = Append(RegQueue, Event(h, s))
      OBVIOUS
    <2>1. Event(h, s) \in Events /\ IsSocketEvent(Event(h, s))
      BY DEF Event, Events, IsSocketEvent
    <2> QED BY <2>1, QueueFrame DEF event_base_once
  <1>5. ASSUME SubWake PROVE Reg!SubWake
    BY <1>2, <1>3, <1>5 DEF SubWake, Reg!SubWake, RegQueue, sendVars, Reg!sendVars,
         ReadEvents, Reg!ReadEvents
  <1>6. ASSUME SubNone PROVE Reg!SubNone
    BY <1>2, <1>3, <1>6 DEF SubNone, Reg!SubNone, RegQueue, sendVars, Reg!sendVars,
         Again, Reg!Again, zsock_drain_remain_part, Reg!zsock_drain_remain_part
  <1>7. ASSUME SubReceive PROVE Reg!SubReceive
    BY <1>7 DEF SubReceive, Reg!SubReceive, ReadOne, Reg!ReadOne, TakeHead, Reg!TakeHead,
         TakePart, Reg!TakePart, zsock_drain_remain_part, Reg!zsock_drain_remain_part
  <1>8. \A m : IsRegi(m) <=> Reg!IsRegi(m)
    BY DEF IsRegi, Reg!IsRegi
  <1>9. \A others, n : NoneFound(others, n) <=> Reg!NoneFound(others, n)
    BY Zenon DEF NoneFound, Reg!NoneFound, NoName, Reg!NoName
  <1>10. ASSUME SubDiscard PROVE Reg!SubDiscard
    BY <1>3, <1>7, <1>8, <1>10 DEF SubDiscard, Reg!SubDiscard, RegQueue
  <1>11. ASSUME RegiUpdate PROVE Reg!RegiUpdate
    BY <1>3, <1>7, <1>8, <1>11 DEF RegiUpdate, Reg!RegiUpdate, RegQueue
  <1>12. ASSUME RegiNew PROVE Reg!RegiNew
    <2>1. SubReceive /\ Reg!SubReceive
      BY <1>7, <1>12 DEF RegiNew, ListNew
    <2>2. PICK m \in Announcement : m = Head(sub.q)
      BY <2>1, Heard
    <2>3. /\ IsRegi(m) /\ m.uuid \notin appls
          /\ appls' = appls \cup {m.uuid}
          /\ svcname' = [svcname EXCEPT ![m.uuid] = m.svcname]
          /\ age' = [age EXCEPT ![m.uuid] = 0]
          /\ IF NoneFound(appls, m.svcname)
             THEN event_base_once(Event("push_create", m.svcname)) ELSE UNCHANGED sendq
      BY <1>12, <2>2 DEF RegiNew, ListNew
    <2>4. NoneFound(appls, m.svcname) => m.svcname \in Services
      BY DEF NoneFound, Announcement
    <2>5. IF NoneFound(appls, m.svcname)
          THEN RegQueue' = Append(RegQueue, Event("push_create", m.svcname))
          ELSE UNCHANGED RegQueue
      BY <1>3, <1>4, <2>3, <2>4
    <2> QED BY <1>8, <1>9, <2>1, <2>2, <2>3, <2>5
            DEF Reg!RegiNew, Reg!ListNew, Reg!event_base_once, Reg!Event, Event, RegQueue
  <1>13. (ManageStart => Reg!ManageStart) /\ (ManageEnd => Reg!ManageEnd)
    BY <1>2, <1>3 DEF ManageStart, Reg!ManageStart, ManageEnd, Reg!ManageEnd, Ahead,
         Reg!Ahead, RegQueue, sendVars, Reg!sendVars
  <1>14. \A u : Visited(u) <=> Reg!Visited(u)
    BY DEF Visited, Reg!Visited, Ahead, Reg!Ahead
  <1>15. ASSUME NEW u \in Uuids, VisitAlive(u) PROVE Reg!VisitAlive(u)
    BY <1>2, <1>3, <1>14, <1>15 DEF VisitAlive, Reg!VisitAlive, RegQueue, sendVars, Reg!sendVars
  <1>16. ASSUME NEW u \in Uuids, VisitExpired(u) PROVE Reg!VisitExpired(u)
    <2>1. PICK n \in Services \cup {NoName} : n = svcname[u]
      BY DEF NamesTyped
    <2>2. /\ age[u] > Expiry /\ mpc = "sweep" /\ Visited(u) /\ cursor' = Rank[u]
          /\ appls' = appls \ {u} /\ svcname' = [svcname EXCEPT ![u] = NoName]
          /\ age' = [age EXCEPT ![u] = 0] /\ UNCHANGED <<sub, due, mpc, zsocks>>
          /\ IF NoneFound(appls \ {u}, n)
             THEN event_base_once(Event("push_remove", n)) ELSE UNCHANGED sendq
      BY <1>16, <2>1 DEF VisitExpired, Unlist
    <2>3. NoneFound(appls \ {u}, n) => n \in Services
      BY DEF NoneFound
    <2>4. IF NoneFound(appls \ {u}, n)
          THEN RegQueue' = Append(RegQueue, Event("push_remove", n))
          ELSE UNCHANGED RegQueue
      BY <1>3, <1>4, <2>2, <2>3
    <2> QED BY <1>9, <1>14, <2>1, <2>2, <2>4
            DEF Reg!VisitExpired, Reg!Unlist, Reg!event_base_once, Reg!Event, Event, RegQueue,
                NoName, Reg!NoName
  <1>17. Reg!TrMgntNext
    BY <1>1, <1>5, <1>6, <1>10, <1>11, <1>12, <1>13, <1>15, <1>16
       DEF TrMgntNext, evsock_sub_read, handle_regi, manage_appls, Reg!TrMgntNext,
           Reg!evsock_sub_read, Reg!handle_regi, Reg!manage_appls
  <1> QED BY <1>1, <1>17 DEF Reg!TrMgntStep, Reg!clientVars, RegQueue

\* Every step of the whole is one of the registration path, or leaves it alone.
LEMMA RegStep ==
  ASSUME IInv, NamesTyped, [BrokerNext]_brokerVars
  PROVE  [Reg!Next]_Reg!vars
  <1>0. TypeOK
    BY DEF IInv
  <1>1. ASSUME UNCHANGED <<RegQueue, zsocks, mgntVars, status, told, pace>>
        PROVE  UNCHANGED Reg!vars
    BY <1>1 DEF Reg!vars, Reg!mgntVars, mgntVars, Reg!sendVars, Reg!clientVars, RegQueue
  <1>2. CASE TrafficStep \/ (SendStep /\ ~SocketEvent)
    BY <1>1, <1>2, TrafficFrame DEF TrafficStep, SendStep
  <1>3. CASE SendStep /\ SocketEvent
    <2>1. /\ RegQueue # << >> /\ Head(RegQueue) = Head(sendq)
          /\ RegQueue' = Tail(RegQueue) \o << >>
      BY <1>0, <1>3, SocketEventRun
    <2>2. Reg!evsock_push_create \/ Reg!evsock_push_remove
      BY <1>3, <2>1 DEF SocketEvent, evsock_push_create, evsock_push_remove, NextIs,
           add_zsock_to_list, del_zsock_from_list, Reg!evsock_push_create,
           Reg!evsock_push_remove, Reg!NextIs, Reg!add_zsock_to_list,
           Reg!del_zsock_from_list, Reg!RunEvent, RegQueue
    <2> QED BY <1>3, <2>2 DEF SendStep, Reg!Next, Reg!TrSendStep, Reg!mgntVars, mgntVars,
               Reg!clientVars
  <1>4. CASE MgntStep
    BY <1>0, <1>4, MgntIsReg DEF Reg!Next
  <1>5. CASE RegiStep
    BY <1>5 DEF RegiStep, Reg!Next
  <1>6. CASE UNCHANGED brokerVars
    BY <1>1, <1>6 DEF brokerVars, vars, sendVars, RegQueue
  <1> QED BY <1>2, <1>3, <1>4, <1>5, <1>6 DEF BrokerNext

\* The whole keeps the names' types and the relay path's invariant.
LEMMA WholeKeeps == BrokerSpec => [](NamesTyped /\ IInv)
  <1>1. BrokerInit => NamesTyped
    BY BrokerStart
  <1>2. NamesTyped /\ [BrokerNext]_brokerVars => NamesTyped'
    BY BrokerStep
  <1> QED BY <1>1, <1>2, WholeImplementsRelay, RelayInvariant, PTL
          DEF BrokerSpec, ImplementsRelay

\* The whole implements the registration path (ImplementsRegistry): whatever
\* messages and replies wait between them, TR_SEND opens and closes sockets in the
\* order of TR_MGNT's words, and nothing else touches them (evsock_push_create,
\* evsock_push_remove, evsock_push_relay, evsock_router_err_reply).
THEOREM WholeImplementsRegistry == BrokerSpec => ImplementsRegistry
  <1>1. BrokerInit => Reg!Init
    BY DEF BrokerInit
  <1>2. NamesTyped /\ IInv /\ [BrokerNext]_brokerVars => [Reg!Next]_Reg!vars
    BY RegStep
  <1> QED BY <1>1, <1>2, WholeKeeps, PTL DEF BrokerSpec, ImplementsRegistry, Reg!Spec

-----------------------------------------------------------------------------
(* A message that is owed its service's socket.  No event about its        *)
(* service is posted behind it: TR_MGNT posts one only when the service    *)
(* has no client before or none after, and then the message is not owed    *)
(* any more.                                                               *)

OwedServed == \A i \in owed : msgs[i].route = "SVC" /\ HasClient(msgs[i].dest)

NoneBehind ==
  \A j, k \in DOMAIN sendq :
    k < j /\ IsRelay(sendq[k]) /\ IsSocketEvent(sendq[j]) /\ ctx[sendq[k].arg].of \in owed
      => sendq[j].arg # msgs[ctx[sendq[k].arg].of].dest

\* The context of an event in the queue keeps its message.
LEMMA QueuedKeeps ==
  ASSUME IInv, [Next]_vars, NEW k \in CtxEvents
  PROVE  ctx'[sendq[k].arg].of = ctx[sendq[k].arg].of
  <1>0. /\ TypeOK /\ QueueIsRest /\ ContextsReady /\ ContextOwnership
        /\ sendq[k].arg \in busy /\ sendq[k].arg \in Contexts
    BY DEF IInv, ContextOwnership, TypeOK
  <1> DEFINE c == sendq[k].arg
  <1>1. CASE PullGetCtx
    BY <1>0, <1>1, TakenFresh
  <1>2. CASE PullHead
    <2>1. PICK n \in {1, 2}, d \in Context, h \in {"push_relay", "router_err_reply"} :
            Filled(n, d, h)
      BY <1>0, <1>2, HeadFills
    <2>2. ctx' = [ctx EXCEPT ![cur] = d] /\ c # cur
      BY <1>0, <2>1 DEF Filled, Receive, ContextOwnership, Held, Holding
    <2> QED BY <1>0, <2>2 DEF TypeOK
  <1>3. CASE RelayBadRoute \/ RelayUnroutable
    <2>1. PICK code \in {"ROUTE_TYPE", "TO_ROUTE"} : NextIs("push_relay") /\ RelayFails(code)
      BY <1>3, FailCode
    <2>2. code \in zmsg_resp_t
      BY DEF zmsg_resp_t
    <2> QED BY <1>0, <2>1, <2>2, FailMarks
  <1>4. CASE ~PullGetCtx /\ ~PullHead /\ ~RelayBadRoute /\ ~RelayUnroutable
    <2>1. UNCHANGED ctx
      BY <1>4 DEF Next, Client, Push, Connect, MgntPost, TrRecvStep, evsock_pull_read, PullWake,
           PullTry, StartScan, PullScan, SkipOccupied, PullNone, PullPost, TrSendNext,
           evsock_push_relay, RelayAccepted, evsock_router_err_reply, SocketEvent, vars, poolVars
    <2> QED BY <2>1
  <1> QED BY <1>1, <1>2, <1>3, <1>4

\* Where an event of the queue comes from: it was there, d places further back,
\* or it is the last and new, and then it is no socket event, or one about a
\* service that has no client before the step or none after it.
Was(k, d) == k + d \in DOMAIN sendq /\ sendq'[k] = sendq[k + d]

New(k) ==
  /\ \A j \in DOMAIN sendq' : j <= k
  /\ IsSocketEvent(sendq'[k]) =>
       \E s \in Services : sendq'[k].arg = s /\ ~(HasClient(s) /\ HasClient(s)')

\* No step adds to TR_SEND's queue but at its end, or takes from it but at its
\* front, and what is new is so in the sense of New.
LEMMA QueueMoves ==
  ASSUME IInv, NamesTyped, [BrokerNext]_brokerVars
  PROVE  \E d \in {0, 1} : \A k \in DOMAIN sendq' : Was(k, d) \/ New(k)
  <1>0. TypeOK /\ QueueIsRest /\ ContextsReady /\ DOMAIN sendq \subseteq Nat
    BY LenProperties DEF IInv, TypeOK
  <1>1. CASE UNCHANGED sendq
    <2>1. \A k \in DOMAIN sendq' : Was(k, 0)
      BY <1>0, <1>1 DEF Was
    <2> QED BY <2>1
  <1>2. ASSUME NEW e \in Events, sendq' = Append(sendq, e),
               IsSocketEvent(e) =>
                 \E s \in Services : e.arg = s /\ ~(HasClient(s) /\ HasClient(s)')
        PROVE  \A k \in DOMAIN sendq' : Was(k, 0) \/ New(k)
    <2> DEFINE n == Len(sendq) + 1
    <2>1. /\ n \in DOMAIN sendq' /\ sendq'[n] = e /\ n \in Nat
          /\ \A k \in DOMAIN sendq : k \in DOMAIN sendq' /\ sendq'[k] = sendq[k]
          /\ \A k \in DOMAIN sendq' : k # n => k \in DOMAIN sendq
          /\ \A k \in DOMAIN sendq : k < n
      BY <1>0, <1>2, AfterPost, LenProperties DEF TypeOK
    <2> HIDE DEF n
    <2>2. \A j \in DOMAIN sendq' : j <= n
      BY <1>0, <2>1
    <2>3. New(n)
      BY <1>2, <2>1, <2>2 DEF New
    <2>4. \A k \in DOMAIN sendq' : k # n => Was(k, 0)
      BY <1>0, <2>1 DEF Was
    <2> QED BY <2>3, <2>4
  <1>3. CASE sendq # << >> /\ RunEvent(<< >>)
    <2>1. \A k \in DOMAIN sendq' : Was(k, 1)
      BY <1>0, <1>3, AfterRun DEF Was
    <2> QED BY <2>1
  <1>4. ASSUME NEW e \in Events, ~IsSocketEvent(e), sendq # << >>, RunEvent(<<e>>)
        PROVE  \A k \in DOMAIN sendq' : Was(k, 1) \/ New(k)
    <2>1. /\ Len(sendq) \in DOMAIN sendq' /\ sendq'[Len(sendq)] = e
          /\ \A k \in DOMAIN sendq' : k # Len(sendq) => k < Len(sendq) /\ Was(k, 1)
      BY <1>0, <1>4, AfterRunAndPost DEF Was
    <2>2. Len(sendq) \in Nat
      BY <1>0, LenProperties DEF TypeOK
    <2>3. \A j \in DOMAIN sendq' : j <= Len(sendq)
      BY <2>1, <2>2
    <2>4. New(Len(sendq))
      BY <1>4, <2>1, <2>3 DEF New
    <2> QED BY <2>1, <2>4
  <1>5. CASE TrafficStep
    <2>1. CASE PullPost
      <3> DEFINE e == Event(rpc, cur)
      <3>1. e \in Events /\ ~IsSocketEvent(e) /\ sendq' = Append(sendq, e)
        BY <1>0, <2>1 DEF PullPost, Event, Events, IsSocketEvent, event_base_once,
             ContextsReady, Holding
      <3> HIDE DEF e
      <3> QED BY <1>2, <3>1
    <2>2. CASE ~PullPost
      <3>1. UNCHANGED sendq
        BY <1>5, <2>2 DEF TrafficStep, Client, Push, Connect, TrRecvStep, evsock_pull_read,
             PullWake, PullTry, PullScan, PullGetCtx, PullNone, PullHead, PullBadType,
             PullNullBody, PullDiffSize, PullAccept, Receive, sendVars
      <3> QED BY <1>1, <3>1
    <2> QED BY <2>1, <2>2
  <1>6. CASE SendStep
    <2>1. CASE RelayBadRoute \/ RelayUnroutable
      <3>1. PICK code : NextIs("push_relay") /\ RelayFails(code)
        BY <2>1, FailCode
      <3> DEFINE e == Event("router_err_reply", arg)
      <3>2. sendq # << >> /\ RunEvent(<<e>>) /\ e \in Events /\ ~IsSocketEvent(e)
        BY <1>0, <3>1, HeadCtx DEF NextIs, RelayFails, Event, Events, IsSocketEvent
      <3> HIDE DEF e
      <3> QED BY <1>4, <3>2
    <2>2. CASE RelayAccepted \/ evsock_router_err_reply \/ SocketEvent
      <3>1. sendq # << >> /\ RunEvent(<< >>)
        BY <2>2 DEF RelayAccepted, evsock_router_err_reply, SocketEvent, evsock_push_create,
             evsock_push_remove, NextIs
      <3> QED BY <1>3, <3>1
    <2> QED BY <1>6, <2>1, <2>2 DEF SendStep, TrSendNext, evsock_push_relay
  <1>7. CASE MgntStep
    <2>1. CASE UNCHANGED sendq
      BY <1>1, <2>1
    <2>2. ASSUME NEW h \in {"push_create", "push_remove"}, NEW s \in Services, Told(h, s)
          PROVE  \A k \in DOMAIN sendq' : Was(k, 0) \/ New(k)
      <3> DEFINE e == Event(h, s)
      <3>1. e \in Events /\ e.arg = s /\ sendq' = Append(sendq, e)
            /\ ~(HasClient(s) /\ HasClient(s)')
        BY <2>2 DEF Event, Events, Told, event_base_once
      <3> HIDE DEF e
      <3> QED BY <1>2, <3>1
    <2> QED BY <1>7, <2>1, <2>2, MgntPosts DEF MgntStep
  <1>8. CASE RegiStep \/ UNCHANGED brokerVars
    BY <1>1, <1>8 DEF RegiStep, brokerVars, vars, sendVars
  <1> QED BY <1>5, <1>6, <1>7, <1>8 DEF BrokerNext

\* Every step keeps what is owed served, and no event behind an owed one.
LEMMA NoneBehindStep ==
  ASSUME IInv, NamesTyped, OwedServed, NoneBehind, [BrokerNext]_brokerVars
  PROVE  OwedServed' /\ NoneBehind'
  <1>1. CASE UNCHANGED brokerVars
    <2>1. UNCHANGED <<owed, msgs, appls, svcname, sendq, ctx>>
      BY <1>1 DEF brokerVars, vars, recvVars, poolVars, sendVars, mgntVars
    <2> QED BY <2>1 DEF OwedServed, NoneBehind, HasClient, IsRelay, IsSocketEvent
  <1>2. CASE KeepOwed
    <2>1. OwedServed'
      BY <1>2 DEF KeepOwed, OwedServed
    <2>2. \A i \in owed' : i \in owed \cup (Posted' \ Posted)
      BY <1>2 DEF KeepOwed
    <2>3. PICK d \in {0, 1} : \A k \in DOMAIN sendq' : Was(k, d) \/ New(k)
      BY QueueMoves
    <2>4. /\ TypeOK /\ ContextsReady /\ MessagesStay /\ DOMAIN sendq \subseteq Nat
          /\ DOMAIN sendq' \subseteq Nat
      <3>1. [Next]_vars
        BY BrokerStep
      <3>2. TypeOK' /\ MessagesStay
        BY <3>1, CountStep, TypeStep
      <3>3. sendq \in Seq(Events) /\ sendq' \in Seq(Events)
        BY <3>2 DEF IInv, TypeOK, Events
      <3> QED BY <3>2, <3>3, LenProperties DEF IInv
    <2> SUFFICES ASSUME NEW j \in DOMAIN sendq', NEW k \in DOMAIN sendq', k < j,
                        IsRelay(sendq'[k]), IsSocketEvent(sendq'[j]),
                        ctx'[sendq'[k].arg].of \in owed'
                 PROVE  sendq'[j].arg # msgs'[ctx'[sendq'[k].arg].of].dest
      BY <2>1 DEF NoneBehind, IsRelay, IsSocketEvent
    <2> DEFINE c == sendq'[k].arg  i == ctx[c].of
    <2>5. Was(k, d) /\ k + d \in CtxEvents /\ sendq[k + d].arg = c
      <3>1. Was(k, d)
        BY <2>3, <2>4 DEF New
      <3> QED BY <3>1 DEF Was, CtxEvents, IsCtxEvent, IsRelay
    <2>6. ctx'[c].of = i
      BY <2>5, BrokerStep, QueuedKeeps
    <2>7. i \in Posted
      BY <2>5 DEF Posted, Was
    <2>8. i \in owed
      BY <2>2, <2>6, <2>7
    <2>9. msgs'[i] = msgs[i]
      <3>1. i \in Received
        BY <2>4, <2>5 DEF ContextsReady, ReadyFor
      <3> QED BY <2>4, <3>1 DEF MessagesStay
    <2>10. CASE Was(j, d)
      <3>1. k + d < j + d
        BY <2>4
      <3>2. sendq[j + d].arg # msgs[i].dest
        BY <2>5, <2>8, <2>10, <3>1 DEF NoneBehind, Was
      <3> QED BY <2>6, <2>9, <2>10, <3>2 DEF Was
    <2>11. CASE New(j)
      <3>1. PICK s \in Services : sendq'[j].arg = s /\ ~(HasClient(s) /\ HasClient(s)')
        BY <2>11 DEF New
      <3>2. PICK t : t = msgs[i].dest
        OBVIOUS
      <3>3. HasClient(t) /\ HasClient(t)'
        <4>1. HasClient(t)
          BY <2>8, <3>2 DEF OwedServed
        <4>2. \E u \in appls' : svcname'[u] = t
          BY <2>1, <2>6, <2>9, <3>2 DEF OwedServed, HasClient
        <4> QED BY <4>1, <4>2 DEF HasClient
      <3> QED BY <2>6, <2>9, <3>1, <3>2, <3>3
    <2> QED BY <2>3, <2>10, <2>11
  <1> QED BY <1>1, <1>2 DEF BrokerNext

\* At the head of the queue nothing is pending for the service any more, so that
\* its socket is there as its clients are.
LEMMA HeadFindsSocket ==
  ASSUME IInv, NamesTyped, RegP!IInv, OwedServed, NoneBehind
  PROVE  SocketWaits
  <1> SUFFICES ASSUME NEW i, i = ctx[Head(sendq).arg].of, NextIs("push_relay"),
                      i \in owed, msgs[i].dest # ROUTER
               PROVE  zsocks[msgs[i].dest] = "ZMQ_PUSH"
    BY DEF SocketWaits
  <1>0. /\ TypeOK /\ QueueIsRest /\ ContextsReady /\ sendq \in Seq(Events)
        /\ DOMAIN sendq \subseteq Nat
    BY LenProperties DEF IInv, TypeOK
  <1>1. PICK s : s = msgs[i].dest
    OBVIOUS
  <1>2. HasClient(s) /\ s \in Keys \cup Uuids
    <2>1. i \in Received
      BY <1>0, HeadCtx DEF arg
    <2>2. msgs[i] \in envelop_t
      BY <1>0, HeadCtx DEF arg, head
    <2> QED BY <1>1, <2>2 DEF OwedServed, envelop_t
  <1>3. s \in Services \ {ROUTER}
    <2>1. PICK u \in appls : svcname[u] = s
      BY <1>2 DEF HasClient
    <2>2. u \in Uuids
      BY DEF RegP!IInv, RegP!TypeOK
    <2>3. s \in Services \cup {NoName}
      BY <2>1, <2>2 DEF NamesTyped
    <2> QED BY <1>1, <1>2, <2>3, ClientsAssumption DEF Keys
  <1>4. ASSUME NEW k \in DOMAIN RegQueue PROVE RegQueue[k].arg # s
    <2>1. RegQueue \in Seq(Kept(sendq))
      BY <1>0, EventsKept DEF RegQueue
    <2>2. RegQueue[k] \in Kept(sendq)
      BY <2>1, LenProperties, ElementOfSeq
    <2>3. PICK j \in DOMAIN sendq : IsSocketEvent(sendq[j]) /\ RegQueue[k] = sendq[j]
      BY <2>2 DEF Kept
    <2>4. 1 \in DOMAIN sendq /\ sendq[1] = Head(sendq) /\ IsRelay(sendq[1])
      BY <1>0, TailOf DEF NextIs, IsRelay
    <2>5. 1 < j
      <3>1. j # 1 /\ j \in 1 .. Len(sendq)
        BY <1>0, <2>3, <2>4, LenProperties DEF IsRelay, IsSocketEvent
      <3> QED BY <3>1
    <2> QED BY <1>1, <2>3, <2>4, <2>5 DEF NoneBehind
  <1>5. RegP!Follows(s)
    BY <1>3 DEF RegP!IInv, RegP!SocketFollowsRegistry, RegP!ROUTER, ROUTER
  <1>6. RegP!Pending(s) = {}
    BY <1>4 DEF RegP!Pending, RegQueue
  <1>7. RegP!ClientsOf(s) # {}
    BY <1>2 DEF HasClient, RegP!ClientsOf
  <1> QED BY <1>1, <1>5, <1>6, <1>7 DEF RegP!Follows, RegP!Alternate

\* The two instances of the registration path are one.
LEMMA SameSpec == Reg!Spec <=> RegP!Spec
BY DEF Reg!Spec, RegP!Spec, Reg!Init, RegP!Init, Reg!InitMgnt, RegP!InitMgnt,
    Reg!InitSend, RegP!InitSend, Reg!FreshZSock, RegP!FreshZSock, Reg!Next, RegP!Next,
    Reg!Client, RegP!Client, Reg!Join, RegP!Join, Reg!Leave, RegP!Leave, Reg!zutil_regi,
    RegP!zutil_regi, Reg!SubConnect, RegP!SubConnect, Reg!Announce, RegP!Announce,
    Reg!Arrive, RegP!Arrive, Reg!Attach, RegP!Attach, Reg!regi, RegP!regi, Reg!Tick,
    RegP!Tick, Reg!Up, RegP!Up, Reg!Second, RegP!Second, Reg!TrMgntStep, RegP!TrMgntStep,
    Reg!TrMgntNext, RegP!TrMgntNext, Reg!evsock_sub_read, RegP!evsock_sub_read,
    Reg!SubWake, RegP!SubWake, Reg!SubNone, RegP!SubNone, Reg!SubDiscard, RegP!SubDiscard,
    Reg!SubReceive, RegP!SubReceive, Reg!ReadOne, RegP!ReadOne, Reg!ReadEvents,
    RegP!ReadEvents, Reg!TakeHead, RegP!TakeHead, Reg!TakePart, RegP!TakePart, Reg!Again,
    RegP!Again, Reg!zsock_drain_remain_part, RegP!zsock_drain_remain_part,
    Reg!handle_regi, RegP!handle_regi, Reg!RegiUpdate, RegP!RegiUpdate, Reg!RegiNew,
    RegP!RegiNew, Reg!ListNew, RegP!ListNew, Reg!IsRegi, RegP!IsRegi, Reg!NoneFound,
    RegP!NoneFound, Reg!NoName, RegP!NoName, Reg!Event, RegP!Event, Reg!event_base_once,
    RegP!event_base_once, Reg!manage_appls, RegP!manage_appls, Reg!ManageStart,
    RegP!ManageStart, Reg!ManageEnd, RegP!ManageEnd, Reg!VisitAlive, RegP!VisitAlive,
    Reg!VisitExpired, RegP!VisitExpired, Reg!Visited, RegP!Visited, Reg!Ahead, RegP!Ahead,
    Reg!Unlist, RegP!Unlist, Reg!TrSendStep, RegP!TrSendStep, Reg!evsock_push_create,
    RegP!evsock_push_create, Reg!evsock_push_remove, RegP!evsock_push_remove, Reg!NextIs,
    RegP!NextIs, Reg!RunEvent, RegP!RunEvent, Reg!add_zsock_to_list,
    RegP!add_zsock_to_list, Reg!del_zsock_from_list, RegP!del_zsock_from_list, Reg!Keys,
    RegP!Keys, Reg!ROUTER, RegP!ROUTER, Reg!vars, RegP!vars, Reg!mgntVars, RegP!mgntVars,
    Reg!sendVars, RegP!sendVars, Reg!clientVars, RegP!clientVars

\* The assumptions of module Registry hold of the whole.
LEMMA RegAssumed ==
  /\ MAX_MSGSIZE_BYTE \in Nat \ {0}
  /\ Expiry \in Nat
  /\ Rank \in [Uuids -> Nat \ {0}]
  /\ \A u, v \in Uuids : Rank[u] = Rank[v] => u = v
  /\ SvcOf \in [Uuids -> Services \cup {RegP!NoName}]
  /\ Strays \subseteq RegP!Announcement
  /\ \A m \in Strays : RegP!IsRegi(m) => m.svcname = SvcOf[m.uuid]
  /\ RegP!NoName \notin Services
  /\ MaxQueue \in Nat /\ MaxMgnt \in Nat
  /\ Paces \subseteq {"lagging", "prompt", "punctual"}
BY MsgSizeAssumption, ExpiryAssumption, RankAssumption, ClientsAssumption, BoundsAssumption
DEF RegP!NoName, NoName, RegP!Announcement, Announcement, RegP!IsRegi, IsRegi,
    RegP!zmsg_type_t, zmsg_type_t

\* The registration path of the whole keeps what is proved of module Registry:
\* the sockets follow the registry, and no announcement is slept on, whatever
\* traffic shares the event base (handle_regi, evsock_sub_read).
THEOREM WholeFollowsRegistry ==
  BrokerSpec => [](RegP!SocketFollowsRegistry /\ RegP!NoLostAnnouncement)
  <1>1. RegP!Spec => []RegP!SocketFollowsRegistry
    BY RegAssumed, RegP!SocketsFollow
  <1>2. RegP!Spec => []RegP!NoLostAnnouncement
    BY RegAssumed, RegP!NoSleepOnAnnouncement
  <1> QED BY <1>1, <1>2, SameSpec, WholeImplementsRegistry, PTL DEF ImplementsRegistry

\* A message received when its service has a client finds the socket of the
\* service when its turn comes, if the service keeps a client: for any number of
\* messages, services and clients and any interleaving of the three threads
\* (evsock_pull_read, handle_regi, check_svc_alive, evsock_push_relay).
THEOREM SocketInTime == BrokerSpec => []SocketWaits
  <1>1. BrokerInit => OwedServed /\ NoneBehind
    BY EmptySeq DEF BrokerInit, Init, InitSend, OwedServed, NoneBehind
  <1>2. NamesTyped /\ IInv /\ OwedServed /\ NoneBehind /\ [BrokerNext]_brokerVars
          => OwedServed' /\ NoneBehind'
    BY NoneBehindStep
  <1>3. BrokerSpec => [](OwedServed /\ NoneBehind)
    BY <1>1, <1>2, WholeKeeps, PTL DEF BrokerSpec
  <1>4. RegP!Spec => []RegP!IInv
    BY RegAssumed, RegP!RegistryInvariant
  <1>5. BrokerSpec => []RegP!IInv
    BY <1>4, SameSpec, WholeImplementsRegistry, PTL DEF ImplementsRegistry
  <1>6. NamesTyped /\ IInv /\ RegP!IInv /\ OwedServed /\ NoneBehind => SocketWaits
    BY HeadFindsSocket
  <1> QED BY <1>3, <1>5, <1>6, WholeKeeps, PTL
=============================================================================
