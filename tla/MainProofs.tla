----------------------------- MODULE MainProofs ------------------------------
(***************************************************************************)
(* Proofs about the main threads, the broker's (main.c) and a client's.    *)
(* The broker's starts the others (module Startup): the order of creation  *)
(* and its pause are enough for every post to find the base of TR_SEND,    *)
(* whatever clients do.  Then it counts (module TickStat): for any number  *)
(* of messages no increment is printed twice, and none is lost but in the  *)
(* window between the read and the reset of its own counter.  A client     *)
(* (module Client) announces what it did since it last announced itself,   *)
(* whatever becomes of its messages, and however far it counts.            *)
(***************************************************************************)
EXTENDS Startup, TickStat, Client, TLAPS

(* The start *)

ThreadStates == {"none", "failed", "born", "based", "ready", "loop", "ended"}

\* Threads are created in the order of Roles, and main goes on from one to the
\* next only when it is in its loop or was never born.
InOrder ==
  /\ i \in 1 .. TR_NUM + 1
  /\ th \in [Threads -> ThreadStates]
  /\ mpc = "sleep" => i <= TR_NUM
  /\ mpc \in {"prepare", "exit"} => \A t \in Threads : th[t] = "none"
  /\ \A k \in 1 .. TR_NUM :
       /\ k < i => th[Roles[k]] \in {"failed", "loop"}
       /\ k > i \/ (k = i /\ mpc = "create") => th[Roles[k]] = "none"

StartInv == InOrder /\ nowhere \in Nat /\ NothingPostedNowhere

\* The roles are the three threads, each once.
LEMMA RolesAre ==
  /\ TR_NUM = 3 /\ 1 .. TR_NUM = {1, 2, 3}
  /\ Roles[1] = "tr_send" /\ Roles[2] = "tr_recv" /\ Roles[3] = "tr_mgnt"
BY DEF TR_NUM, Roles

\* TR_RECV and TR_MGNT are in their loops only after TR_SEND was in its own, or
\* failed to be created.
LEMMA SendFirst ==
  ASSUME InOrder, th["tr_recv"] = "loop" \/ th["tr_mgnt"] = "loop"
  PROVE  HasBase("tr_send") \/ th["tr_send"] = "failed"
  <1>1. i > 1
    BY RolesAre DEF InOrder
  <1> QED BY <1>1, RolesAre DEF InOrder, HasBase

\* A post reaches the base, or is lost because there never will be one.
LEMMA PostStep ==
  ASSUME StartInv, NEW ev, Post(ev), th["tr_recv"] = "loop" \/ th["tr_mgnt"] = "loop",
         UNCHANGED <<mainVars, th>>
  PROVE  StartInv'
  <1>1. InOrder'
    BY DEF StartInv, InOrder, mainVars, Threads
  <1>2. CASE HasBase("tr_send")
    BY <1>1, <1>2 DEF Post, StartInv, NothingPostedNowhere
  <1>3. CASE ~HasBase("tr_send")
    BY <1>1, <1>3, SendFirst DEF Post, StartInv, NothingPostedNowhere
  <1> QED BY <1>2, <1>3

\* Every step keeps the invariant, if a thread gets into its loop in a second.
LEMMA OrderStep == SleepSuffices /\ StartInv /\ [StartNext]_startVars => StartInv'
  <1> SUFFICES ASSUME SleepSuffices, StartInv, [StartNext]_startVars PROVE StartInv'
    OBVIOUS
  <1>0. InOrder /\ nowhere \in Nat /\ NothingPostedNowhere
    BY DEF StartInv
  <1>1. CASE Prepare
    BY <1>0, <1>1, RolesAre
       DEF Prepare, StartInv, InOrder, NothingPostedNowhere, dataVars, Threads
  <1>2. CASE CreateThread
    <2>1. PICK s \in {"born", "failed"} : th' = [th EXCEPT ![Roles[i]] = s]
      BY <1>2 DEF CreateThread
    <2>2. i \in 1 .. TR_NUM /\ th[Roles[i]] = "none" /\ mpc' = "sleep"
          /\ UNCHANGED <<i, nowhere>>
      BY <1>0, <1>2 DEF CreateThread, InOrder, dataVars
    <2>3. InOrder'
      BY <1>0, <2>1, <2>2, RolesAre DEF InOrder, ThreadStates, Threads
    <2>4. th["tr_send"] = "failed" => th'["tr_send"] = "failed"
      BY <1>0, <2>1, <2>2, RolesAre DEF InOrder, Threads
    <2> QED BY <1>0, <2>2, <2>3, <2>4 DEF StartInv, NothingPostedNowhere
  <1>3. CASE Slept
    BY <1>0, <1>3, RolesAre DEF Slept, StartInv, InOrder, NothingPostedNowhere, dataVars
  <1>4. CASE MainLoop
    BY <1>0, <1>4, RolesAre DEF MainLoop, StartInv, InOrder, NothingPostedNowhere, dataVars
  <1>5. ASSUME NEW t \in Threads, io_thread(t) PROVE StartInv'
    <2>1. PICK s \in {"based", "ready", "loop"} :
            /\ th' = [th EXCEPT ![t] = s]
            /\ s = "loop" \/ th[t] \in {"born", "based"}
      BY <1>5 DEF io_thread, BaseNew, initialize_thread, EnterLoop
    <2>2. th[t] \notin {"none", "failed", "loop"} /\ UNCHANGED <<mpc, i, nowhere>>
      BY <1>5 DEF io_thread, BaseNew, initialize_thread, EnterLoop, mainVars, dataVars
    <2>3. InOrder'
      BY <1>0, <2>1, <2>2, RolesAre DEF InOrder, ThreadStates, Threads
    <2>4. th["tr_send"] = "failed" => th'["tr_send"] = "failed"
      BY <1>0, <2>1, <2>2 DEF InOrder, Threads
    <2> QED BY <1>0, <2>2, <2>3, <2>4 DEF StartInv, NothingPostedNowhere
  <1>6. CASE RecvOne
    BY <1>6, PostStep DEF RecvOne
  <1>7. CASE MgntRegi
    BY <1>7, PostStep DEF MgntRegi
  <1>8. CASE SendOne \/ ClientPush \/ UNCHANGED startVars
    BY <1>0, <1>8 DEF SendOne, ClientPush, startVars, mainVars, dataVars, StartInv, InOrder,
                      NothingPostedNowhere
  <1> QED BY <1>1, <1>2, <1>3, <1>4, <1>5, <1>6, <1>7, <1>8
          DEF StartNext, MainStep, ThreadStep, initialize_main

\* No event is posted to a base that is not there, unless TR_SEND could not be
\* created: main's pause of a second after each pthread_create is enough if a
\* thread needs no longer to get into its loop, and nothing else is needed.
THEOREM NothingNowhere ==
  ASSUME SleepSuffices PROVE StartSpec => []NothingPostedNowhere
  <1>1. StartInit => StartInv
    BY RolesAre DEF StartInit, StartInv, InOrder, NothingPostedNowhere, ThreadStates, Threads
  <1>2. StartInv /\ [StartNext]_startVars => StartInv'
    BY OrderStep
  <1>3. StartInv => NothingPostedNowhere
    BY DEF StartInv
  <1> QED BY <1>1, <1>2, <1>3, PTL DEF StartSpec

-----------------------------------------------------------------------------
(* The statistics *)

\* The counters are nine, and these are their names.
LEMMA TheCounters ==
  /\ Len(Counters) = 9
  /\ \A k \in 1 .. 9 : Counters[k] \in Names
  /\ {"att", "succ", "fail", "OK", "INVALID_TYPE", "NULL_RECV", "DIFF_RECV",
      "ROUTE_TYPE", "TO_ROUTE"} \subseteq Names
  <1>1. Len(Counters) = 9 /\ DOMAIN Counters = 1 .. 9
    BY DEF Counters
  <1>2. \A k \in 1 .. 9 : Counters[k] \in Names
    BY <1>1 DEF Names
  <1>3. /\ Counters[1] = "att" /\ Counters[2] = "succ" /\ Counters[3] = "fail"
        /\ Counters[4] = "OK" /\ Counters[5] = "INVALID_TYPE"
        /\ Counters[6] = "NULL_RECV" /\ Counters[7] = "DIFF_RECV"
        /\ Counters[8] = "ROUTE_TYPE" /\ Counters[9] = "TO_ROUTE"
    BY DEF Counters
  <1>4. /\ "att" \in Names /\ "succ" \in Names /\ "fail" \in Names /\ "OK" \in Names
        /\ "INVALID_TYPE" \in Names /\ "NULL_RECV" \in Names /\ "DIFF_RECV" \in Names
        /\ "ROUTE_TYPE" \in Names /\ "TO_ROUTE" \in Names
    <2> HIDE DEF Names, Counters
    <2> QED BY <1>2, <1>3
  <1> QED BY <1>1, <1>2, <1>4

\* The counter tick_stat is at is one of them.
LEMMA CounterAt ==
  ASSUME TypeOK, at # 0
  PROVE  Counters[at] \in Names
  <1>1. at \in 0 .. 9
    BY TheCounters DEF TypeOK
  <1>2. at \in 1 .. 9
    BY <1>1
  <1> QED BY <1>2, TheCounters

\* Counting keeps the balance: in the window the counter is marked as raced, and
\* elsewhere what is counted is still to be printed (STAT_INC).
LEMMA CountStep ==
  ASSUME IInv, NEW s \in Names, STAT_INC(s), UNCHANGED <<at, got, printed>>
  PROVE  /\ val' \in [Names -> Nat] /\ done' \in [Names -> Nat] /\ raced' \in SUBSET Names
         /\ ReadIsLeft' /\ NoneTwice' /\ LostOnlyInWindow'
  <1> USE DEF IInv
  <1>1. /\ val' \in [Names -> Nat] /\ done' \in [Names -> Nat] /\ raced' \in SUBSET Names
    BY DEF STAT_INC, TypeOK
  <1>2. ASSUME NEW t \in Names
        PROVE  /\ val'[t] = (IF t = s THEN val[t] + 1 ELSE val[t])
               /\ done'[t] = IF t = s THEN done[t] + 1 ELSE done[t]
               /\ InWindow(t)' <=> InWindow(t)
               /\ Rest(t)' = IF t = s THEN Rest(t) + 1 ELSE Rest(t)
               /\ t \notin raced' => t \notin raced /\ (InWindow(t) => t # s)
    <2>1. /\ val'[t] = IF t = s THEN val[t] + 1 ELSE val[t]
          /\ done'[t] = IF t = s THEN done[t] + 1 ELSE done[t]
      BY DEF STAT_INC, TypeOK
    <2>2. InWindow(t)' <=> InWindow(t)
      BY DEF InWindow
    <2>3. val[t] \in Nat /\ got \in Int
      BY DEF TypeOK, Unread
    <2>4. t \notin raced' => t \notin raced /\ (InWindow(t) => t # s)
      BY DEF STAT_INC
    <2> QED BY <2>1, <2>2, <2>3, <2>4 DEF Rest
  <1>3. ASSUME NEW t \in Names
        PROVE  Rest(t) \in Int /\ val[t] \in Nat /\ done[t] \in Nat /\ printed[t] \in Nat
               /\ got \in Int
    BY DEF Rest, TypeOK, Unread
  <1>4. ReadIsLeft'
    BY <1>2, <1>3 DEF ReadIsLeft
  <1>5. NoneTwice'
    BY <1>2, <1>3 DEF NoneTwice
  <1>6. LostOnlyInWindow'
    BY <1>2, <1>3 DEF LostOnlyInWindow
  <1> QED BY <1>1, <1>4, <1>5, <1>6

\* Steps that touch no counter, and no place of tick_stat.
LEMMA CountersStay ==
  ASSUME IInv, UNCHANGED <<val, at, got, done, printed, raced>>
  PROVE  ReadIsLeft' /\ NoneTwice' /\ LostOnlyInWindow'
BY DEF IInv, ReadIsLeft, NoneTwice, LostOnlyInWindow, Rest, InWindow

\* A read moves what is in the counter to the line, and opens the window.
LEMMA GetStep ==
  ASSUME IInv, STAT_GET
  PROVE  IInv'
  <1> DEFINE s == Counters[at]
  <1>1. s \in Names /\ at' = at /\ at # 0 /\ got = Unread
    BY CounterAt DEF IInv, STAT_GET
  <1>2. /\ got' = val[s] /\ printed' = [printed EXCEPT ![s] = @ + val[s]]
        /\ UNCHANGED <<val, at, threadVars, done, raced>>
    BY DEF STAT_GET
  <1>3. val[s] \in Nat /\ got' # Unread
    BY <1>1, <1>2 DEF IInv, TypeOK, Unread
  <1>4. TypeOK'
    BY <1>1, <1>2, <1>3 DEF IInv, TypeOK, threadVars
  <1>5. ASSUME NEW t \in Names
        PROVE  /\ val'[t] = val[t] /\ val[t] \in Nat /\ done'[t] = done[t]
               /\ printed[t] \in Nat /\ done[t] \in Nat
               /\ printed'[t] = IF t = s THEN printed[t] + val[t] ELSE printed[t]
               /\ ~InWindow(t) /\ (InWindow(t)' <=> t = s)
               /\ Rest(t) = val[t] /\ Rest(t)' = (IF t = s THEN 0 ELSE val[t])
    <2>1. /\ val'[t] = val[t] /\ val[t] \in Nat /\ done'[t] = done[t]
          /\ printed[t] \in Nat /\ done[t] \in Nat
          /\ printed'[t] = IF t = s THEN printed[t] + val[t] ELSE printed[t]
      BY <1>1, <1>2 DEF IInv, TypeOK
    <2>2. ~InWindow(t) /\ (InWindow(t)' <=> t = s)
      BY <1>1, <1>2, <1>3 DEF InWindow
    <2> QED BY <2>1, <2>2, <1>2 DEF Rest
  <1>6. ReadIsLeft'
    <2> SUFFICES ASSUME NEW t \in Names, InWindow(t)'
                 PROVE  got' = val'[t] /\ got' \in Nat
      BY DEF ReadIsLeft
    <2>1. t = s
      BY <1>5
    <2> QED BY <2>1, <1>2, <1>3
  <1> HIDE DEF s
  <1>7. NoneTwice'
    BY <1>5 DEF IInv, NoneTwice
  <1>8. LostOnlyInWindow'
    BY <1>2, <1>5 DEF IInv, LostOnlyInWindow
  <1> QED BY <1>4, <1>6, <1>7, <1>8 DEF IInv

\* A reset throws away what was counted since the read, which is nothing unless
\* the counter raced, and closes the window.
LEMMA UnsetStep ==
  ASSUME IInv, STAT_UNSET
  PROVE  IInv'
  <1> DEFINE s == Counters[at]
  <1>1. s \in Names /\ at # 0 /\ got # Unread /\ at \in 0 .. 9
    BY CounterAt, TheCounters DEF IInv, STAT_UNSET, TypeOK
  <1>2. /\ val' = [val EXCEPT ![s] = 0] /\ got' = Unread
        /\ at' = NextCounter
        /\ UNCHANGED <<threadVars, done, printed, raced>>
    BY DEF STAT_UNSET
  <1>3. NextCounter \in 0 .. 9
    BY <1>1, TheCounters DEF NextCounter
  <1>4. TypeOK'
    BY <1>1, <1>2, <1>3, TheCounters DEF IInv, TypeOK, threadVars
  <1>5. ASSUME NEW t \in Names
        PROVE  /\ val'[t] = (IF t = s THEN 0 ELSE val[t]) /\ val[t] \in Nat
               /\ done'[t] = done[t] /\ printed'[t] = printed[t]
               /\ printed[t] \in Nat /\ done[t] \in Nat /\ got \in Nat
               /\ (InWindow(t) <=> t = s) /\ ~InWindow(t)'
               /\ Rest(t) = (IF t = s THEN val[t] - got ELSE val[t])
               /\ Rest(t)' = (IF t = s THEN 0 ELSE val[t])
    <2>1. /\ val'[t] = (IF t = s THEN 0 ELSE val[t]) /\ val[t] \in Nat
          /\ done'[t] = done[t] /\ printed'[t] = printed[t]
          /\ printed[t] \in Nat /\ done[t] \in Nat /\ got \in Nat
      BY <1>1, <1>2 DEF IInv, TypeOK
    <2>2. (InWindow(t) <=> t = s) /\ ~InWindow(t)'
      BY <1>1, <1>2 DEF InWindow
    <2> QED BY <2>1, <2>2 DEF Rest
  <1> HIDE DEF s
  <1>6. ReadIsLeft'
    BY <1>5 DEF ReadIsLeft
  <1>7. NoneTwice'
    BY <1>5 DEF IInv, NoneTwice, ReadIsLeft
  <1>8. LostOnlyInWindow'
    BY <1>2, <1>5 DEF IInv, LostOnlyInWindow, ReadIsLeft
  <1> QED BY <1>4, <1>6, <1>7, <1>8 DEF IInv

\* The two threads' own steps, where nothing is counted or just one counter is.
LEMMA CountingStep ==
  ASSUME IInv, RecvMsg \/ RecvCount \/ SendMsg \/ SendCount
  PROVE  IInv'
  <1> USE DEF IInv
  <1>1. CASE RecvMsg
    <2>1. \A r \in {"INVALID_TYPE", "NULL_RECV", "DIFF_RECV"} :
            <<"att", "fail", r>> \in Seq(Names \cup {"post"})
      BY TheCounters
    <2>2. <<"att", "post">> \in Seq(Names \cup {"post"})
      BY TheCounters
    <2>3. recvTodo' \in Seq(Names \cup {"post"})
      BY <1>1, <2>1, <2>2 DEF RecvMsg
    <2>4. TypeOK'
      BY <1>1, <2>3 DEF RecvMsg, TypeOK
    <2>5. UNCHANGED <<val, at, got, done, printed, raced>>
      BY <1>1 DEF RecvMsg
    <2> QED BY <2>4, <2>5, CountersStay
  <1>2. CASE SendMsg
    <2>1. <<"succ", "OK">> \in Seq(Names) /\ <<"fail", "ROUTE_TYPE">> \in Seq(Names)
          /\ <<"fail", "TO_ROUTE">> \in Seq(Names)
      BY TheCounters
    <2>2. sendTodo' \in Seq(Names)
      BY <1>2, <2>1 DEF SendMsg
    <2>3. waiting' \in Nat
      BY <1>2 DEF SendMsg, TypeOK
    <2>4. TypeOK'
      BY <1>2, <2>2, <2>3 DEF SendMsg, TypeOK
    <2>5. UNCHANGED <<val, at, got, done, printed, raced>>
      BY <1>2 DEF SendMsg
    <2> QED BY <2>4, <2>5, CountersStay
  <1>3. CASE RecvCount
    <2>1. recvTodo' \in Seq(Names \cup {"post"}) /\ Head(recvTodo) \in Names \cup {"post"}
      BY <1>3 DEF RecvCount, TypeOK
    <2>2. UNCHANGED <<at, got, sendTodo, printed>>
      BY <1>3 DEF RecvCount
    <2>3. CASE Head(recvTodo) = "post"
      <3>1. waiting' \in Nat /\ UNCHANGED <<val, done, raced>>
        BY <1>3, <2>3 DEF RecvCount, TypeOK
      <3>2. TypeOK'
        BY <2>1, <2>2, <3>1 DEF TypeOK
      <3> QED BY <2>2, <3>1, <3>2, CountersStay
    <2>4. CASE Head(recvTodo) # "post"
      <3>1. STAT_INC(Head(recvTodo)) /\ UNCHANGED waiting /\ Head(recvTodo) \in Names
        BY <1>3, <2>1, <2>4 DEF RecvCount
      <3>2. /\ val' \in [Names -> Nat] /\ done' \in [Names -> Nat]
            /\ raced' \in SUBSET Names /\ ReadIsLeft' /\ NoneTwice' /\ LostOnlyInWindow'
        BY <2>2, <3>1, CountStep
      <3>3. TypeOK'
        BY <2>1, <2>2, <3>1, <3>2 DEF TypeOK
      <3> QED BY <3>2, <3>3
    <2> QED BY <2>3, <2>4
  <1>4. CASE SendCount
    <2>1. sendTodo' \in Seq(Names) /\ Head(sendTodo) \in Names
      BY <1>4 DEF SendCount, TypeOK
    <2>2. STAT_INC(Head(sendTodo)) /\ UNCHANGED <<at, got, recvTodo, waiting, printed>>
      BY <1>4 DEF SendCount
    <2>3. /\ val' \in [Names -> Nat] /\ done' \in [Names -> Nat]
          /\ raced' \in SUBSET Names /\ ReadIsLeft' /\ NoneTwice' /\ LostOnlyInWindow'
      BY <2>1, <2>2, CountStep
    <2>4. TypeOK'
      BY <2>1, <2>2, <2>3 DEF TypeOK
    <2> QED BY <2>3, <2>4
  <1> QED BY <1>1, <1>2, <1>3, <1>4

\* The timer fires; no window is open before or after.
LEMMA TimerStep ==
  ASSUME IInv, main_tick
  PROVE  IInv'
  <1>1. TypeOK'
    <2>1. at' \in 0 .. Len(Counters)
      BY TheCounters DEF main_tick
    <2> QED BY <2>1 DEF IInv, TypeOK, main_tick, threadVars
  <1>2. \A t \in Names : ~InWindow(t) /\ ~InWindow(t)'
    BY DEF main_tick, InWindow
  <1>3. \A t \in Names : Rest(t) = val[t] /\ Rest(t)' = val'[t]
    BY <1>2 DEF Rest
  <1>4. UNCHANGED <<val, done, printed, raced>>
    BY DEF main_tick
  <1> QED BY <1>1, <1>2, <1>3, <1>4 DEF IInv, ReadIsLeft, NoneTwice, LostOnlyInWindow

\* Before the first message nothing is counted, read or printed.
LEMMA InitHolds == Init => IInv
  <1> SUFFICES ASSUME Init PROVE IInv
    OBVIOUS
  <1>1. at \in 0 .. Len(Counters)
    BY TheCounters DEF Init
  <1>2. val \in [Names -> Nat] /\ done \in [Names -> Nat] /\ printed \in [Names -> Nat]
    BY DEF Init, Zero
  <1>3. TypeOK
    BY <1>1, <1>2 DEF Init, TypeOK
  <1>4. \A s \in Names : ~InWindow(s)
    BY DEF Init, InWindow
  <1>5. \A s \in Names : val[s] = 0 /\ done[s] = 0 /\ printed[s] = 0 /\ Rest(s) = 0
    BY <1>4 DEF Init, Zero, Rest
  <1> QED BY <1>3, <1>4, <1>5 DEF IInv, ReadIsLeft, NoneTwice, LostOnlyInWindow

\* Every increment, read and tick keeps the invariant.
LEMMA NextKeeps == IInv /\ [Next]_vars => IInv'
  <1> SUFFICES ASSUME IInv, [Next]_vars PROVE IInv'
    OBVIOUS
  <1>1. CASE Tick
    BY <1>1, TimerStep, GetStep, UnsetStep DEF Tick
  <1>2. CASE RecvMsg \/ RecvCount \/ SendMsg \/ SendCount
    BY <1>2, CountingStep
  <1>3. CASE UNCHANGED vars
    <2>1. TypeOK'
      BY <1>3 DEF IInv, TypeOK, vars, threadVars
    <2>2. UNCHANGED <<val, at, got, done, printed, raced>>
      BY <1>3 DEF vars
    <2> QED BY <2>1, <2>2, CountersStay DEF IInv
  <1> QED BY <1>1, <1>2, <1>3 DEF Next

-----------------------------------------------------------------------------
\* However the increments of the two threads fall between the operations of
\* tick_stat, the invariant holds.
THEOREM TallyInvariant == Spec => []IInv
  <1>1. Init => IInv
    BY InitHolds
  <1>2. IInv /\ [Next]_vars => IInv'
    BY NextKeeps
  <1> QED BY <1>1, <1>2, PTL DEF Spec

\* No increment is printed in two lines (tick_stat resets what it read).
THEOREM NoCountTwice == Spec => []NoneTwice
  <1>1. IInv => NoneTwice
    BY DEF IInv
  <1> QED BY <1>1, TallyInvariant, PTL

\* A counter whose increments never fell between its read and its reset has lost
\* nothing (tick_stat).
THEOREM LossNeedsRace == Spec => []LostOnlyInWindow
  <1>1. IInv => LostOnlyInWindow
    BY DEF IInv
  <1> QED BY <1>1, TallyInvariant, PTL

-----------------------------------------------------------------------------
(* The client *)

\* The counters are those of the time since the last announcement, also when
\* that announcement reached nobody.
CountsSinceLast ==
  /\ tally = [snd |-> snd_cnt, rcv |-> rcv_cnt]
  /\ AnnouncesSinceLast

\* Every call of zutil.c keeps them so.
LEMMA CountsStep == CountsSinceLast /\ [ClientNext]_clientVars => CountsSinceLast'
  <1> SUFFICES ASSUME CountsSinceLast, [ClientNext]_clientVars PROVE CountsSinceLast'
    OBVIOUS
  <1>0. tally.snd = snd_cnt /\ tally.rcv = rcv_cnt
    BY DEF CountsSinceLast
  <1>1. CASE UNCHANGED <<cntVars, tally, last>>
    BY <1>1 DEF cntVars, CountsSinceLast, AnnouncesSinceLast
  <1>2. CASE zutil_regi
    <2>1. CASE age < 1
      BY <1>1, <1>2, <2>1 DEF zutil_regi
    <2>2. CASE ~(age < 1)
      BY <1>2, <2>2 DEF zutil_regi, ResetCounters, CountsSinceLast, AnnouncesSinceLast
    <2> QED BY <2>1, <2>2
  <1>3. CASE zutil_send
    <2>1. CASE UNCHANGED <<snd_cnt, tally>>
      BY <1>1, <1>3, <2>1 DEF zutil_send, cntVars
    <2>2. CASE snd_cnt' = Count(snd_cnt) /\ tally' = [tally EXCEPT !.snd = Count(@)]
      BY <1>0, <1>3, <2>2 DEF zutil_send, CountsSinceLast, AnnouncesSinceLast
    <2> QED BY <1>3, <2>1, <2>2 DEF zutil_send
  <1>4. ASSUME NEW s \in Sockets, RecvFrom(s) PROVE CountsSinceLast'
    BY <1>0, <1>4 DEF RecvFrom, CountsSinceLast, AnnouncesSinceLast
  <1>5. CASE zutil_init \/ RecvNothing \/ Arrival \/ Second
    BY <1>1, <1>5 DEF zutil_init, RecvNothing, Arrival, Second
  <1>6. CASE UNCHANGED clientVars
    BY <1>1, <1>6 DEF clientVars
  <1> QED BY <1>2, <1>3, <1>4, <1>5, <1>6 DEF ClientNext, ClientLoop, zutil_recv

\* An announcement says what was sent and received since the one before,
\* whether or not that one went anywhere, and whether or not the client has
\* sockets at all (zutil_regi).
THEOREM AnnouncesWhatItDid == ClientSpec => []AnnouncesSinceLast
  <1>1. ClientInit => CountsSinceLast
    BY DEF ClientInit, CountsSinceLast, AnnouncesSinceLast
  <1>2. CountsSinceLast => AnnouncesSinceLast
    BY DEF CountsSinceLast
  <1> QED BY <1>1, <1>2, CountsStep, PTL DEF ClientSpec
=============================================================================
