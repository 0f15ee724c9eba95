------------------------------ MODULE Startup -------------------------------
(***************************************************************************)
(* The start of the broker (main.c): the main thread prepares what all     *)
(* share, then creates TR_SEND, TR_RECV and TR_MGNT, a second apart.  Each *)
(* makes its own event base, its lists and sockets, and enters its loop.   *)
(* The later ones post to the base of TR_SEND, and nothing but that second *)
(* makes sure that it is there.  Clients may be there first: what they     *)
(* push waits for the PULL socket, what they publish before the SUB socket *)
(* is bound is lost and said again a second later.                         *)
(***************************************************************************)
EXTENDS Naturals, Sequences

CONSTANTS
  SleepSuffices,  \* TRUE: a thread gets into its loop within main's sleep(1)
  CreateFails,    \* TRUE: pthread_create may fail
  MaxPush         \* bound: messages the clients push

ASSUME StartupAssumption ==
  SleepSuffices \in BOOLEAN /\ CreateFails \in BOOLEAN /\ MaxPush \in Nat

VARIABLES
  mpc,        \* main: prepare, create, sleep, loop, exit
  i,          \* its loop variable: threads created so far
  th,         \* each thread: none, failed, born, based, ready, loop, ended
  pushed,     \* messages pushed by clients so far
  pulled,     \* messages TR_RECV has received of them
  announced,  \* TR_MGNT has listed the client of the service
  sendq,      \* active events of TR_SEND
  nowhere,    \* events posted while TR_SEND had no base
  relayed,    \* messages TR_SEND has handled
  opened      \* the socket of the service is there

mainVars == <<mpc, i>>
dataVars == <<pushed, pulled, announced, sendq, nowhere, relayed, opened>>
startVars == <<mainVars, th, dataVars>>

\* mutant: TR_RECV first
RecvFirst == <<"tr_recv", "tr_send", "tr_mgnt">>

\* thrd_enum_t: the order of creation
Roles == <<"tr_send", "tr_recv", "tr_mgnt">>

TR_NUM == Len(Roles)
Threads == {"tr_send", "tr_recv", "tr_mgnt"}

StartInit ==
  /\ mpc = "prepare" /\ i = 1
  /\ th = [t \in Threads |-> "none"]
  /\ pushed = 0 /\ pulled = 0 /\ announced = FALSE
  /\ sendq = << >> /\ nowhere = 0 /\ relayed = 0 /\ opened = FALSE

-----------------------------------------------------------------------------
(* The main thread *)

\* The pool, the counters and the zmq context; only zmq_ctx_set is checked.
Prepare ==
  /\ mpc = "prepare"
  /\ mpc' \in {"create", "exit"}
  /\ UNCHANGED <<i, th, dataVars>>

\* pthread_create returns a positive error number, which `< 0` does not see.
CreateThread ==
  /\ mpc = "create" /\ i <= TR_NUM
  /\ \/ th' = [th EXCEPT ![Roles[i]] = "born"]
     \/ CreateFails /\ th' = [th EXCEPT ![Roles[i]] = "failed"]
  /\ mpc' = "sleep"
  /\ UNCHANGED <<i, dataVars>>

Slept ==
  /\ mpc = "sleep"
  /\ SleepSuffices => th[Roles[i]] \in {"failed", "loop"}
  /\ mpc' = "create" /\ i' = i + 1
  /\ UNCHANGED <<th, dataVars>>

MainLoop ==
  /\ mpc = "create" /\ i > TR_NUM
  /\ mpc' = "loop"
  /\ UNCHANGED <<i, th, dataVars>>

initialize_main == Prepare \/ CreateThread \/ Slept

-----------------------------------------------------------------------------
(* io_thread *)

BaseNew(t) ==
  /\ th[t] = "born"
  /\ th' = [th EXCEPT ![t] = "based"]
  /\ UNCHANGED <<mainVars, dataVars>>

\* The lists, the sockets of the role, and their read events.
initialize_thread(t) ==
  /\ th[t] = "based"
  /\ th' = [th EXCEPT ![t] = "ready"]
  /\ UNCHANGED <<mainVars, dataVars>>

\* mutant: the loop of a base without events ends (TR_SEND has none of its own)
LoopWhileEvents(t) ==
  /\ th[t] = "ready"
  /\ th' = [th EXCEPT ![t] = IF t = "tr_send" /\ sendq = << >>
                             THEN "ended" ELSE "loop"]
  /\ UNCHANGED <<mainVars, dataVars>>

\* EVLOOP_NO_EXIT_ON_EMPTY
EnterLoop(t) ==
  /\ th[t] = "ready"
  /\ th' = [th EXCEPT ![t] = "loop"]
  /\ UNCHANGED <<mainVars, dataVars>>

HasBase(t) == th[t] \in {"based", "ready", "loop", "ended"}

\* event_base_once refuses a null base, and nobody looks at its result.
Post(ev) ==
  IF HasBase("tr_send")
  THEN sendq' = Append(sendq, ev) /\ UNCHANGED nowhere
  ELSE nowhere' = nowhere + 1 /\ UNCHANGED sendq

RecvOne ==
  /\ th["tr_recv"] = "loop" /\ pulled < pushed
  /\ pulled' = pulled + 1
  /\ Post("push_relay")
  /\ UNCHANGED <<mainVars, th, pushed, announced, relayed, opened>>

\* The first announcement of the first client of the service.
MgntRegi ==
  /\ th["tr_mgnt"] = "loop" /\ ~announced
  /\ announced' = TRUE
  /\ Post("push_create")
  /\ UNCHANGED <<mainVars, th, pushed, pulled, relayed, opened>>

SendOne ==
  /\ th["tr_send"] = "loop" /\ sendq # << >>
  /\ sendq' = Tail(sendq)
  /\ IF Head(sendq) = "push_create"
     THEN opened' = TRUE /\ UNCHANGED relayed
     ELSE relayed' = relayed + 1 /\ UNCHANGED opened
  /\ UNCHANGED <<mainVars, th, pushed, pulled, announced, nowhere>>

io_thread(t) == BaseNew(t) \/ initialize_thread(t) \/ EnterLoop(t)

-----------------------------------------------------------------------------
ClientPush ==
  /\ pushed < MaxPush /\ pushed' = pushed + 1
  /\ UNCHANGED <<mainVars, th, pulled, announced, sendq, nowhere, relayed, opened>>

MainStep   == initialize_main \/ MainLoop
ThreadStep == RecvOne \/ MgntRegi \/ SendOne \/ \E t \in Threads : io_thread(t)

StartNext == ClientPush \/ MainStep \/ ThreadStep

StartSpec ==
  /\ StartInit /\ [][StartNext]_startVars
  /\ WF_startVars(MainStep)
  /\ WF_startVars(RecvOne) /\ WF_startVars(SendOne)
  /\ \A t \in Threads : WF_startVars(io_thread(t))

-----------------------------------------------------------------------------
Whole == \A t \in Threads : th[t] # "failed"

(***************************************************************************)
(* An event is posted to a base that is not there only if TR_SEND could    *)
(* not be created at all.  It is lost with its context, or with the only   *)
(* order to open a service's socket (event_base_once in tr_recv.c and      *)
(* tr_mgnt.c; the order of creation is "strict", main.c:58).               *)
(***************************************************************************)
NothingPostedNowhere == nowhere > 0 => th["tr_send"] = "failed"

(***************************************************************************)
(* Nothing that is asked for early is forgotten: what clients pushed is    *)
(* handled, also what they pushed before there was anyone to receive it,   *)
(* and an announced service gets its socket, although TR_MGNT asks TR_SEND *)
(* only once (initialize_main, io_thread, handle_regi).                    *)
(***************************************************************************)
EarlyServed ==
  /\ \A n \in 1 .. MaxPush :
       pushed >= n ~> (relayed >= n \/ mpc = "exit" \/ ~Whole)
  /\ announced ~> (opened \/ ~Whole)
=============================================================================
