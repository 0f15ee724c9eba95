------------------------------- MODULE Client -------------------------------
(***************************************************************************)
(* A client process: the calls of zutil.c in the loop of the sample client *)
(* (main.c), which announces itself, sends, and then receives for as long  *)
(* as there is something to receive.  Whatever reaches a client was sent   *)
(* by the broker, in two parts; only its number counts here.               *)
(***************************************************************************)
EXTENDS Integers, Sequences

CONSTANTS
  MaxQueue,   \* bound: messages waiting in each socket
  MaxCount    \* bound: counters are counted up to it

ASSUME ClientAssumption ==
  MaxQueue \in Nat /\ MaxCount \in Nat \ {0}

VARIABLES
  turn,     \* the next call of the loop: init, regi, send, recv
  socks,    \* zutil_init has made the sockets
  age,      \* seconds since the timestamp of the last announcement, 1 for more
  snd_cnt, rcv_cnt,
  inq,      \* how many messages wait in each receiving socket
  from,     \* history: the socket of the last message, "none" if there was none
  tally,    \* history: sends and receipts since the last announcement
  last      \* history: counters of the last announcement, and what they should be

cntVars == <<snd_cnt, rcv_cnt>>
clientVars == <<turn, socks, age, cntVars, inq, from, tally, last>>

Sockets == {"sub", "dealer", "pull"}

Count(n) == IF n < MaxCount THEN n + 1 ELSE n

\* The clock has long passed the timestamp zero of zutil_init_create_regi_info.
ClientInit ==
  /\ turn = "init" /\ socks = FALSE /\ age = 1
  /\ snd_cnt = 0 /\ rcv_cnt = 0 /\ tally = [snd |-> 0, rcv |-> 0]
  /\ inq = [s \in Sockets |-> 0]
  /\ from = "none"
  /\ last = <<tally, tally>>

\* A missing variable or a bad number of threads: no socket is made, and the
\* sample client does not look at the result.
zutil_init ==
  /\ turn = "init" /\ turn' = "regi"
  /\ socks' \in BOOLEAN
  /\ UNCHANGED <<age, cntVars, inq, from, tally, last>>

\* mutant: received messages are not counted anew
ResetSent == snd_cnt' = 0 /\ UNCHANGED rcv_cnt

ResetCounters == snd_cnt' = 0 /\ rcv_cnt' = 0

\* At most once a second.  A PUB socket drops what nobody can take; the
\* counters start anew whether or not the announcement went anywhere.
zutil_regi ==
  /\ turn = "regi" /\ turn' = "send"
  /\ IF age < 1
     THEN UNCHANGED <<age, cntVars, tally, last>>
     ELSE /\ age' = 0
          /\ last' = <<[snd |-> snd_cnt, rcv |-> rcv_cnt], tally>>
          /\ ResetCounters
          /\ tally' = [snd |-> 0, rcv |-> 0]
  /\ UNCHANGED <<socks, inq, from>>

\* The PUSH socket takes the whole message, or nothing.
zutil_send ==
  /\ turn = "send" /\ turn' = "recv"
  /\ \/ UNCHANGED <<snd_cnt, tally>>
     \/ /\ socks
        /\ snd_cnt' = Count(snd_cnt)
        /\ tally' = [tally EXCEPT !.snd = Count(@)]
  /\ UNCHANGED <<socks, age, rcv_cnt, inq, from, last>>

\* mutant: an empty poll is a success, and the loop goes on
PollEmptyZero ==
  /\ turn = "recv" /\ \A s \in Sockets : inq[s] = 0
  /\ from' = "none"
  /\ UNCHANGED <<turn, socks, age, cntVars, inq, tally, last>>

RecvNothing ==
  /\ turn = "recv" /\ \A s \in Sockets : inq[s] = 0
  /\ from' = "none" /\ turn' = "regi"
  /\ UNCHANGED <<socks, age, cntVars, inq, tally, last>>

\* mutant: service traffic is not looked at when there are replies to wait for
PollTwo(s) == s \in {"sub", "dealer"} /\ inq[s] > 0

\* The first socket, in the order of poll_items, that has a message.
FirstReadable(s) ==
  /\ inq[s] > 0
  /\ s \in {"dealer", "pull"} => inq["sub"] = 0
  /\ s = "pull" => inq["dealer"] = 0

\* Whatever its size: what does not fit into the buffer is cut.
RecvFrom(s) ==
  /\ turn = "recv" /\ FirstReadable(s)
  /\ inq' = [inq EXCEPT ![s] = @ - 1]
  /\ rcv_cnt' = Count(rcv_cnt)
  /\ tally' = [tally EXCEPT !.rcv = Count(@)]
  /\ from' = s
  /\ UNCHANGED <<turn, socks, age, snd_cnt, last>>

zutil_recv == RecvNothing \/ \E s \in Sockets : RecvFrom(s)

-----------------------------------------------------------------------------
Arrival ==
  /\ socks
  /\ \E s \in Sockets :
       inq[s] < MaxQueue /\ inq' = [inq EXCEPT ![s] = @ + 1]
  /\ UNCHANGED <<turn, socks, age, cntVars, from, tally, last>>

Second ==
  /\ turn # "init"
  /\ age' = 1
  /\ UNCHANGED <<turn, socks, cntVars, inq, from, tally, last>>

ClientLoop == zutil_init \/ zutil_regi \/ zutil_send \/ zutil_recv

ClientNext == ClientLoop \/ Arrival \/ Second

ClientSpec ==
  /\ ClientInit /\ [][ClientNext]_clientVars
  /\ WF_clientVars(ClientLoop) /\ WF_clientVars(Second)

-----------------------------------------------------------------------------
\* An announcement says what was sent and received since the one before,
\* whatever became of that one (zutil_regi).
AnnouncesSinceLast == last[1] = last[2]

(***************************************************************************)
(* A client announces itself again and again, so that the broker does not  *)
(* take it for dead, provided its sockets are found empty again and again: *)
(* one that always has something to receive never leaves the inner loop    *)
(* (main.c:23 of the sample client).                                       *)
(***************************************************************************)
KeepsAnnouncing == []<>(from = "none" /\ turn # "init") => []<>(age = 0)

\* Service traffic is read in the end, once no more replies come: these are
\* always read first (zutil_recv).
TrafficRead ==
  <>[](inq["sub"] = 0 /\ inq["dealer"] = 0)
    => (inq["pull"] > 0 ~> from = "pull")
=============================================================================
