------------------------------ MODULE TickStat ------------------------------
(***************************************************************************)
(* The statistics: TR_RECV and TR_SEND increment shared counters, one      *)
(* atomic operation each, while the main thread goes through all of them   *)
(* once a second, reads one, prints it and sets it to zero (tick_stat).    *)
(* Each operation on a counter is atomic; reading and resetting it are two.*)
(***************************************************************************)
EXTENDS Integers, Sequences

CONSTANT MaxMsgs      \* bound: messages received

ASSUME MaxMsgsAssumption == MaxMsgs \in Nat

VARIABLES
  val,        \* the counters, stat and reason
  at,         \* the counter tick_stat is at, 0 between two ticks
  got,        \* what it has read of it, Unread before STAT_GET
  recvTodo,   \* the STAT_INCs ahead of TR_RECV for the message in hand
  sendTodo,   \* and of TR_SEND
  waiting,    \* messages on their way from TR_RECV to TR_SEND
  done,       \* history: all increments of each counter
  printed,    \* history: the sum of all lines printed
  raced       \* history: the counters incremented between a read and its reset

threadVars == <<recvTodo, sendTodo, waiting>>
vars == <<val, at, got, threadVars, done, printed, raced>>

\* In the order in which tick_stat goes through them.
Counters == <<"att", "succ", "fail", "OK", "INVALID_TYPE", "NULL_RECV",
              "DIFF_RECV", "ROUTE_TYPE", "TO_ROUTE">>
Names  == {Counters[k] : k \in DOMAIN Counters}
Unread == -1

Zero == [s \in Names |-> 0]

Init ==
  /\ val = Zero /\ done = Zero /\ printed = Zero
  /\ at = 0 /\ got = Unread
  /\ recvTodo = << >> /\ sendTodo = << >> /\ waiting = 0
  /\ raced = {}

\* tick_stat has printed s and is about to reset it.
InWindow(s) == at # 0 /\ got # Unread /\ Counters[at] = s

STAT_INC(s) ==
  /\ val' = [val EXCEPT ![s] = @ + 1]
  /\ done' = [done EXCEPT ![s] = @ + 1]
  /\ raced' = IF InWindow(s) THEN raced \cup {s} ELSE raced

-----------------------------------------------------------------------------
(* What the two threads count for a message. *)

\* One attempt, and the reason if it is not fit to be relayed.
RecvMsg ==
  /\ recvTodo = << >> /\ done["att"] < MaxMsgs
  /\ recvTodo' \in {<<"att", "post">>} \cup
       {<<"att", "fail", r>> : r \in {"INVALID_TYPE", "NULL_RECV", "DIFF_RECV"}}
  /\ UNCHANGED <<val, at, got, sendTodo, waiting, done, printed, raced>>

RecvCount ==
  /\ recvTodo # << >>
  /\ recvTodo' = Tail(recvTodo)
  /\ IF Head(recvTodo) = "post"
     THEN waiting' = waiting + 1 /\ UNCHANGED <<val, done, raced>>
     ELSE STAT_INC(Head(recvTodo)) /\ UNCHANGED waiting
  /\ UNCHANGED <<at, got, sendTodo, printed>>

SendMsg ==
  /\ sendTodo = << >> /\ waiting > 0
  /\ waiting' = waiting - 1
  /\ sendTodo' \in {<<"succ", "OK">>, <<"fail", "ROUTE_TYPE">>, <<"fail", "TO_ROUTE">>}
  /\ UNCHANGED <<val, at, got, recvTodo, done, printed, raced>>

SendCount ==
  /\ sendTodo # << >>
  /\ STAT_INC(Head(sendTodo))
  /\ sendTodo' = Tail(sendTodo)
  /\ UNCHANGED <<at, got, recvTodo, waiting, printed>>

-----------------------------------------------------------------------------
(* tick_stat *)

\* mutant: the last reason is left out
NextButLast == (at + 1) % Len(Counters)

NextCounter == (at + 1) % (Len(Counters) + 1)

\* The timer of the main thread.
main_tick ==
  /\ at = 0
  /\ at' = 1 /\ got' = Unread
  /\ UNCHANGED <<val, threadVars, done, printed, raced>>

STAT_GET ==
  /\ at # 0 /\ got = Unread
  /\ LET s == Counters[at] IN
     /\ got' = val[s]
     /\ printed' = [printed EXCEPT ![s] = @ + val[s]]
  /\ UNCHANGED <<val, at, threadVars, done, raced>>

\* mutants: nothing is reset; everything is, for each counter read
UnsetNothing ==
  /\ at # 0 /\ got # Unread
  /\ at' = NextCounter /\ got' = Unread
  /\ UNCHANGED <<val, threadVars, done, printed, raced>>

UnsetAll ==
  /\ at # 0 /\ got # Unread
  /\ val' = Zero
  /\ at' = NextCounter /\ got' = Unread
  /\ UNCHANGED <<threadVars, done, printed, raced>>

STAT_UNSET ==
  /\ at # 0 /\ got # Unread
  /\ val' = [val EXCEPT ![Counters[at]] = 0]
  /\ at' = NextCounter /\ got' = Unread
  /\ UNCHANGED <<threadVars, done, printed, raced>>

Tick == main_tick \/ STAT_GET \/ STAT_UNSET

Next == Tick \/ RecvMsg \/ RecvCount \/ SendMsg \/ SendCount

Spec == Init /\ [][Next]_vars

\* The main thread's timer is periodic and its loop waits for nobody; messages
\* need not come.
FairSpec == Spec /\ WF_vars(Tick)

-----------------------------------------------------------------------------
\* What is still to be printed of a counter.
Rest(s) == IF InWindow(s) THEN val[s] - got ELSE val[s]

\* No increment is printed in two lines: a tick resets what it has read.
NoneTwice == \A s \in Names : printed[s] + Rest(s) <= done[s]

\* An increment can be lost only if it fell between the read and the reset of
\* its own counter; those of the other counters, and the rest of the tick, are
\* safe (tick_stat resets one counter at a time, right after its read).
LostOnlyInWindow ==
  \A s \in Names \ raced : printed[s] + Rest(s) = done[s]

\* A counter that has counted something is printed and reset, each of them.
EveryCounterReset == \A s \in Names : val[s] > 0 ~> val[s] = 0

-----------------------------------------------------------------------------
TypeOK ==
  /\ val \in [Names -> Nat] /\ done \in [Names -> Nat] /\ printed \in [Names -> Nat]
  /\ at \in 0 .. Len(Counters)
  /\ got \in Nat \cup {Unread}
  /\ recvTodo \in Seq(Names \cup {"post"})
  /\ sendTodo \in Seq(Names)
  /\ waiting \in Nat
  /\ raced \in SUBSET Names

\* What was read of a counter is still in it until it is reset, and is all of it
\* unless the counter raced.
ReadIsLeft ==
  \A s \in Names : InWindow(s) =>
    got <= val[s] /\ (s \notin raced => got = val[s])

\* The inductive invariant behind NoneTwice and LostOnlyInWindow.
IInv == TypeOK /\ ReadIsLeft /\ NoneTwice /\ LostOnlyInWindow
=============================================================================
