----------------------------- MODULE DataLemmas ------------------------------
(***************************************************************************)
(* Lemmas about data that the proofs of several modules cite: queues, that *)
(* is the receiving side of a socket (module ZSock), for messages of any   *)
(* kind, and the head, the tail and the end of a sequence; induction up to *)
(* a number, and functions defined by recursion on it.                     *)
(***************************************************************************)
EXTENDS ZSock, TLAPS, SequenceTheorems, WellFoundedInduction

\* What the operations of a socket keep, the queue of messages first.
LEMMA SocketKeeps ==
  ASSUME NEW Msg, NEW s \in ZSockOf(Msg)
  PROVE  /\ Attach(s) \in ZSockOf(Msg) /\ Attach(s).q = s.q
         /\ ReadEvents(s) \in ZSockOf(Msg) /\ ReadEvents(s).q = s.q
         /\ Again(zsock_drain_remain_part(s)) \in ZSockOf(Msg)
         /\ Again(zsock_drain_remain_part(s)).q = s.q
BY DEF Attach, ReadEvents, Again, zsock_drain_remain_part, ZSockOf

\* A message arrives.
LEMMA ArriveKeeps ==
  ASSUME NEW Msg, NEW s \in ZSockOf(Msg), NEW m \in Msg
  PROVE  /\ Arrive(s, m) \in ZSockOf(Msg)
         /\ Arrive(s, m).q = Append(s.q, m)
         /\ Arrive(s, m).signal = (s.signal \/ s.armed)
  <1> DEFINE q == Append(s.q, m)  b == s.signal \/ s.armed
  <1>1. q \in Seq(Msg)
    BY AppendProperties DEF ZSockOf
  <1>2. b \in BOOLEAN
    OBVIOUS
  <1>3. Arrive(s, m) = [s EXCEPT !.q = q, !.signal = b, !.armed = FALSE]
    BY DEF Arrive
  <1> HIDE DEF q, b
  <1>4. Arrive(s, m) \in ZSockOf(Msg) /\ Arrive(s, m).q = q /\ Arrive(s, m).signal = b
    BY <1>1, <1>2, <1>3 DEF ZSockOf
  <1> QED BY <1>4 DEF q, b

\* A message is read, with its body or without.
LEMMA ReadKeeps ==
  ASSUME NEW Msg, NEW s \in ZSockOf(Msg), s.q # << >>, NEW p \in Nat \ {0}
  PROVE  LET t == TakeHead(zsock_drain_remain_part(s), p) IN
         /\ t \in ZSockOf(Msg) /\ t.q = Tail(s.q)
         /\ p > 1 => TakePart(t) \in ZSockOf(Msg) /\ TakePart(t).q = Tail(s.q)
  <1> DEFINE q == Tail(s.q)  n == p - 1  t == TakeHead(zsock_drain_remain_part(s), p)
  <1>1. q \in Seq(Msg) /\ n \in Nat
    BY HeadTailProperties DEF ZSockOf
  <1>2. t = [s EXCEPT !.q = q, !.more = n]
    BY DEF TakeHead, zsock_drain_remain_part, ZSockOf
  <1>3. p > 1 => n - 1 \in Nat
    OBVIOUS
  <1> HIDE DEF q, n, t
  <1>4. t \in ZSockOf(Msg) /\ t.q = q /\ t.more = n
    BY <1>1, <1>2 DEF ZSockOf
  <1>5. TakePart(t) = [t EXCEPT !.more = n - 1]
    BY <1>4 DEF TakePart
  <1>6. p > 1 => TakePart(t) \in ZSockOf(Msg) /\ TakePart(t).q = q
    BY <1>3, <1>4, <1>5 DEF ZSockOf
  <1> QED BY <1>4, <1>6 DEF t, q

\* The head is in the queue, and what is behind it stays.
LEMMA TailOf ==
  ASSUME NEW S, NEW q \in Seq(S), q # << >>
  PROVE  /\ 1 \in DOMAIN q /\ q[1] = Head(q) /\ Head(q) \in S /\ Tail(q) \in Seq(S)
         /\ \A k \in DOMAIN Tail(q) : k + 1 \in DOMAIN q /\ k + 1 > 1 /\ Tail(q)[k] = q[k + 1]
         /\ \A k \in DOMAIN q : k > 1 => k - 1 \in DOMAIN Tail(q) /\ Tail(q)[k - 1] = q[k]
  <1> DEFINE n == Len(q)
  <1>1. /\ n \in Nat \ {0} /\ DOMAIN q = 1 .. n /\ q[1] = Head(q)
        /\ Len(Tail(q)) = n - 1 /\ Tail(q) \in Seq(S)
        /\ \A k \in 1 .. n - 1 : Tail(q)[k] = q[k + 1]
    BY HeadTailProperties, LenProperties, EmptySeq
  <1>2. DOMAIN Tail(q) = 1 .. n - 1 /\ q[1] \in S
    BY <1>1, LenProperties, ElementOfSeq
  <1> HIDE DEF n
  <1> QED BY <1>1, <1>2

\* An element appended is behind all others, which stay.
LEMMA AppendOf ==
  ASSUME NEW S, NEW q \in Seq(S), NEW e \in S
  PROVE  /\ Append(q, e) \in Seq(S)
         /\ Len(q) + 1 \in DOMAIN Append(q, e) /\ Append(q, e)[Len(q) + 1] = e
         /\ \A k \in DOMAIN q : /\ k < Len(q) + 1 /\ k \in DOMAIN Append(q, e)
                                /\ Append(q, e)[k] = q[k]
         /\ \A k \in DOMAIN Append(q, e) : k # Len(q) + 1 => k \in DOMAIN q
  <1> DEFINE n == Len(q)
  <1>1. /\ n \in Nat /\ DOMAIN q = 1 .. n /\ DOMAIN Append(q, e) = 1 .. n + 1
        /\ \A k \in 1 .. n : Append(q, e)[k] = q[k]
        /\ Append(q, e)[n + 1] = e /\ Append(q, e) \in Seq(S)
    BY AppendProperties, LenProperties
  <1> HIDE DEF n
  <1>2. /\ n + 1 \in DOMAIN Append(q, e)
        /\ \A k \in DOMAIN q : k < n + 1 /\ k \in DOMAIN Append(q, e)
        /\ \A k \in DOMAIN Append(q, e) : k # n + 1 => k \in DOMAIN q
    BY <1>1
  <1> QED BY <1>1, <1>2 DEF n

\* An element appended to nothing is alone.
LEMMA AppendFirst ==
  ASSUME NEW h PROVE Append(<< >>, h) = <<h>> /\ <<h>> \o << >> = <<h>>
OBVIOUS

\* A first element is the head of what begins with it.
LEMMA FrontOf ==
  ASSUME NEW S, NEW h \in S, NEW r \in Seq(S)
  PROVE  /\ <<h>> \o r # << >> /\ Head(<<h>> \o r) = h /\ Tail(<<h>> \o r) = r
         /\ r \o << >> = r
BY ConcatEmptySeq

\* What is appended behind a first element stays behind it.
LEMMA AppendBehind ==
  ASSUME NEW S, NEW h \in S, NEW s \in Seq(S), NEW e \in S
  PROVE  Append(<<h>> \o s, e) = <<h>> \o Append(s, e)
OBVIOUS

-----------------------------------------------------------------------------
(* Induction.  The library's induction rules take the statement to prove   *)
(* as a parameter; here it is the set of the numbers it holds of.          *)

\* A set of naturals has a least element: what stands for induction here.
LEMMA Least ==
  ASSUME NEW S \in SUBSET Nat, S # {}
  PROVE  \E n \in S : \A m \in S : n <= m
  <1> DEFINE R == {ss \in Nat \X Nat : ss[1] < ss[2]}
  <1>1. IsWellFoundedOn(R, Nat)
    BY Zenon, NatLessThanWellFounded DEF OpToRel
  <1>2. \A m, n \in Nat : m < n => <<m, n>> \in R
    OBVIOUS
  <1> HIDE DEF R
  <1>3. PICK n \in S : \A m \in S : <<m, n>> \notin R
    BY <1>1, WFMin
  <1>4. ASSUME NEW m \in S PROVE n <= m
    <2>1. ~(m < n)
      BY <1>2, <1>3, S \subseteq Nat
    <2> QED BY <2>1
  <1> QED BY <1>4

\* Induction up to a bound: what holds at 0, and at n + 1 when it holds at n.
LEMMA Climb ==
  ASSUME NEW N \in Nat, NEW G \in SUBSET (0 .. N), 0 \in G,
         \A n \in G : n < N => n + 1 \in G
  PROVE  G = 0 .. N
  <1> SUFFICES ASSUME (0 .. N) \ G # {} PROVE FALSE
    OBVIOUS
  <1> DEFINE S == (0 .. N) \ G
  <1>1. S \in SUBSET Nat /\ S # {}
    OBVIOUS
  <1> HIDE DEF S
  <1>2. PICK n \in S : \A m \in S : n <= m
    BY <1>1, Least
  <1>3. n - 1 \in 0 .. N /\ n - 1 \notin S
    BY <1>2 DEF S
  <1> QED BY <1>2, <1>3 DEF S

\* F begins with base and goes on, up to N, as the function step says.
Recurs(N, V, base, step, F) ==
  /\ F \in [0 .. N -> V]
  /\ F[0] = base
  /\ \A i \in 1 .. N : F[i] = step[<<i, F[i - 1]>>]

\* A function can be defined by recursion.
LEMMA Recursion ==
  ASSUME NEW N \in Nat, NEW V, NEW base \in V, NEW step \in [(1 .. N) \X V -> V]
  PROVE  \E F : Recurs(N, V, base, step, F)
  <1> DEFINE Good(n, F) == F[0] = base /\ \A i \in 1 .. n : F[i] = step[<<i, F[i - 1]>>]
             G == {n \in 0 .. N : \E F \in [0 .. n -> V] : Good(n, F)}
  <1>1. 0 \in G
    <2> DEFINE H == [i \in 0 .. 0 |-> base]
    <2>1. H \in [0 .. 0 -> V] /\ Good(0, H)
      OBVIOUS
    <2> HIDE DEF H, Good
    <2> QED BY <2>1
  <1>2. ASSUME NEW n \in G, n < N PROVE n + 1 \in G
    <2>1. PICK F \in [0 .. n -> V] : Good(n, F)
      OBVIOUS
    <2>2. n \in Nat /\ n + 1 \in 0 .. N /\ n + 1 \in 1 .. N /\ F[n] \in V
      BY <1>2
    <2> DEFINE x == step[<<n + 1, F[n]>>]
               H == [i \in 0 .. n + 1 |-> IF i = n + 1 THEN x ELSE F[i]]
    <2>3. x \in V
      BY <2>2
    <2>4. H \in [0 .. n + 1 -> V]
      BY <2>2, <2>3
    <2>5. H[0] = base
      BY <2>1, <2>2
    <2>6. ASSUME NEW i \in 1 .. n + 1 PROVE H[i] = step[<<i, H[i - 1]>>]
      <3>1. CASE i = n + 1
        <4>1. H[i] = x /\ H[i - 1] = F[n]
          BY <2>2, <3>1
        <4> HIDE DEF H
        <4> QED BY <3>1, <4>1
      <3>2. CASE i # n + 1
        <4>1. i \in 1 .. n /\ H[i] = F[i] /\ H[i - 1] = F[i - 1]
          BY <2>2, <3>2
        <4> QED BY <2>1, <4>1
      <3> QED BY <3>1, <3>2
    <2>7. Good(n + 1, H)
      BY <2>5, <2>6
    <2> HIDE DEF H, Good
    <2> QED BY <2>2, <2>4, <2>7
  <1>3. G \in SUBSET (0 .. N)
    OBVIOUS
  <1>4. G = 0 .. N
    <2> HIDE DEF G
    <2> QED BY <1>1, <1>2, <1>3, Climb
  <1> QED BY <1>4 DEF Recurs
=============================================================================
