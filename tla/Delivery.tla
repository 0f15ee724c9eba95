------------------------------ MODULE Delivery ------------------------------
(***************************************************************************)
(* What the broker promises a client about the messages it pushes, with no *)
(* thread, context or queue in sight.  Messages are received in the order  *)
(* they arrive; each is accepted or rejected at once, an accepted one is   *)
(* relayed or rejected before any later accepted one, and a rejected one   *)
(* ends with one reply, or lost if its sender cannot be reached.  Replies  *)
(* may overtake each other and the relayed messages.                       *)
(***************************************************************************)
EXTENDS Integers, Sequences

CONSTANT MaxMsgs

VARIABLE fate     \* of every message that arrived, in order of arrival

Fates == {"queued", "accepted", "relayed", "rejected", "answered", "lost"}

Is(f) == {i \in DOMAIN fate : fate[i] = f}

\* The first of the messages whose fate is f.
First(f, i) == i \in Is(f) /\ \A j \in Is(f) : i <= j

Becomes(i, f) == fate' = [fate EXCEPT ![i] = f]

Init == fate = << >>

Arrival == Len(fate) < MaxMsgs /\ fate' = Append(fate, "queued")

ReceiptOf(i) == First("queued", i) /\ \E f \in {"accepted", "rejected"} : Becomes(i, f)

DecisionOn(i) == First("accepted", i) /\ \E f \in {"relayed", "rejected"} : Becomes(i, f)

EndOf(i) == fate[i] = "rejected" /\ \E f \in {"answered", "lost"} : Becomes(i, f)

Service == \E i \in DOMAIN fate : ReceiptOf(i) \/ DecisionOn(i) \/ EndOf(i)

Next == Arrival \/ Service

Spec == Init /\ [][Next]_fate /\ WF_fate(Service)
=============================================================================
