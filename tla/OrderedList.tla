---------------------------- MODULE OrderedList -----------------------------
(***************************************************************************)
(* What the rest of the broker takes libs/elem.c for: a set of keys, and a *)
(* walk that visits them in order, whose callback may remove the key it is *)
(* visiting.  TrMgnt sweeps its clients and SendBase keeps its sockets     *)
(* under this contract; ElemList shows that the pointers keep it.          *)
(***************************************************************************)
EXTENDS Naturals

CONSTANT Keys       \* numbered in strcmp order, from 1

VARIABLES
  keys,       \* the keys listed
  walking,    \* a walk is under way
  passed      \* the last key it visited, 0 at the root

vars == <<keys, walking, passed>>

Ahead(k) == {l \in keys : l > k}

Init == keys = {} /\ walking = FALSE /\ passed = 0

Add(k) ==
  /\ ~walking /\ k \notin keys
  /\ keys' = keys \cup {k}
  /\ UNCHANGED <<walking, passed>>

Remove(k) ==
  /\ ~walking /\ k \in keys
  /\ keys' = keys \ {k}
  /\ UNCHANGED <<walking, passed>>

Start == ~walking /\ walking' = TRUE /\ passed' = 0 /\ UNCHANGED keys

Visit(k) ==
  /\ walking /\ k \in Ahead(passed) /\ \A l \in Ahead(passed) : k <= l
  /\ passed' = k
  /\ keys' \in {keys, keys \ {k}}
  /\ walking' = (Ahead(k) # {})

End == walking /\ Ahead(passed) = {} /\ walking' = FALSE /\ UNCHANGED <<keys, passed>>

Next == Start \/ End \/ \E k \in Keys : Add(k) \/ Remove(k) \/ Visit(k)

Spec == Init /\ [][Next]_vars
=============================================================================
