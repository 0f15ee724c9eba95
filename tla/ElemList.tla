------------------------------ MODULE ElemList ------------------------------
(***************************************************************************)
(* The list of libs/elem.c as it is in memory: elements that point to each *)
(* other, in key order, behind a root without a key.  Each list belongs to *)
(* one thread, so an operation is one step; a walk (list_element) is one   *)
(* step per element, because its callback may free the element it is       *)
(* called for, as check_svc_alive does.                                    *)
(***************************************************************************)
EXTENDS Integers, FiniteSets, FiniteSetsExt

CONSTANTS
  Nodes,      \* the addresses calloc can return (bound for TLC)
  Keys,       \* numbered in strcmp order, from 1
  Root, Null,
  Junk        \* what is read from memory that was freed

ASSUME KeysAssumption == Keys \subseteq Nat \ {0}
ASSUME AddressAssumption ==
  /\ IsFiniteSet(Nodes)
  /\ Root \notin Nodes /\ Null \notin Nodes \cup {Root} /\ Junk \notin Nodes \cup {Root, Null}

VARIABLES
  heap,       \* the elements allocated and not freed
  key,        \* their fields
  forward,
  backward,
  now,        \* the element list_element is at, Null when no walk is under way
  visited     \* history: the keys visited by the last walk

vars == <<heap, key, forward, backward, now, visited>>

NoKey == 0
Size  == Cardinality(Nodes) + 1

\* Following forward from the root.
Nth[n \in 0 .. Size] ==
  IF n = 0 THEN Root
  ELSE IF Nth[n - 1] \in heap \cup {Root} THEN forward[Nth[n - 1]] ELSE Null

Reached    == {Nth[n] : n \in 1 .. Size} \ {Null}
KeysListed == {key[e] : e \in Reached}

Init ==
  /\ heap = {}
  /\ key      = [e \in Nodes \cup {Root} |-> IF e = Root THEN NoKey ELSE Junk]
  /\ forward  = [e \in Nodes \cup {Root} |-> IF e = Root THEN Null ELSE Junk]
  /\ backward = [e \in Nodes \cup {Root} |-> IF e = Root THEN Null ELSE Junk]
  /\ now = Null
  /\ visited = {}

-----------------------------------------------------------------------------
\* mutant: the old successor is not told
InsqueForwardOnly(e, p) ==
  /\ forward' = [forward EXCEPT ![e] = forward[p], ![p] = e]
  /\ backward' = [backward EXCEPT ![e] = p]

insque(e, p) ==
  /\ forward' = [forward EXCEPT ![e] = forward[p], ![p] = e]
  /\ backward' = [f \in DOMAIN backward |->
       IF f = e THEN p ELSE IF f = forward[p] THEN e ELSE backward[f]]

\* remque, and the element freed.
Unlink(e) ==
  /\ forward' = [f \in DOMAIN forward |->
       IF f = e THEN Junk ELSE IF f = backward[e] THEN forward[e] ELSE forward[f]]
  /\ backward' = [f \in DOMAIN backward |->
       IF f = e THEN Junk ELSE IF f = forward[e] THEN backward[e] ELSE backward[f]]

get_element(k) ==
  IF \E n \in 1 .. Size : Nth[n] \in heap /\ key[Nth[n]] = k
  THEN Nth[CHOOSE n \in 1 .. Size :
             /\ Nth[n] \in heap /\ key[Nth[n]] = k
             /\ \A j \in 1 .. n - 1 : key[Nth[j]] # k]
  ELSE Null

\* mutant: the last element is not compared with
PassedAllButLast(k, n) == Nth[n] = Null \/ forward[Nth[n]] = Null \/ key[Nth[n]] >= k

\* The loop of add_element ends at the n-th element: the list is over, or a key
\* that does not come before k is met.
Passed(k, n) == Nth[n] = Null \/ key[Nth[n]] >= k

\* The element after which k belongs.
Target(k) ==
  Nth[(CHOOSE n \in 1 .. Size : Passed(k, n) /\ \A j \in 1 .. n - 1 : ~Passed(k, j)) - 1]

\* add_element of a new element; all callers have looked the key up before.
add_element(k) ==
  /\ now = Null
  /\ get_element(k) = Null
  /\ \E e \in Nodes \ heap :
       /\ heap' = heap \cup {e}
       /\ key' = [key EXCEPT ![e] = k]
       /\ insque(e, Target(k))
  /\ UNCHANGED <<now, visited>>

rem_element(e) ==
  /\ heap' = heap \ {e}
  /\ key' = [key EXCEPT ![e] = Junk]
  /\ Unlink(e)

RemoveKey(k) ==
  /\ now = Null
  /\ get_element(k) # Null
  /\ rem_element(get_element(k))
  /\ UNCHANGED <<now, visited>>

-----------------------------------------------------------------------------
(* list_element *)

ListStart ==
  /\ now = Null
  /\ now' = Root
  /\ visited' = {}
  /\ UNCHANGED <<heap, key, forward, backward>>

\* The callbacks return at once for the root.
VisitRoot ==
  /\ now = Root
  /\ now' = forward[now]
  /\ UNCHANGED <<heap, key, forward, backward, visited>>

VisitKeep ==
  /\ now \notin {Null, Root}
  /\ now' = forward[now]
  /\ visited' = visited \cup {key[now]}
  /\ UNCHANGED <<heap, key, forward, backward>>

\* mutant: the successor is read after the callback
NextAfterCallback ==
  /\ now \notin {Null, Root}
  /\ rem_element(now)
  /\ now' = forward'[now]
  /\ visited' = visited \cup {key[now]}

\* The callback frees the element it is called for; its successor is in hand.
VisitRemove ==
  /\ now \notin {Null, Root}
  /\ rem_element(now)
  /\ now' = forward[now]
  /\ visited' = visited \cup {key[now]}

Next ==
  \/ \E k \in Keys : add_element(k) \/ RemoveKey(k)
  \/ ListStart \/ VisitRoot \/ VisitKeep \/ VisitRemove

Spec == Init /\ [][Next]_vars

-----------------------------------------------------------------------------
\* The list is one chain in key order, its links agree in both directions, and
\* what is allocated is what is listed: no element is lost or listed twice
\* (add_element, rem_element).
WellLinked ==
  /\ Reached = heap
  /\ \A e \in heap : /\ forward[backward[e]] = e
                     /\ forward[e] # Null => backward[forward[e]] = e
                     /\ key[backward[e]] < key[e]

\* The walk never holds an element that was freed, though its callback frees
\* (list_element reads the successor first).
NeverDangles == now \in heap \cup {Root, Null}

List == INSTANCE OrderedList WITH
  keys    <- KeysListed,
  walking <- now # Null,
  passed  <- IF visited = {} THEN NoKey ELSE Max(visited)

\* The list does what TrMgnt and SendBase take it for: a walk visits all that
\* was listed when it began, in order, whatever its callback removes.
KeepsOrder == List!Spec
=============================================================================
