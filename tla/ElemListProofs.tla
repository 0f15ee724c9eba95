--------------------------- MODULE ElemListProofs ----------------------------
(***************************************************************************)
(* Proofs about module ElemList, for any addresses and keys: the pointers  *)
(* stay linked, a walk never stands on an element that was freed, and the  *)
(* list does what module OrderedList says.                                 *)
(*                                                                         *)
(* The invariant looks at one element and its neighbours only (Links) and  *)
(* at where the walk is (Walk).  That the elements then make one chain, in *)
(* key order, which ends and misses none of them, is a fact about Links    *)
(* alone: it is proved by counting the elements and by induction along     *)
(* the chain (Ends, AllReached, Ordered).                                  *)
(***************************************************************************)
EXTENDS ElemList, DataLemmas, FiniteSetTheorems

Linked == heap \cup {Root}

Links ==
  /\ heap \subseteq Nodes
  /\ key \in [Nodes \cup {Root} -> Nat \cup {Junk}]
  /\ forward \in [Nodes \cup {Root} -> Nodes \cup {Root, Null, Junk}]
  /\ backward \in [Nodes \cup {Root} -> Nodes \cup {Root, Null, Junk}]
  /\ key[Root] = NoKey
  /\ \A e \in Linked : /\ forward[e] \in heap \cup {Null}
                       /\ forward[e] # Null => backward[forward[e]] = e
  /\ \A e \in heap : /\ key[e] \in Keys
                     /\ backward[e] \in Linked
                     /\ forward[backward[e]] = e
                     /\ key[backward[e]] < key[e]

passed == IF visited = {} THEN NoKey ELSE Max(visited)

\* The walk has visited what comes before the element it is at, and no more.
Walk ==
  /\ NeverDangles
  /\ visited \subseteq Nat
  /\ now = Root => visited = {}
  /\ now \in heap => /\ passed \in Nat /\ passed < key[now]
                     /\ \A k \in visited : k < key[now]
                     /\ \A e \in heap : key[e] \notin passed + 1 .. key[now] - 1

IInv == Links /\ Walk

-----------------------------------------------------------------------------
(* The chain from the root. *)

\* Links says where the fields of an element may point, and how keys compare.
LEMMA LinksGive ==
  ASSUME Links
  PROVE  /\ key[Root] = 0 /\ Root \notin heap /\ Null \notin Linked
         /\ \A e \in Linked : key[e] \in Nat
         /\ \A e \in heap : key[e] > 0
         /\ \A e \in Linked : forward[e] = Null \/ forward[e] \in heap
         /\ \A e \in Linked : forward[e] # Null => key[e] < key[forward[e]]
  <1>1. \A e \in heap : key[e] \in Nat \ {0}
    BY KeysAssumption DEF Links
  <1>2. \A e \in Linked : forward[e] # Null => backward[forward[e]] = e /\ forward[e] \in heap
    BY DEF Links
  <1>3. \A e \in heap : key[backward[e]] < key[e]
    BY DEF Links
  <1> QED BY <1>1, <1>2, <1>3, AddressAssumption DEF Links, Linked, NoKey

\* The number of steps from the root that are looked at.
LEMMA SizeIs == Size \in Nat \ {0} /\ Cardinality(Nodes) = Size - 1
BY AddressAssumption, FS_CardinalityType DEF Size

\* Nth follows forward from the root, and stays at Null.
LEMMA NthIs ==
  ASSUME Links
  PROVE  /\ Nth[0] = Root
         /\ \A n \in 0 .. Size : Nth[n] \in Linked \cup {Null}
         /\ \A n \in 1 .. Size :
              /\ Nth[n] = IF Nth[n - 1] \in Linked THEN forward[Nth[n - 1]] ELSE Null
              /\ Nth[n] \in heap \cup {Null}
  <1> DEFINE V == Linked \cup {Null}
             step == [p \in (1 .. Size) \X V |->
                        IF p[2] \in Linked THEN forward[p[2]] ELSE Null]
             Is(E) == E = [n \in 0 .. Size |->
                        IF n = 0 THEN Root
                        ELSE IF E[n - 1] \in heap \cup {Root} THEN forward[E[n - 1]]
                        ELSE Null]
  <1>1. Size \in Nat
    BY SizeIs
  <1>2. Root \in V /\ \A x \in V : (IF x \in Linked THEN forward[x] ELSE Null) \in heap \cup {Null}
    BY LinksGive DEF Linked
  <1>3. step \in [(1 .. Size) \X V -> V]
    BY <1>2 DEF Linked
  <1>4. \A i \in 1 .. Size, x \in V :
          step[<<i, x>>] = IF x \in Linked THEN forward[x] ELSE Null
    OBVIOUS
  <1> HIDE DEF step, V
  <1>5. PICK F : Recurs(Size, V, Root, step, F)
    BY <1>1, <1>2, <1>3, Recursion
  <1>6. \A i \in 1 .. Size : i - 1 \in 0 .. Size
    BY <1>1
  <1>7. \A i \in 1 .. Size : F[i] = IF F[i - 1] \in Linked THEN forward[F[i - 1]] ELSE Null
    BY <1>4, <1>5, <1>6 DEF Recurs
  <1>8. Is(F)
    <2>1. F = [n \in 0 .. Size |-> F[n]] /\ F[0] = Root
      BY <1>5 DEF Recurs
    <2>2. \A n \in 0 .. Size : n # 0 => n \in 1 .. Size
      BY <1>1
    <2>3. \A n \in 0 .. Size :
            F[n] = IF n = 0 THEN Root
                   ELSE IF F[n - 1] \in heap \cup {Root} THEN forward[F[n - 1]] ELSE Null
      BY <1>7, <2>1, <2>2 DEF Linked
    <2> QED BY <2>1, <2>3
  <1>9. Is(Nth)
    <2>1. Nth = CHOOSE E : Is(E)
      BY DEF Nth
    <2> HIDE DEF Is
    <2> QED BY <1>8, <2>1
  <1>10. Nth[0] = Root
    BY <1>1, <1>9
  <1>11. \A i \in 1 .. Size : Nth[i] = IF Nth[i - 1] \in Linked THEN forward[Nth[i - 1]] ELSE Null
    BY <1>1, <1>9 DEF Linked
  <1> HIDE DEF Is
  <1> DEFINE G == {n \in 0 .. Size : Nth[n] \in V}
  <1>12. 0 \in G
    BY <1>1, <1>2, <1>10
  <1>13. ASSUME NEW n \in G, n < Size PROVE n + 1 \in G
    <2>1. n + 1 \in 1 .. Size /\ n + 1 \in 0 .. Size /\ n + 1 - 1 = n /\ Nth[n] \in V
      BY <1>1, <1>13
    <2>2. Nth[n + 1] \in heap \cup {Null}
      BY <1>2, <1>11, <2>1
    <2> QED BY <2>1, <2>2 DEF V, Linked
  <1>14. G = 0 .. Size
    <2>1. G \in SUBSET (0 .. Size)
      OBVIOUS
    <2> HIDE DEF G
    <2> QED BY <1>1, <1>12, <1>13, <2>1, Climb
  <1>15. \A n \in 1 .. Size : Nth[n] \in heap \cup {Null}
    BY <1>2, <1>6, <1>11, <1>14
  <1> QED BY <1>10, <1>11, <1>14, <1>15 DEF V

\* Keys ascend along the chain.
LEMMA Ascending ==
  ASSUME Links, NEW n \in 0 .. Size, Nth[n] # Null
  PROVE  /\ Nth[n] \in Linked
         /\ \A m \in 0 .. n : m < n => Nth[m] \in Linked /\ key[Nth[m]] < key[Nth[n]]
  <1> DEFINE Up(j) == Nth[j] # Null => \A m \in 0 .. j :
                        m < j => Nth[m] \in Linked /\ key[Nth[m]] < key[Nth[j]]
             G == {j \in 0 .. Size : Up(j)}
  <1>1. Size \in Nat
    BY SizeIs
  <1>2. 0 \in G
    BY <1>1
  <1>3. ASSUME NEW j \in G, j < Size PROVE j + 1 \in G
    <2>1. j \in Nat /\ j + 1 \in 0 .. Size /\ j + 1 \in 1 .. Size /\ j + 1 - 1 = j /\ Up(j)
      BY <1>1, <1>3
    <2>2. SUFFICES ASSUME Nth[j + 1] # Null, NEW m \in 0 .. j + 1, m < j + 1
                   PROVE  Nth[m] \in Linked /\ key[Nth[m]] < key[Nth[j + 1]]
      BY <2>1
    <2> HIDE DEF G, Up
    <2>3. Nth[j] \in Linked /\ Nth[j + 1] = forward[Nth[j]]
      BY <2>1, <2>2, NthIs
    <2>4. Nth[j] # Null /\ key[Nth[j]] < key[Nth[j + 1]]
      BY <2>2, <2>3, LinksGive
    <2>5. m = j \/ (m \in 0 .. j /\ m < j)
      BY <2>1, <2>2
    <2>6. Nth[m] \in Linked /\ (m # j => key[Nth[m]] < key[Nth[j]])
      BY <2>1, <2>3, <2>4, <2>5 DEF Up
    <2>7. Nth[j + 1] \in Linked
      BY <2>1, <2>2, NthIs
    <2>8. key[Nth[m]] \in Nat /\ key[Nth[j]] \in Nat /\ key[Nth[j + 1]] \in Nat
      BY <2>3, <2>6, <2>7, LinksGive
    <2> QED BY <2>3, <2>4, <2>6, <2>8
  <1>4. G = 0 .. Size
    <2>1. G \in SUBSET (0 .. Size)
      OBVIOUS
    <2> HIDE DEF G
    <2> QED BY <1>1, <1>2, <1>3, <2>1, Climb
  <1>5. Up(n)
    BY <1>4
  <1> QED BY <1>5, NthIs

\* The chain ends: the addresses are not enough for more elements.
LEMMA Ends == ASSUME Links PROVE Nth[Size] = Null
  <1> SUFFICES ASSUME Nth[Size] # Null PROVE FALSE
    OBVIOUS
  <1> DEFINE f == [n \in 1 .. Size |-> Nth[n]]
  <1>1. Size \in Nat \ {0} /\ Size \in 0 .. Size /\ Cardinality(Nodes) = Size - 1
    BY SizeIs
  <1>2. \A n \in 1 .. Size : Nth[n] \in Nodes
    <2>1. TAKE n \in 1 .. Size
    <2>2. Nth[n] \in Linked
      BY <1>1, Ascending
    <2> QED BY <2>2, NthIs, LinksGive DEF Links
  <1>3. f \in [1 .. Size -> Nodes]
    BY <1>2
  <1>4. IsFiniteSet(1 .. Size) /\ Cardinality(1 .. Size) = Size
    BY <1>1, FS_Interval
  <1>5. PICK m, n \in 1 .. Size : m # n /\ f[m] = f[n]
    <2> HIDE DEF f
    <2> QED BY <1>1, <1>3, <1>4, AddressAssumption, FS_PigeonHole
  <1>6. Nth[m] = Nth[n] /\ Nth[m] # Null /\ Nth[m] \in Linked
    BY <1>1, <1>2, <1>5, Ascending, AddressAssumption
  <1>7. key[Nth[m]] \in Nat
    BY <1>6, LinksGive
  <1>8. CASE m < n
    <2>1. n \in 0 .. Size /\ m \in 0 .. n
      BY <1>8
    <2>2. key[Nth[m]] < key[Nth[n]]
      BY <1>6, <1>8, <2>1, Ascending
    <2> QED BY <1>6, <1>7, <2>2
  <1>9. CASE n < m
    <2>1. m \in 0 .. Size /\ n \in 0 .. m
      BY <1>9
    <2>2. key[Nth[n]] < key[Nth[m]]
      BY <1>6, <1>9, <2>1, Ascending
    <2> QED BY <1>6, <1>7, <2>2
  <1> QED BY <1>5, <1>8, <1>9

\* No element is missed.
LEMMA AllReached ==
  ASSUME Links
  PROVE  /\ Reached = heap
         /\ \A e \in heap : \E n \in 1 .. Size : n < Size /\ Nth[n] = e
  <1> DEFINE At(e) == \E n \in 1 .. Size : n < Size /\ Nth[n] = e
             S == {key[e] : e \in {d \in heap : ~At(d)}}
  <1>1. Size \in Nat \ {0}
    BY SizeIs
  <1>2. \A e \in heap : key[e] \in Nat /\ e # Null
    BY LinksGive DEF Linked
  <1>3. \A n \in 1 .. Size : n < Size \/ Nth[n] = Null
    BY <1>1, Ends
  <1>4. \A e \in heap : At(e)
    <2> SUFFICES ASSUME NEW d \in heap, ~At(d) PROVE FALSE
      OBVIOUS
    <2> HIDE DEF At
    <2>1. S \in SUBSET Nat /\ S # {}
      BY <1>2
    <2>2. PICK k \in S : \A l \in S : k <= l
      <3> HIDE DEF S
      <3> QED BY <2>1, Least
    <2>3. PICK e \in heap : ~At(e) /\ key[e] = k
      OBVIOUS
    <2> DEFINE b == backward[e]
    <2>4. b \in Linked /\ forward[b] = e /\ key[b] < key[e] /\ key[b] \in Nat
      BY LinksGive DEF Links
    <2>5. PICK n \in 0 .. Size : n < Size /\ Nth[n] = b
      <3>1. CASE b = Root
        BY <1>1, <3>1, NthIs
      <3>2. CASE b \in heap
        <4>1. key[b] \notin S
          <5> HIDE DEF S, b
          <5> QED BY <1>2, <2>2, <2>3, <2>4
        <4>2. At(b)
          BY <3>2, <4>1
        <4> QED BY <4>2 DEF At
      <3> QED BY <2>4, <3>1, <3>2 DEF Linked
    <2>6. n + 1 \in 1 .. Size /\ n + 1 - 1 = n
      BY <1>1, <2>5
    <2>7. Nth[n + 1] = e
      BY <2>4, <2>5, <2>6, NthIs
    <2>8. n + 1 < Size
      BY <1>2, <1>3, <2>6, <2>7
    <2> QED BY <2>3, <2>6, <2>7, <2>8 DEF At
  <1>5. Reached \subseteq heap
    BY NthIs DEF Reached
  <1>6. heap \subseteq Reached
    BY <1>2, <1>4 DEF Reached
  <1> QED BY <1>4, <1>5, <1>6

\* What follows an element has the next key, and no key is there twice.
LEMMA Ordered ==
  ASSUME Links
  PROVE  /\ \A e \in Linked, f \in heap :
              key[e] < key[f] => /\ forward[e] \in heap
                                 /\ key[forward[e]] <= key[f]
         /\ \A e, f \in heap : key[e] = key[f] => e = f
  <1>1. Size \in Nat \ {0}
    BY SizeIs
  <1>2. \A e \in Linked : key[e] \in Nat /\ e # Null
    BY LinksGive
  <1>3. \A e \in Linked : \E n \in 0 .. Size : n < Size /\ Nth[n] = e
    <2>1. TAKE e \in Linked
    <2>2. CASE e = Root
      BY <1>1, <2>2, NthIs
    <2>3. CASE e \in heap
      BY <2>3, AllReached
    <2> QED BY <2>2, <2>3 DEF Linked
  <1>4. \A m, n \in 0 .. Size :
          m < n /\ Nth[n] # Null => Nth[m] \in Linked /\ key[Nth[m]] < key[Nth[n]]
    <2>1. TAKE m, n \in 0 .. Size
    <2>2. m < n => m \in 0 .. n
      BY <1>1
    <2> QED BY <2>2, Ascending
  <1>5. \A e, f \in heap : key[e] = key[f] => e = f
    <2>1. TAKE e, f \in heap
    <2>2. e \in Linked /\ f \in Linked
      BY DEF Linked
    <2>3. PICK m \in 0 .. Size : Nth[m] = e
      BY <1>3, <2>2
    <2>4. PICK n \in 0 .. Size : Nth[n] = f
      BY <1>3, <2>2
    <2>5. m < n \/ n < m \/ m = n
      BY <1>1
    <2> QED BY <1>2, <1>4, <2>2, <2>3, <2>4, <2>5
  <1>6. ASSUME NEW e \in Linked, NEW f \in heap, key[e] < key[f]
        PROVE  forward[e] \in heap /\ key[forward[e]] <= key[f]
    <2>1. f \in Linked
      BY DEF Linked
    <2>2. PICK m \in 0 .. Size : m < Size /\ Nth[m] = e
      BY <1>3
    <2>3. PICK n \in 0 .. Size : n < Size /\ Nth[n] = f
      BY <1>3, <2>1
    <2>4. m < n
      <3>1. m = n \/ m > n \/ m < n
        BY <1>1
      <3> QED BY <1>2, <1>4, <1>6, <2>1, <2>2, <2>3, <3>1
    <2>5. m + 1 \in 0 .. Size /\ m + 1 \in 1 .. Size /\ m + 1 - 1 = m /\ (m + 1 < n \/ m + 1 = n)
      BY <1>1, <2>2, <2>4
    <2>6. Nth[m + 1] = forward[e]
      BY <2>2, <2>5, NthIs
    <2>7. Nth[m + 1] \in Linked /\ key[Nth[m + 1]] <= key[f]
      BY <1>2, <1>4, <2>1, <2>3, <2>5
    <2> QED BY <1>2, <2>5, <2>6, <2>7, NthIs
  <1> QED BY <1>5, <1>6

\* get_element finds the element with the key, if there is one.
LEMMA Found ==
  ASSUME Links, NEW k \in Keys
  PROVE  \/ get_element(k) \in heap /\ key[get_element(k)] = k
         \/ get_element(k) = Null /\ \A e \in heap : key[e] # k
  <1> DEFINE Hit(n) == Nth[n] \in heap /\ key[Nth[n]] = k
             First(n) == Hit(n) /\ \A j \in 1 .. n - 1 : key[Nth[j]] # k
             H == {n \in 1 .. Size : Hit(n)}
  <1>1. Size \in Nat \ {0}
    BY SizeIs
  <1>2. CASE H = {}
    <2>1. get_element(k) = Null
      BY <1>2 DEF get_element
    <2>2. \A e \in heap : key[e] # k
      BY <1>2, AllReached
    <2> QED BY <2>1, <2>2
  <1>3. CASE H # {}
    <2>1. H \in SUBSET Nat
      OBVIOUS
    <2>2. PICK n \in H : \A j \in H : n <= j
      <3> HIDE DEF H
      <3> QED BY <1>3, <2>1, Least
    <2>3. \A j \in 1 .. n - 1 : key[Nth[j]] # k
      <3> SUFFICES ASSUME NEW j \in 1 .. n - 1, key[Nth[j]] = k PROVE FALSE
        OBVIOUS
      <3>1. j \in 1 .. Size /\ j \in 0 .. n /\ n \in 0 .. Size /\ j < n
        BY <1>1, <2>2
      <3>2. Nth[j] \in Linked
        BY <2>2, <3>1, Ascending, LinksGive
      <3>3. Nth[j] \in heap
        BY <3>1, <3>2, NthIs, LinksGive
      <3> QED BY <2>2, <3>1, <3>3
    <2>4. n \in 1 .. Size /\ First(n)
      BY <2>2, <2>3
    <2> DEFINE c == CHOOSE i \in 1 .. Size : First(i)
    <2>5. c \in 1 .. Size /\ First(c)
      <3> HIDE DEF First
      <3> QED BY <2>4
    <2>6. get_element(k) = Nth[c]
      BY <1>3 DEF get_element
    <2> HIDE DEF c
    <2> QED BY <2>5, <2>6
  <1> QED BY <1>2, <1>3

\* A new key belongs behind the target, and what follows comes after it.
LEMMA TargetIs ==
  ASSUME Links, NEW k \in Keys, \A e \in heap : key[e] # k
  PROVE  /\ Target(k) \in Linked /\ key[Target(k)] < k
         /\ forward[Target(k)] # Null => k < key[forward[Target(k)]]
  <1> DEFINE First(n) == Passed(k, n) /\ \A j \in 1 .. n - 1 : ~Passed(k, j)
             P == {n \in 1 .. Size : Passed(k, n)}
  <1>1. Size \in Nat \ {0} /\ k \in Nat \ {0}
    BY SizeIs, KeysAssumption
  <1>2. Size \in P
    BY <1>1, Ends DEF Passed
  <1>3. PICK n \in P : \A j \in P : n <= j
    <2>1. P \in SUBSET Nat /\ P # {}
      BY <1>2
    <2> HIDE DEF P
    <2> QED BY <2>1, Least
  <1>4. n \in 1 .. Size /\ First(n)
    BY <1>1, <1>3
  <1> DEFINE c == CHOOSE i \in 1 .. Size : First(i)
  <1>5. c \in 1 .. Size /\ First(c)
    <2> HIDE DEF First
    <2> QED BY <1>4
  <1>6. Target(k) = Nth[c - 1]
    BY DEF Target
  <1> HIDE DEF c
  <1>7. c - 1 \in 0 .. Size
    BY <1>1, <1>5
  <1>8. Nth[c - 1] \in Linked /\ key[Nth[c - 1]] < k
    <2>1. CASE c = 1
      BY <1>1, <2>1, NthIs, LinksGive DEF Linked
    <2>2. CASE c # 1
      <3>1. c - 1 \in 1 .. c - 1 /\ c - 1 \in 1 .. Size
        BY <1>1, <1>5, <2>2
      <3>2. Nth[c - 1] # Null /\ ~(key[Nth[c - 1]] >= k)
        BY <1>5, <3>1 DEF Passed
      <3>3. Nth[c - 1] \in Linked
        BY <3>1, <3>2, NthIs DEF Linked
      <3> QED BY <1>1, <3>2, <3>3, LinksGive
    <2> QED BY <2>1, <2>2
  <1>9. Nth[c] = forward[Nth[c - 1]]
    BY <1>5, <1>8, NthIs
  <1>10. Nth[c] # Null => k < key[Nth[c]]
    <2> HAVE Nth[c] # Null
    <2>1. key[Nth[c]] >= k /\ Nth[c] \in heap
      BY <1>5, NthIs DEF Passed
    <2> QED BY <1>1, <2>1, LinksGive DEF Linked
  <1> QED BY <1>6, <1>8, <1>9, <1>10

-----------------------------------------------------------------------------
(* Steps. *)

\* An element taken out leaves its neighbours linked.
LEMMA RemoveKeeps ==
  ASSUME Links, NEW e \in heap, rem_element(e)
  PROVE  Links'
  <1> DEFINE b == backward[e]  f == forward[e]
  <1>1. /\ e \in Nodes /\ e # Root /\ e # Null
        /\ b \in Linked /\ forward[b] = e /\ b # e
        /\ f \in heap \cup {Null} /\ f # e /\ (f # Null => backward[f] = e)
        /\ f # Null => key[b] < key[f]
    BY LinksGive, AddressAssumption DEF Links, Linked
  <1>2. /\ heap' = heap \ {e} /\ heap' \subseteq Nodes
        /\ Linked' = Linked \ {e} /\ Linked \subseteq Nodes \cup {Root}
    BY <1>1 DEF rem_element, Linked, Links
  <1>3. /\ key' \in [Nodes \cup {Root} -> Nat \cup {Junk}]
        /\ \A d \in Linked' : key'[d] = key[d]
    BY <1>1, <1>2 DEF rem_element, Links
  <1>4. /\ forward' \in [Nodes \cup {Root} -> Nodes \cup {Root, Null, Junk}]
        /\ forward'[b] = f
        /\ \A d \in Linked' : d # b => forward'[d] = forward[d]
    BY <1>1, <1>2 DEF rem_element, Unlink, Links
  <1>5. /\ backward' \in [Nodes \cup {Root} -> Nodes \cup {Root, Null, Junk}]
        /\ f # Null => backward'[f] = b
        /\ \A d \in Linked' : d # f => backward'[d] = backward[d]
    BY <1>1, <1>2 DEF rem_element, Unlink, Links, Linked
  <1> HIDE DEF b, f
  <1>6. ASSUME NEW d \in Linked'
        PROVE  /\ forward'[d] \in heap' \cup {Null}
               /\ forward'[d] # Null => backward'[forward'[d]] = d
    <2>1. CASE d = b
      BY <1>1, <1>2, <1>4, <1>5, <2>1
    <2>2. CASE d # b
      <3>1. forward'[d] = forward[d] /\ forward[d] \in heap \cup {Null}
        BY <1>2, <1>4, <2>2 DEF Links
      <3>2. forward[d] # Null => backward[forward[d]] = d
        BY <1>2 DEF Links
      <3>3. forward[d] # e
        BY <1>1, <1>2, <2>2, <3>2 DEF b
      <3>4. forward[d] # Null => forward[d] # f
        BY <1>1, <1>2, <3>2
      <3>5. forward[d] # Null => forward[d] \in Linked'
        BY <1>2, <3>1, <3>3 DEF Linked
      <3> QED BY <1>2, <1>5, <3>1, <3>2, <3>3, <3>4, <3>5
    <2> QED BY <2>1, <2>2
  <1>7. ASSUME NEW d \in heap'
        PROVE  /\ key'[d] \in Keys
               /\ backward'[d] \in Linked'
               /\ forward'[backward'[d]] = d
               /\ key'[backward'[d]] < key'[d]
    <2>1. d \in heap /\ d # e /\ d \in Linked' /\ key'[d] = key[d] /\ key[d] \in Keys
      BY <1>2, <1>3 DEF Links, Linked
    <2>2. CASE d = f
      <3>1. backward'[d] = b /\ b \in Linked'
        BY <1>1, <1>2, <1>5, <2>1, <2>2, LinksGive DEF Linked
      <3>2. key[b] < key[d] /\ key'[b] = key[b]
        BY <1>1, <1>3, <2>1, <2>2, <3>1, LinksGive DEF Linked
      <3> QED BY <1>4, <2>1, <2>2, <3>1, <3>2
    <2>3. CASE d # f
      <3>1. /\ backward'[d] = backward[d] /\ backward[d] \in Linked
            /\ forward[backward[d]] = d /\ key[backward[d]] < key[d]
        BY <1>5, <2>1, <2>3 DEF Links
      <3>2. backward[d] # e /\ backward[d] # b
        BY <1>1, <2>1, <2>3, <3>1 DEF f
      <3>3. backward[d] \in Linked'
        BY <1>2, <3>1, <3>2
      <3> QED BY <1>3, <1>4, <2>1, <3>1, <3>2, <3>3
    <2> QED BY <2>2, <2>3
  <1>8. key'[Root] = NoKey
    BY <1>2, <1>3, LinksGive DEF Linked, NoKey
  <1> QED BY <1>2, <1>3, <1>4, <1>5, <1>6, <1>7, <1>8 DEF Links

\* So does an element put in where its key belongs.
LEMMA InsertKeeps ==
  ASSUME Links, NEW k \in Keys, NEW e \in Nodes \ heap, NEW p \in Linked,
         key[p] < k, forward[p] # Null => k < key[forward[p]],
         heap' = heap \cup {e}, key' = [key EXCEPT ![e] = k], insque(e, p)
  PROVE  Links'
  <1> DEFINE f == forward[p]
  <1>1. /\ e # Root /\ e # Null /\ e \notin Linked /\ p # e /\ k \in Nat
        /\ f \in heap \cup {Null} /\ f # e /\ (f # Null => backward[f] = p)
        /\ p \in Nodes \cup {Root}
    BY LinksGive, AddressAssumption, KeysAssumption DEF Links, Linked
  <1>2. /\ heap' \subseteq Nodes /\ Linked' = Linked \cup {e}
        /\ Linked \subseteq Nodes \cup {Root}
    BY DEF Linked, Links
  <1>3. /\ key' \in [Nodes \cup {Root} -> Nat \cup {Junk}] /\ key'[e] = k
        /\ \A d \in Linked : key'[d] = key[d]
    BY <1>1, <1>2 DEF Links
  <1>4. /\ forward' \in [Nodes \cup {Root} -> Nodes \cup {Root, Null, Junk}]
        /\ forward'[e] = f /\ forward'[p] = e
        /\ \A d \in Linked : d # p => forward'[d] = forward[d]
    BY <1>1, <1>2 DEF insque, Links
  <1>5. /\ backward' \in [Nodes \cup {Root} -> Nodes \cup {Root, Null, Junk}]
        /\ backward'[e] = p /\ (f # Null => backward'[f] = e)
        /\ \A d \in Linked : d # f => backward'[d] = backward[d]
    BY <1>1, <1>2 DEF insque, Links, Linked
  <1> HIDE DEF f
  <1>6. ASSUME NEW d \in Linked'
        PROVE  /\ forward'[d] \in heap' \cup {Null}
               /\ forward'[d] # Null => backward'[forward'[d]] = d
    <2>1. CASE d = e
      BY <1>1, <1>4, <1>5, <2>1
    <2>2. CASE d = p
      BY <1>1, <1>4, <1>5, <2>2
    <2>3. CASE d # e /\ d # p
      <3>1. /\ d \in Linked /\ forward'[d] = forward[d] /\ forward[d] \in heap \cup {Null}
            /\ forward[d] # Null => backward[forward[d]] = d
        BY <1>2, <1>4, <2>3 DEF Links
      <3>2. forward[d] # Null => forward[d] # f /\ forward[d] \in Linked
        BY <1>1, <2>3, <3>1 DEF Linked
      <3> QED BY <1>5, <3>1, <3>2
    <2> QED BY <2>1, <2>2, <2>3
  <1>7. ASSUME NEW d \in heap'
        PROVE  /\ key'[d] \in Keys
               /\ backward'[d] \in Linked'
               /\ forward'[backward'[d]] = d
               /\ key'[backward'[d]] < key'[d]
    <2>1. CASE d = e
      BY <1>1, <1>2, <1>3, <1>4, <1>5, <2>1
    <2>2. CASE d = f
      <3>1. d \in heap /\ d \in Linked /\ d # Null /\ d # e
        BY <1>1, <2>2, LinksGive DEF Linked
      <3>2. key'[d] \in Keys /\ k < key'[d]
        BY <1>3, <2>2, <3>1 DEF Links, f
      <3> QED BY <1>2, <1>3, <1>4, <1>5, <2>2, <3>1, <3>2
    <2>3. CASE d # e /\ d # f
      <3>1. /\ d \in heap /\ d \in Linked /\ key'[d] = key[d] /\ key[d] \in Keys
            /\ backward[d] \in Linked
            /\ forward[backward[d]] = d /\ key[backward[d]] < key[d]
        BY <1>3, <2>3 DEF Links, Linked
      <3>2. backward'[d] = backward[d] /\ backward[d] # p
        BY <1>5, <2>3, <3>1 DEF f
      <3> QED BY <1>2, <1>3, <1>4, <3>1, <3>2
    <2> QED BY <2>1, <2>2, <2>3
  <1>8. key'[Root] = NoKey
    BY <1>3, LinksGive DEF Linked, NoKey
  <1> QED BY <1>2, <1>3, <1>4, <1>5, <1>6, <1>7, <1>8 DEF Links

\* What an addition does, where nothing is listed under the key.
LEMMA AddIs ==
  ASSUME Links, NEW k \in Keys, add_element(k)
  PROVE  /\ Links'
         /\ now = Null /\ now' = Null /\ visited' = visited
         /\ \A e \in heap : key[e] # k
         /\ \E e \in heap' : /\ heap' = heap \cup {e} /\ e \notin heap
                             /\ key'[e] = k /\ \A d \in heap : key'[d] = key[d]
  <1>1. now = Null /\ now' = Null /\ visited' = visited /\ get_element(k) = Null
    BY DEF add_element
  <1>2. \A e \in heap : key[e] # k
    <2> Null \notin heap
      BY LinksGive DEF Linked
    <2> QED BY <1>1, Found
  <1>3. PICK e \in Nodes \ heap :
          /\ heap' = heap \cup {e} /\ key' = [key EXCEPT ![e] = k]
          /\ insque(e, Target(k))
    BY DEF add_element
  <1> DEFINE p == Target(k)
  <1>4. /\ p \in Linked /\ key[p] < k
        /\ forward[p] # Null => k < key[forward[p]]
    BY <1>2, TargetIs
  <1>5. insque(e, p)
    BY <1>3
  <1> HIDE DEF p
  <1>6. Links'
    BY <1>3, <1>4, <1>5, InsertKeeps
  <1>7. key'[e] = k /\ \A d \in heap : key'[d] = key[d]
    BY <1>3 DEF Links
  <1> QED BY <1>1, <1>2, <1>3, <1>6, <1>7

\* What taking out an element does to the keys.
LEMMA RemoveIs ==
  ASSUME Links, NEW e \in heap, rem_element(e)
  PROVE  /\ Links' /\ heap' = heap \ {e}
         /\ \A d \in heap' : key'[d] = key[d] /\ key[d] # key[e]
  <1>1. heap' = heap \ {e} /\ \A d \in heap' : key'[d] = key[d]
    BY DEF rem_element, Links
  <1> QED BY <1>1, RemoveKeeps, Ordered

\* A removal takes out the element with the key.
LEMMA RemoveKeyIs ==
  ASSUME Links, NEW k \in Keys, RemoveKey(k)
  PROVE  /\ now = Null /\ now' = Null /\ visited' = visited
         /\ \E e \in heap : key[e] = k /\ rem_element(e)
  <1>1. now = Null /\ now' = Null /\ visited' = visited
    BY DEF RemoveKey
  <1> DEFINE e == get_element(k)
  <1>2. e \in heap /\ key[e] = k
    BY Found DEF RemoveKey
  <1>3. rem_element(e)
    BY DEF RemoveKey
  <1> QED BY <1>1, <1>2, <1>3

\* Where a walk goes from an element.
LEMMA OneFurther ==
  ASSUME Links, NEW e \in Linked
  PROVE  /\ forward[e] \in heap \cup {Null}
         /\ forward[e] # Null => key[e] < key[forward[e]]
         /\ \A d \in heap : key[e] < key[d]
              => forward[e] # Null /\ key[forward[e]] <= key[d]
BY Ordered, LinksGive DEF Links, Linked

\* The greatest key visited is the one just visited.
LEMMA PassedIs ==
  ASSUME visited \subseteq Nat, NEW k \in Nat, \A v \in visited : v < k,
         visited' = visited \cup {k}
  PROVE  passed' = k
  <1> DEFINE V == visited \cup {k}
  <1>1. k \in V /\ \A v \in V : k >= v
    OBVIOUS
  <1>2. \A x \in V : (\A v \in V : x >= v) => x = k
    OBVIOUS
  <1>3. Max(V) = k
    <2> HIDE DEF V
    <2> QED BY <1>1, <1>2 DEF Max
  <1>4. passed' = Max(V)
    BY DEF passed
  <1> QED BY <1>3, <1>4

\* A visit goes on to the next key, whether the callback frees the element or
\* not.
LEMMA VisitWalks ==
  ASSUME IInv, VisitKeep \/ VisitRemove
  PROVE  /\ now \in heap /\ key[now] \in Keys /\ key[now] \in Nat
         /\ now' = forward[now]
         /\ visited' \subseteq Nat /\ passed' = key[now]
         /\ \A v \in visited' : v <= key[now]
         /\ VisitKeep => heap' = heap /\ key' = key
         /\ VisitRemove => rem_element(now)
  <1>1. now \in heap
    BY DEF IInv, Walk, NeverDangles, VisitKeep, VisitRemove
  <1>2. key[now] \in Keys /\ key[now] \in Nat
    BY <1>1, LinksGive DEF IInv, Links, Linked
  <1>3. now' = forward[now] /\ visited' = visited \cup {key[now]}
    BY DEF VisitKeep, VisitRemove
  <1>4. visited \subseteq Nat /\ \A v \in visited : v < key[now]
    BY <1>1 DEF IInv, Walk
  <1>5. passed' = key[now]
    BY <1>2, <1>3, <1>4, PassedIs
  <1>6. visited' \subseteq Nat /\ \A v \in visited' : v <= key[now]
    <2> DEFINE k == key[now]
    <2>1. k \in Nat /\ visited' = visited \cup {k} /\ \A v \in visited : v \in Nat /\ v < k
      BY <1>2, <1>3, <1>4
    <2> HIDE DEF k
    <2>2. visited' \subseteq Nat /\ \A v \in visited' : v <= k
      BY ONLY <2>1
    <2> QED BY <2>2 DEF k
  <1>7. /\ VisitKeep => heap' = heap /\ key' = key
        /\ VisitRemove => rem_element(now)
    BY DEF VisitKeep, VisitRemove
  <1> QED BY <1>1, <1>2, <1>3, <1>5, <1>6, <1>7

\* The links stay right.
LEMMA LinksStep == IInv /\ [Next]_vars => Links'
  <1> SUFFICES ASSUME IInv, [Next]_vars PROVE Links'
    OBVIOUS
  <1>0. Links
    BY DEF IInv
  <1>1. ASSUME NEW k \in Keys, add_element(k) PROVE Links'
    BY <1>0, <1>1, AddIs
  <1>2. ASSUME NEW k \in Keys, RemoveKey(k) PROVE Links'
    BY <1>0, <1>2, RemoveKeyIs, RemoveIs
  <1>3. CASE VisitRemove
    BY <1>0, <1>3, VisitWalks, RemoveIs
  <1>4. CASE UNCHANGED <<heap, key, forward, backward>>
    BY <1>0, <1>4 DEF Links, Linked
  <1> QED BY <1>1, <1>2, <1>3, <1>4
          DEF Next, ListStart, VisitRoot, VisitKeep, vars

\* The walk stays right.
LEMMA WalkStep == IInv /\ [Next]_vars => Walk'
  <1> SUFFICES ASSUME IInv, [Next]_vars PROVE Walk'
    OBVIOUS
  <1>0. Links /\ Walk
    BY DEF IInv
  <1>1. Null \notin Linked /\ Root \notin heap /\ Null # Root
    BY <1>0, LinksGive DEF Linked
  <1>2. Null \notin heap' /\ Root \notin heap'
    BY LinksStep, AddressAssumption DEF Links
  <1>3. ASSUME now' = Null, visited' = visited PROVE Walk'
    BY <1>0, <1>1, <1>2, <1>3 DEF Walk, NeverDangles
  <1>4. ASSUME NEW k \in Keys, add_element(k) PROVE Walk'
    BY <1>0, <1>3, <1>4, AddIs
  <1>5. ASSUME NEW k \in Keys, RemoveKey(k) PROVE Walk'
    BY <1>0, <1>3, <1>5, RemoveKeyIs
  <1>6. CASE ListStart
    BY <1>1, <1>2, <1>6 DEF ListStart, Walk, NeverDangles
  <1>7. CASE VisitRoot
    <2>1. /\ now = Root /\ now' = forward[Root] /\ visited' = {}
          /\ heap' = heap /\ key' = key /\ Root \in Linked
      BY <1>0, <1>7 DEF VisitRoot, Walk, Linked
    <2>2. key[Root] = 0 /\ \A d \in heap : key[d] \in Nat /\ 0 < key[d]
      BY <1>0, LinksGive DEF Linked
    <2>3. /\ now' \in heap \cup {Null}
          /\ now' # Null => 0 < key[now']
          /\ \A d \in heap : now' # Null => key[now'] <= key[d]
      BY <1>0, <2>1, <2>2, OneFurther
    <2>4. passed' = 0
      BY <2>1 DEF passed, NoKey
    <2>5. ASSUME now' \in heap, NEW d \in heap PROVE key[d] \notin 0 + 1 .. key[now'] - 1
      BY <1>1, <2>2, <2>3, <2>5 DEF Linked
    <2> QED BY <1>1, <2>1, <2>3, <2>4, <2>5 DEF Walk, NeverDangles, Linked
  <1>8. CASE VisitKeep \/ VisitRemove
    <2> DEFINE k == key[now]  n == forward[now]
    <2>1. /\ now \in heap /\ now \in Linked /\ k \in Nat /\ now' = n
          /\ visited' \subseteq Nat /\ passed' = k
          /\ \A v \in visited' : v <= k
      BY <1>8, VisitWalks DEF Linked
    <2>2. /\ n \in heap \cup {Null} /\ (n # Null => k < key[n])
          /\ \A d \in heap : k < key[d] => n # Null /\ key[n] <= key[d]
      BY <1>0, <2>1, OneFurther
    <2>3. \A d \in heap : key[d] \in Nat
      BY <1>0, LinksGive DEF Linked
    <2>4. heap' \subseteq heap /\ (n # Null => n \in heap') /\ \A d \in heap' : key'[d] = key[d]
      <3>1. CASE VisitKeep
        BY <2>2, <3>1, VisitWalks
      <3>2. CASE VisitRemove
        BY <1>0, <2>1, <2>2, <2>3, <3>2, VisitWalks, RemoveIs
      <3> QED BY <1>8, <3>1, <3>2
    <2> HIDE DEF k, n
    <2>5. ASSUME n \in heap'
          PROVE  /\ k \in Nat /\ k < key'[n]
                 /\ \A v \in visited' : v < key'[n]
                 /\ \A d \in heap' : key'[d] \notin k + 1 .. key'[n] - 1
      <3>1. n # Null /\ n \in heap /\ key'[n] = key[n] /\ key[n] \in Nat /\ k < key[n]
        BY <1>2, <2>2, <2>3, <2>4, <2>5
      <3>2. \A d \in heap' : key'[d] \in Nat /\ (k < key'[d] => key[n] <= key'[d])
        BY <2>2, <2>3, <2>4
      <3> QED BY <2>1, <3>1, <3>2
    <2>6. n # Root /\ n \in heap' \cup {Root, Null}
      BY <1>1, <2>2, <2>4
    <2> QED BY <2>1, <2>5, <2>6 DEF Walk, NeverDangles
  <1>9. CASE UNCHANGED vars
    BY <1>0, <1>9 DEF vars, Walk, NeverDangles, passed
  <1> QED BY <1>4, <1>5, <1>6, <1>7, <1>8, <1>9 DEF Next

\* At first there is the root, and no walk.
LEMMA IInvInit == Init => IInv
  <1> SUFFICES ASSUME Init PROVE IInv
    OBVIOUS
  <1>1. heap = {} /\ Linked = {Root} /\ now = Null /\ visited = {}
    BY DEF Init, Linked
  <1>2. key[Root] = NoKey /\ forward[Root] = Null
    BY DEF Init
  <1>3. key \in [Nodes \cup {Root} -> Nat \cup {Junk}]
    BY DEF Init, NoKey
  <1>4. /\ forward \in [Nodes \cup {Root} -> Nodes \cup {Root, Null, Junk}]
        /\ backward \in [Nodes \cup {Root} -> Nodes \cup {Root, Null, Junk}]
    BY DEF Init
  <1>5. Links
    BY <1>1, <1>2, <1>3, <1>4 DEF Links
  <1>6. Walk
    BY <1>1, AddressAssumption DEF Walk, NeverDangles
  <1> QED BY <1>5, <1>6 DEF IInv

\* The invariant holds of every run (insque, remque, list_element).
THEOREM ElemListInvariant == Spec => []IInv
  <1>1. IInv /\ [Next]_vars => IInv'
    BY LinksStep, WalkStep DEF IInv
  <1> QED BY <1>1, IInvInit, PTL DEF Spec

\* However elements come and go, the list is one chain in key order, linked in
\* both directions, and no element is lost or listed twice (add_element,
\* rem_element).
THEOREM StaysLinked == Spec => []WellLinked
  <1>1. IInv => WellLinked
    <2> SUFFICES ASSUME IInv PROVE WellLinked
      OBVIOUS
    <2>1. Reached = heap
      BY AllReached DEF IInv
    <2> QED BY <2>1 DEF WellLinked, IInv, Links, Linked
  <1> QED BY <1>1, ElemListInvariant, PTL

\* A walk never stands on an element that was freed, though its callback frees
\* the one it is called for (list_element).
THEOREM WalksOnLiving == Spec => []NeverDangles
  <1>1. IInv => NeverDangles
    BY DEF IInv, Walk
  <1> QED BY <1>1, ElemListInvariant, PTL

-----------------------------------------------------------------------------
(* The list as a set of keys. *)

\* The keys listed are those of the elements.
KeysRight == KeysListed = {key[e] : e \in heap}

\* A list whose links are right lists every key there is, and no other.
LEMMA KeysAre == Links => KeysRight
  <1> HAVE Links
  <1>1. Reached = heap
    BY AllReached
  <1> QED BY <1>1 DEF KeysListed, KeysRight

\* The keys ahead of one.
LEMMA AheadIs ==
  ASSUME Links
  PROVE  \A j : List!Ahead(j) = {key[e] : e \in {d \in heap : key[d] > j}}
BY KeysAre DEF List!Ahead, KeysRight

\* The list begins empty.
LEMMA ListStarts == Init => List!Init
  <1> SUFFICES ASSUME Init PROVE List!Init
    OBVIOUS
  <1>1. IInv
    BY IInvInit
  <1>2. heap = {} /\ now = Null /\ visited = {}
    BY DEF Init
  <1>3. KeysListed = {}
    BY <1>1, <1>2, KeysAre DEF IInv, KeysRight
  <1> QED BY <1>2, <1>3 DEF List!Init, NoKey

\* Every step of the pointers is a step of the set, or none.
LEMMA ListStep == IInv /\ IInv' /\ KeysRight' /\ [Next]_vars => [List!Next]_List!vars
  <1> SUFFICES ASSUME IInv, IInv', KeysRight', [Next]_vars PROVE [List!Next]_List!vars
    OBVIOUS
  <1> DEFINE K == {key[e] : e \in heap}
             goes == now # Null
  <1>0. Links /\ Walk /\ Links' /\ KeysListed = K /\ KeysListed' = {key'[e] : e \in heap'}
    BY KeysAre DEF IInv, KeysRight
  <1>1. Null \notin Linked /\ Root \notin heap /\ Null # Root
    BY <1>0, LinksGive DEF Linked
  <1>2. ASSUME heap' = heap, key' = key PROVE KeysListed' = KeysListed
    BY <1>0, <1>2
  <1>3. ASSUME visited' = visited PROVE passed' = passed
    BY <1>3 DEF passed
  <1>4. ASSUME NEW k \in Keys, add_element(k) PROVE List!Add(k)
    <2>1. PICK e \in heap' : /\ heap' = heap \cup {e} /\ e \notin heap
                             /\ key'[e] = k /\ \A d \in heap : key'[d] = key[d]
      BY <1>0, <1>4, AddIs
    <2>2. now = Null /\ now' = Null /\ visited' = visited /\ \A d \in heap : key[d] # k
      BY <1>0, <1>4, AddIs
    <2>3. k \notin K /\ KeysListed' = K \cup {k}
      BY <1>0, <2>1, <2>2
    <2> QED BY <1>0, <1>3, <2>2, <2>3 DEF List!Add, passed
  <1>5. ASSUME NEW e \in heap, rem_element(e) PROVE KeysListed' = K \ {key[e]}
    <2>1. heap' = heap \ {e} /\ \A d \in heap' : key'[d] = key[d] /\ key[d] # key[e]
      BY <1>0, <1>5, RemoveIs
    <2> QED BY <1>0, <2>1
  <1>6. ASSUME NEW k \in Keys, RemoveKey(k) PROVE List!Remove(k)
    <2>1. PICK e \in heap : key[e] = k /\ rem_element(e)
      BY <1>0, <1>6, RemoveKeyIs
    <2>2. now = Null /\ now' = Null /\ visited' = visited
      BY <1>0, <1>6, RemoveKeyIs
    <2>3. k \in K /\ KeysListed' = K \ {k}
      BY <1>5, <2>1
    <2> QED BY <1>0, <1>3, <2>2, <2>3 DEF List!Remove, passed
  <1>7. CASE ListStart
    <2>1. KeysListed' = KeysListed /\ now = Null /\ now' = Root /\ visited' = {}
      BY <1>2, <1>7 DEF ListStart
    <2>2. List!Start
      BY <1>1, <2>1 DEF List!Start, NoKey
    <2> QED BY <2>2 DEF List!Next
  <1>8. CASE VisitRoot
    <2>1. /\ KeysListed' = KeysListed /\ now = Root /\ now' = forward[Root]
          /\ visited = {} /\ visited' = {} /\ Root \in Linked
      BY <1>0, <1>2, <1>8 DEF VisitRoot, Walk, Linked
    <2>2. CASE now' = Null
      <3>1. \A d \in heap : key[d] \in Nat /\ 0 < key[d] /\ key[Root] = 0
        BY <1>0, LinksGive DEF Linked
      <3>2. heap = {}
        BY <1>0, <2>1, <2>2, <3>1, OneFurther
      <3>3. K = {} /\ List!Ahead(0) = {}
        BY <1>0, <3>2, AheadIs
      <3>4. List!End
        BY <1>0, <1>1, <2>1, <2>2, <3>3 DEF List!End, NoKey
      <3> QED BY <3>4 DEF List!Next
    <2>3. CASE now' # Null
      BY <1>1, <2>1, <2>3 DEF List!vars
    <2> QED BY <2>2, <2>3
  <1>9. CASE VisitKeep \/ VisitRemove
    <2> DEFINE k == key[now]
    <2>1. /\ now \in heap /\ now \in Linked /\ now # Null /\ k \in Keys /\ k \in Nat
          /\ now' = forward[now] /\ passed' = k
      BY <1>1, <1>9, VisitWalks DEF Linked
    <2>2. /\ passed \in Nat /\ passed < k
          /\ \A e \in heap : key[e] \in Nat /\ key[e] \notin passed + 1 .. k - 1
      BY <1>0, <2>1, LinksGive DEF Walk, Linked
    <2>3. KeysListed' \in {K, K \ {k}}
      <3>1. CASE VisitKeep
        BY <1>0, <1>2, <3>1, VisitWalks
      <3>2. CASE VisitRemove
        BY <1>5, <2>1, <3>2, VisitWalks
      <3> QED BY <1>9, <3>1, <3>2
    <2>4. /\ forward[now] \in heap \cup {Null}
          /\ forward[now] # Null => k < key[forward[now]]
          /\ \A d \in heap : k < key[d] => forward[now] # Null
      BY <1>0, <2>1, OneFurther
    <2>5. (now' # Null) = (List!Ahead(k) # {})
      <3> HIDE DEF k
      <3>1. List!Ahead(k) = {key[e] : e \in {d \in heap : key[d] > k}}
        BY <1>0, AheadIs
      <3>2. now' # Null <=> \E d \in heap : key[d] > k
        BY <2>1, <2>2, <2>4
      <3> QED BY <3>1, <3>2
    <2>6. k \in List!Ahead(passed) /\ \A l \in List!Ahead(passed) : k <= l
      <3>1. List!Ahead(passed) = {key[e] : e \in {d \in heap : key[d] > passed}}
        BY <1>0, AheadIs
      <3>2. \A e \in heap : key[e] > passed => k <= key[e]
        BY <2>1, <2>2
      <3> QED BY <2>1, <2>2, <3>1, <3>2
    <2>7. List!Visit(k)
      BY <1>0, <2>1, <2>3, <2>5, <2>6 DEF List!Visit, passed
    <2> QED BY <2>1, <2>7 DEF List!Next
  <1>10. CASE UNCHANGED vars
    <2>1. KeysListed' = KeysListed /\ now' = now /\ visited' = visited
      BY <1>2, <1>10 DEF vars
    <2> QED BY <2>1 DEF List!vars
  <1> QED BY <1>4, <1>6, <1>7, <1>8, <1>9, <1>10 DEF Next, List!Next

\* The pointers of libs/elem.c keep the contract that SendBase and TrMgnt rest
\* on: a set of keys, and walks that visit all that was listed when they began,
\* in order, whatever their callback frees.
THEOREM ImplementsOrderedList == Spec => KeepsOrder
  <1>1. IInv => KeysRight
    BY KeysAre DEF IInv
  <1>2. IInv /\ IInv' /\ KeysRight' /\ [Next]_vars => [List!Next]_List!vars
    BY ListStep
  <1> QED BY <1>1, <1>2, ListStarts, ElemListInvariant, PTL DEF Spec, KeepsOrder, List!Spec
=============================================================================
