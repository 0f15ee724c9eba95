--------------------------- MODULE FortPrintProofs ---------------------------
(***************************************************************************)
(* Proofs about module FortPrint, for tables of any size, any style and    *)
(* any sequence of calls.                                                  *)
(***************************************************************************)
EXTENDS FortPrint, DataLemmas, FiniteSetTheorems

-----------------------------------------------------------------------------
(* Properties *)

\* A value for each property, of its type.
IsValues(val) ==
  /\ DOMAIN val = Property
  /\ \A p \in Counts \cup Colours : val[p] \in Nat
  /\ \A p \in TStyles : IsFiniteSet(val[p])

\* An entry; a length it was never given is 0.
IsEntry(entry) ==
  IsValues(entry.val) /\ \A p \in Counts : p \in entry.flags \/ entry.val[p] = 0

\* The defaults are an entry to which every length was given.
IsDefaults(entry) == IsValues(entry.val) /\ Counts \subseteq entry.flags

\* The entries of a table.
IsCont(cont) == \A at \in DOMAIN cont : IsEntry(cont[at])

\* An entry decides about a property if it is there and has the flag.
Decides(cont, at, p) == at \in DOMAIN cont /\ p \in cont[at].flags

\* The kinds of properties have nothing in common.
LEMMA KindsApart ==
  /\ Counts \cap Colours = {} /\ Counts \cap TStyles = {} /\ Colours \cap TStyles = {}
  /\ Counts \subseteq Property /\ Colours \subseteq Property /\ TStyles \subseteq Property
  /\ "ROW_TYPE" \in Property \ (Counts \cup Colours \cup TStyles)
BY DEF Counts, Colours, TStyles, Property

\* What an entry starts with, and the defaults, are entries.
LEMMA StartValues ==
  /\ IsEntry(NoFlags) /\ IsDefaults(g_default_cell_properties)
  <1>1. DOMAIN Zeroed = Property
    BY DEF Zeroed
  <1>2. \A p \in Counts \cup Colours : Zeroed[p] = 0
    <2> SUFFICES ASSUME NEW p \in Counts \cup Colours PROVE Zeroed[p] = 0
      OBVIOUS
    <2>1. p \in Property /\ p \notin TStyles /\ p # "TEXT_ALIGN" /\ p # "ROW_TYPE"
      BY KindsApart DEF Counts, Colours
    <2> QED BY <2>1 DEF Zeroed
  <1>3. \A p \in TStyles : Zeroed[p] = {}
    BY KindsApart DEF Zeroed
  <1>4. IsValues(Zeroed)
    BY <1>1, <1>2, <1>3, FS_EmptySet DEF IsValues
  <1>5. g_default_cell_properties.val
          = [p \in Property |-> IF p \in {"LEFT_PADDING", "RIGHT_PADDING", "EMPTY_STR_HEIGHT"}
                                THEN 1 ELSE Zeroed[p]]
    BY <1>1, Zenon DEF g_default_cell_properties
  <1>6. \A p \in TStyles : p \notin {"LEFT_PADDING", "RIGHT_PADDING", "EMPTY_STR_HEIGHT"}
    BY DEF TStyles
  <1>7. IsValues(g_default_cell_properties.val)
    BY <1>4, <1>5, <1>6, KindsApart DEF IsValues
  <1>8. Counts \subseteq g_default_cell_properties.flags
    BY KindsApart DEF g_default_cell_properties
  <1> QED BY <1>2, <1>4, <1>7, <1>8 DEF IsDefaults, IsEntry, NoFlags

\* A style has finitely many attributes.
LEMMA StyleFinite ==
  ASSUME NEW v, v \subseteq TextStyle PROVE IsFiniteSet(v)
  <1>1. IsFiniteSet(TextStyle)
    <2> DEFINE L == <<"BOLD", "DIM", "ITALIC", "UNDERLINED", "BLINK", "INVERTED", "HIDDEN">>
               f == [k \in 1 .. 7 |-> L[k]]
    <2>1. \A k \in 1 .. 7 : f[k] \in TextStyle
      BY DEF TextStyle
    <2>2. f[1] = "BOLD" /\ f[2] = "DIM" /\ f[3] = "ITALIC" /\ f[4] = "UNDERLINED"
          /\ f[5] = "BLINK" /\ f[6] = "INVERTED" /\ f[7] = "HIDDEN"
      OBVIOUS
    <2>3. \A a \in TextStyle : \E k \in 1 .. 7 : f[k] = a
      BY <2>2 DEF TextStyle
    <2>4. f \in Surjection(1 .. 7, TextStyle)
      BY <2>1, <2>3 DEF Surjection
    <2>5. IsFiniteSet(1 .. 7)
      <3>1. 1 \in Int /\ 7 \in Int
        OBVIOUS
      <3> QED BY <3>1, FS_Interval
    <2> QED BY <2>4, <2>5, FS_Surjection
  <1> QED BY <1>1, FS_Subset

\* What setting a property makes of an entry: the property, and nothing else.
LEMMA SetEntry ==
  ASSUME NEW entry, IsValues(entry.val), NEW p \in Property, NEW v, MayBe(p, v)
  PROVE  LET e == set_cell_property_impl(entry, p, v) IN
         /\ IsValues(e.val) /\ e.flags = entry.flags \cup {p}
         /\ \A q \in Property : q # p => e.val[q] = entry.val[q]
         /\ \/ Refused(p, v) /\ e.val[p] = entry.val[p]
            \/ p \in TStyles /\ v \subseteq e.val[p]
            \/ p \notin TStyles /\ e.val[p] = v
  <1> DEFINE e == set_cell_property_impl(entry, p, v)
  <1>1. DOMAIN entry.val = Property
    BY DEF IsValues
  <1>2. CASE Refused(p, v)
    BY <1>2 DEF set_cell_property_impl
  <1>3. CASE ~Refused(p, v) /\ p \in TStyles /\ v # {}
    <2>1. e = [flags |-> entry.flags \cup {p}, val |-> [entry.val EXCEPT ![p] = @ \cup v]]
      BY <1>3 DEF set_cell_property_impl
    <2>2. IsFiniteSet(v) /\ IsFiniteSet(entry.val[p])
      BY <1>3, KindsApart, StyleFinite DEF MayBe, IsValues
    <2>3. IsFiniteSet(entry.val[p] \cup v)
      BY <2>2, FS_Union
    <2>4. /\ DOMAIN e.val = Property /\ e.val[p] = entry.val[p] \cup v
          /\ \A q \in Property : q # p => e.val[q] = entry.val[q]
      BY <1>1, <2>1
    <2>5. IsValues(e.val)
      BY <1>3, <2>3, <2>4, KindsApart DEF IsValues
    <2> QED BY <1>3, <2>1, <2>4, <2>5
  <1>4. CASE ~Refused(p, v) /\ ~(p \in TStyles /\ v # {})
    <2>1. e = [flags |-> entry.flags \cup {p}, val |-> [entry.val EXCEPT ![p] = v]]
      BY <1>4 DEF set_cell_property_impl
    <2>2. /\ DOMAIN e.val = Property /\ e.val[p] = v
          /\ \A q \in Property : q # p => e.val[q] = entry.val[q]
      BY <1>1, <2>1
    <2>3. p \in Counts => v \in Nat
      BY <1>4 DEF Refused, MayBe
    <2>4. p \in Colours => v \in Nat
      BY KindsApart DEF MayBe, LIGHT_WHYTE
    <2>5. p \in TStyles => IsFiniteSet(v)
      BY <1>4, KindsApart, StyleFinite DEF MayBe
    <2>6. IsValues(e.val)
      BY <2>2, <2>3, <2>4, <2>5, KindsApart DEF IsValues
    <2> QED BY <1>4, <2>1, <2>2, <2>6
  <1> QED BY <1>2, <1>3, <1>4

\* It is an entry again, and the defaults stay the defaults.
LEMMA SetIsEntry ==
  ASSUME NEW entry, NEW p \in Property, NEW v, MayBe(p, v),
         NEW e, e = set_cell_property_impl(entry, p, v)
  PROVE  (IsEntry(entry) => IsEntry(e)) /\ (IsDefaults(entry) => IsDefaults(e))
  <1>1. ASSUME IsValues(entry.val)
        PROVE  /\ IsValues(e.val) /\ e.flags = entry.flags \cup {p}
               /\ \A q \in Property : q # p => e.val[q] = entry.val[q]
    BY <1>1, SetEntry
  <1>2. ASSUME IsEntry(entry) PROVE IsEntry(e)
    BY <1>1, <1>2, KindsApart DEF IsEntry
  <1>3. ASSUME IsDefaults(entry) PROVE IsDefaults(e)
    BY <1>1, <1>3 DEF IsDefaults
  <1> QED BY <1>2, <1>3

\* The defaults are an entry.
LEMMA DefaultsEntry ==
  ASSUME NEW entry, IsDefaults(entry) PROVE IsEntry(entry)
BY DEF IsDefaults, IsEntry

\* The value at the first of the four places that decides about a property.
Found(cont, defaults_, row, col, p) ==
  IF Decides(cont, <<row, col>>, p) THEN cont[<<row, col>>].val[p]
  ELSE IF Decides(cont, <<ANY, col>>, p) THEN cont[<<ANY, col>>].val[p]
  ELSE IF Decides(cont, <<row, ANY>>, p) THEN cont[<<row, ANY>>].val[p]
  ELSE IF Decides(cont, <<ANY, ANY>>, p) THEN cont[<<ANY, ANY>>].val[p]
  ELSE defaults_.val[p]

\* That is what a lookup finds.
LEMMA LookupIs ==
  ASSUME NEW cont, NEW defaults_, NEW row, NEW col, NEW p
  PROVE  get_cell_property_hierarchically(cont, defaults_, row, col, p)
         = Found(cont, defaults_, row, col, p)
  <1> DEFINE H == Hierarchy(row, col)
             S == {k \in 1 .. 4 : Decides(cont, H[k], p)}
             G == get_cell_property_hierarchically(cont, defaults_, row, col, p)
  <1>1. H[1] = <<row, col>> /\ H[2] = <<ANY, col>> /\ H[3] = <<row, ANY>> /\ H[4] = <<ANY, ANY>>
    BY DEF Hierarchy
  <1>2. G = IF S = {} THEN defaults_.val[p] ELSE cont[H[Min(S)]].val[p]
    BY Zenon DEF get_cell_property_hierarchically, Decides
  <1> HIDE DEF H, G
  <1>3. ASSUME NEW k \in S, \A j \in S : k <= j PROVE G = cont[H[k]].val[p]
    <2>1. Min(S) \in S /\ Min(S) <= k
      BY <1>3 DEF Min
    <2>2. Min(S) = k
      BY <1>3, <2>1
    <2> QED BY <1>2, <2>2
  <1>4. CASE 1 \in S
    BY <1>1, <1>3, <1>4 DEF G, Found
  <1>5. CASE 1 \notin S /\ 2 \in S
    BY <1>1, <1>3, <1>5 DEF G, Found
  <1>6. CASE 1 \notin S /\ 2 \notin S /\ 3 \in S
    BY <1>1, <1>3, <1>6 DEF G, Found
  <1>7. CASE 1 \notin S /\ 2 \notin S /\ 3 \notin S /\ 4 \in S
    BY <1>1, <1>3, <1>7 DEF G, Found
  <1>8. CASE S = {}
    BY <1>1, <1>2, <1>8 DEF G, Found
  <1>9. S \subseteq 1 .. 4
    OBVIOUS
  <1> QED BY <1>4, <1>5, <1>6, <1>7, <1>8, <1>9

\* The value found has its type.
LEMMA LookupTyped ==
  ASSUME NEW cont, IsCont(cont), NEW defaults_, IsDefaults(defaults_), NEW row, NEW col
  PROVE  LET g(p) == get_cell_property_hierarchically(cont, defaults_, row, col, p) IN
         /\ \A p \in Counts \cup Colours : g(p) \in Nat
         /\ \A p \in TStyles : IsFiniteSet(g(p))
  <1> DEFINE g(p) == get_cell_property_hierarchically(cont, defaults_, row, col, p)
  <1>1. ASSUME NEW p PROVE \E val : IsValues(val) /\ g(p) = val[p]
    BY LookupIs DEF Found, Decides, IsCont, IsEntry, IsDefaults
  <1> HIDE DEF g
  <1>2. \A p \in Counts \cup Colours : g(p) \in Nat
    BY <1>1 DEF IsValues
  <1>3. \A p \in TStyles : IsFiniteSet(g(p))
    BY <1>1 DEF IsValues
  <1> QED BY <1>2, <1>3 DEF g

\* The types of a caller's values.
LEMMA SettingsTyped ==
  ASSUME NEW s \in Settings PROVE s[1] \in Property /\ MayBe(s[1], s[2])
BY PrintAssumption

\* What a call makes of the entries: one of them is new or has changed.
OneSet(cont, at, p, v, old, new) ==
  /\ IsCont(new) /\ DOMAIN new = DOMAIN cont \cup {at}
  /\ \A b \in DOMAIN cont : b # at => new[b] = cont[b]
  /\ IsEntry(old)
  /\ new[at] = set_cell_property_impl(old, p, v)

\* So does every call that sets a property.
LEMMA SetCont ==
  ASSUME NEW cont, IsCont(cont), NEW defaults_, IsDefaults(defaults_),
         NEW at, NEW p \in Property, NEW v, MayBe(p, v)
  PROVE  OneSet(cont, at, p, v, get_cell_prop_and_create(cont, at, defaults_),
                set_cell_property(cont, at, p, v, defaults_))
  <1> DEFINE new == set_cell_property(cont, at, p, v, defaults_)
             old == get_cell_prop_and_create(cont, at, defaults_)
             e == set_cell_property_impl(old, p, v)
  <1>1. IsEntry(old)
    BY StartValues, DefaultsEntry DEF get_cell_prop_and_create, IsCont
  <1>2. IsEntry(e)
    <2> HIDE DEF old
    <2> QED BY <1>1, SetIsEntry
  <1>3. new = [q \in DOMAIN cont \cup {at} |-> IF q = at THEN e ELSE cont[q]]
    BY DEF set_cell_property
  <1> HIDE DEF e, old, new
  <1>4. IsCont(new)
    BY <1>2, <1>3 DEF IsCont
  <1>5. OneSet(cont, at, p, v, old, new)
    BY <1>1, <1>3, <1>4 DEF e, OneSet
  <1> QED BY <1>5 DEF old, new

\* The four places where a property of a cell is looked for are those that
\* reach it.
LEMMA PlacesOf ==
  ASSUME NEW r \in Nat, NEW c \in Nat, NEW at \in (Nat \cup {ANY}) \X (Nat \cup {ANY})
  PROVE  /\ Reaches(at, r, c) <=> at \in {<<r, c>>, <<ANY, c>>, <<r, ANY>>, <<ANY, ANY>>}
         /\ r # ANY /\ c # ANY
  <1> DEFINE i == at[1]  j == at[2]
  <1>1. at = <<i, j>>
    OBVIOUS
  <1>2. r # ANY /\ c # ANY
    BY DEF ANY
  <1>3. Reaches(at, r, c) <=> (i = ANY \/ i = r) /\ (j = ANY \/ j = c)
    BY <1>1 DEF Reaches
  <1> QED BY <1>1, <1>2, <1>3

\* Closer, in any table: an entry that decides about the property closer to the
\* cell than `at` does.
CloserIn(cont, at, r, c, p) ==
  \E b \in DOMAIN cont \ {at} :
    /\ p \in cont[b].flags /\ Reaches(b, r, c)
    /\ \/ b[1] # ANY /\ b[2] # ANY
       \/ at = <<ANY, ANY>>
       \/ at[2] = ANY /\ b[2] # ANY

\* Where entries are kept.
Places == (Nat \cup {ANY}) \X (Nat \cup {ANY})

\* The entries that are closer are those looked at before.
LEMMA CloserIs ==
  ASSUME NEW cont, DOMAIN cont \subseteq Places, NEW at \in Places,
         NEW r \in Nat, NEW c \in Nat, NEW p, Reaches(at, r, c)
  PROVE  CloserIn(cont, at, r, c, p)
         <=> \/ at # <<r, c>> /\ Decides(cont, <<r, c>>, p)
             \/ at \in {<<r, ANY>>, <<ANY, ANY>>} /\ Decides(cont, <<ANY, c>>, p)
             \/ at = <<ANY, ANY>> /\ Decides(cont, <<r, ANY>>, p)
  <1> DEFINE Before == \/ at # <<r, c>> /\ Decides(cont, <<r, c>>, p)
                       \/ at \in {<<r, ANY>>, <<ANY, ANY>>} /\ Decides(cont, <<ANY, c>>, p)
                       \/ at = <<ANY, ANY>> /\ Decides(cont, <<r, ANY>>, p)
  <1>1. r # ANY /\ c # ANY /\ at \in {<<r, c>>, <<ANY, c>>, <<r, ANY>>, <<ANY, ANY>>}
    BY PlacesOf DEF Places
  <1>2. ASSUME CloserIn(cont, at, r, c, p) PROVE Before
    <2>1. PICK b \in DOMAIN cont \ {at} :
            /\ p \in cont[b].flags /\ Reaches(b, r, c)
            /\ (b[1] # ANY /\ b[2] # ANY) \/ at = <<ANY, ANY>> \/ (at[2] = ANY /\ b[2] # ANY)
      BY <1>2 DEF CloserIn
    <2>2. b \in {<<r, c>>, <<ANY, c>>, <<r, ANY>>, <<ANY, ANY>>} /\ Decides(cont, b, p)
      BY <2>1, PlacesOf DEF Places, Decides
    <2>3. CASE b = <<r, c>>
      BY <2>1, <2>2, <2>3
    <2>4. CASE b = <<ANY, c>>
      BY <1>1, <2>1, <2>2, <2>4
    <2>5. CASE b = <<r, ANY>>
      BY <1>1, <2>1, <2>2, <2>5
    <2>6. CASE b = <<ANY, ANY>>
      BY <1>1, <2>1, <2>6
    <2> QED BY <2>2, <2>3, <2>4, <2>5, <2>6
  <1>3. \A b \in {<<r, c>>, <<ANY, c>>, <<r, ANY>>} : Reaches(b, r, c)
    BY DEF Reaches
  <1>4. CASE at # <<r, c>> /\ Decides(cont, <<r, c>>, p)
    BY <1>1, <1>3, <1>4 DEF Decides, CloserIn
  <1>5. CASE at \in {<<r, ANY>>, <<ANY, ANY>>} /\ Decides(cont, <<ANY, c>>, p)
    <2>1. <<ANY, c>> # at /\ at[2] = ANY
      BY <1>1, <1>5
    <2> QED BY <1>1, <1>3, <1>5, <2>1 DEF Decides, CloserIn
  <1>6. CASE at = <<ANY, ANY>> /\ Decides(cont, <<r, ANY>>, p)
    BY <1>1, <1>3, <1>6 DEF Decides, CloserIn
  <1> QED BY <1>2, <1>4, <1>5, <1>6

\* A place is looked at with the same result before a call and after it.
SameAt(cont, new, b, p) ==
  /\ Decides(new, b, p) <=> Decides(cont, b, p)
  /\ Decides(cont, b, p) => new[b].val[p] = cont[b].val[p]

\* What is found depends on the four places only.
LEMMA FoundSame ==
  ASSUME NEW cont, NEW new, NEW defaults_, NEW r, NEW c, NEW p,
         SameAt(cont, new, <<r, c>>, p), SameAt(cont, new, <<ANY, c>>, p),
         SameAt(cont, new, <<r, ANY>>, p), SameAt(cont, new, <<ANY, ANY>>, p)
  PROVE  Found(new, defaults_, r, c, p) = Found(cont, defaults_, r, c, p)
BY Zenon DEF Found, SameAt

\* What is read after setting: the new value where nothing closer decides, and
\* otherwise what was read before.
LEMMA ReadAfterSet ==
  ASSUME NEW cont, IsCont(cont), DOMAIN cont \subseteq Places,
         NEW defaults_, IsDefaults(defaults_), NEW at \in Places,
         NEW q \in Property, NEW v, MayBe(q, v),
         NEW new, new = set_cell_property(cont, at, q, v, defaults_),
         NEW old, old = get_cell_prop_and_create(cont, at, defaults_),
         NEW r \in Nat, NEW c \in Nat, NEW p \in Property,
         NEW gn, gn = Found(new, defaults_, r, c, p),
         NEW gc, gc = Found(cont, defaults_, r, c, p)
  PROVE  IF p = q /\ Reaches(at, r, c) /\ ~CloserIn(cont, at, r, c, p)
         THEN \/ Refused(p, v) /\ gn \in {gc, 0}
              \/ p \in TStyles /\ v \subseteq gn
              \/ p \notin TStyles /\ gn = v
         ELSE gn = gc
  <1> DEFINE P1 == <<r, c>>  P2 == <<ANY, c>>  P3 == <<r, ANY>>  P4 == <<ANY, ANY>>
             Same(b) == SameAt(cont, new, b, p)
  <1>0. OneSet(cont, at, q, v, old, new)
    BY SetCont
  <1>1. /\ DOMAIN new = DOMAIN cont \cup {at}
        /\ \A b \in DOMAIN cont : b # at => new[b] = cont[b]
        /\ IsEntry(old) /\ new[at] = set_cell_property_impl(old, q, v)
    BY <1>0 DEF OneSet
  <1>2. /\ new[at].flags = old.flags \cup {q}
        /\ \A x \in Property : x # q => new[at].val[x] = old.val[x]
        /\ \/ Refused(q, v) /\ new[at].val[q] = old.val[q]
           \/ q \in TStyles /\ v \subseteq new[at].val[q]
           \/ q \notin TStyles /\ new[at].val[q] = v
    <2>1. IsValues(old.val)
      BY <1>1 DEF IsEntry
    <2> QED BY <1>1, <2>1, SetEntry
  <1>3. old = IF at \in DOMAIN cont THEN cont[at]
              ELSE IF at = P4 THEN defaults_
              ELSE [flags |-> {}, val |-> Zeroed]
    BY DEF get_cell_prop_and_create, NoFlags
  <1>4. \A b : b # at => Same(b)
    BY <1>1 DEF Decides, SameAt
  <1>5. r # ANY /\ c # ANY /\ (Reaches(at, r, c) <=> at \in {P1, P2, P3, P4})
    BY PlacesOf DEF Places
  <1>6. P1 # P2 /\ P1 # P3 /\ P1 # P4 /\ P2 # P3 /\ P2 # P4 /\ P3 # P4
    BY <1>5
  <1>7. CASE p # q
    <2>1. CASE at \in DOMAIN cont \/ at # P4
      <3>1. Same(at)
        <4>1. CASE at \in DOMAIN cont
          BY <1>1, <1>2, <1>3, <1>7, <4>1 DEF Decides, SameAt
        <4>2. CASE at \notin DOMAIN cont /\ at # P4
          <5>1. new[at].flags = {q}
            BY <1>2, <1>3, <4>2
          <5> QED BY <1>7, <4>2, <5>1 DEF Decides, SameAt
        <4> QED BY <2>1, <4>1, <4>2
      <3>2. Same(P1) /\ Same(P2) /\ Same(P3) /\ Same(P4)
        <4> HIDE DEF Same, P1, P2, P3, P4
        <4> QED BY <1>4, <3>1
      <3>3. gn = gc
        BY <3>2, FoundSame
      <3> QED BY <1>7, <3>3
    <2>2. CASE at \notin DOMAIN cont /\ at = P4
      <3>1. new[P4].val[p] = defaults_.val[p] /\ ~Decides(cont, P4, p)
        BY <1>2, <1>3, <1>7, <2>2 DEF Decides
      <3>2. Same(P1) /\ Same(P2) /\ Same(P3)
        BY <1>4, <1>6, <2>2
      <3>3. Decides(new, P4, p) => new[P4].val[p] = defaults_.val[p]
        BY <3>1
      <3>4. gn = gc
        BY <3>1, <3>2, <3>3, Zenon DEF Found, SameAt
      <3> QED BY <1>7, <3>4
    <2> QED BY <2>1, <2>2
  <1>8. CASE p = q /\ ~Reaches(at, r, c)
    <2>1. Same(P1) /\ Same(P2) /\ Same(P3) /\ Same(P4)
      BY <1>4, <1>5, <1>8
    <2>2. gn = gc
      BY <2>1, FoundSame
    <2> QED BY <1>8, <2>2
  <1>9. CASE p = q /\ Reaches(at, r, c)
    <2>1. Decides(new, at, p)
      BY <1>1, <1>2, <1>9 DEF Decides
    <2>2. CloserIn(cont, at, r, c, p)
          <=> \/ at # P1 /\ Decides(cont, P1, p)
              \/ at \in {P3, P4} /\ Decides(cont, P2, p)
              \/ at = P4 /\ Decides(cont, P3, p)
      BY <1>9, CloserIs
    <2>3. (at # P1 => Same(P1)) /\ (at # P2 => Same(P2))
          /\ (at # P3 => Same(P3)) /\ (at # P4 => Same(P4))
      BY <1>4
    <2>4. /\ gn = IF Decides(new, P1, p) THEN new[P1].val[p]
                       ELSE IF Decides(new, P2, p) THEN new[P2].val[p]
                       ELSE IF Decides(new, P3, p) THEN new[P3].val[p]
                       ELSE IF Decides(new, P4, p) THEN new[P4].val[p] ELSE defaults_.val[p]
          /\ gc = IF Decides(cont, P1, p) THEN cont[P1].val[p]
                       ELSE IF Decides(cont, P2, p) THEN cont[P2].val[p]
                       ELSE IF Decides(cont, P3, p) THEN cont[P3].val[p]
                       ELSE IF Decides(cont, P4, p) THEN cont[P4].val[p] ELSE defaults_.val[p]
      BY Zenon DEF Found
    <2>5. at \in {P1, P2, P3, P4}
      BY <1>5, <1>9
    <2> HIDE DEF P1, P2, P3, P4
    <2>6. CASE CloserIn(cont, at, r, c, p)
      <3>1. gn = gc
        BY <1>6, <2>2, <2>3, <2>4, <2>5, <2>6 DEF SameAt
      <3> QED BY <1>9, <2>6, <3>1
    <2>7. CASE ~CloserIn(cont, at, r, c, p)
      <3>1. gn = new[at].val[p]
        BY <1>6, <2>1, <2>2, <2>3, <2>4, <2>5, <2>7 DEF SameAt
      <3>2. ASSUME Refused(p, v) PROVE old.val[p] \in {gc, 0}
        <4>1. p \in Counts /\ IsEntry(old)
          BY <1>1, <3>2 DEF Refused
        <4>2. CASE Decides(cont, at, p)
          <5>1. gc = cont[at].val[p]
            BY <1>6, <2>2, <2>4, <2>5, <2>7, <4>2
          <5> QED BY <1>3, <4>2, <5>1 DEF Decides
        <4>3. CASE ~Decides(cont, at, p) /\ p \in old.flags
          <5>1. at = P4 /\ old = defaults_
            BY <1>3, <4>3 DEF Decides
          <5>2. gc = defaults_.val[p]
            BY <1>6, <2>2, <2>4, <2>7, <4>3, <5>1
          <5> QED BY <5>1, <5>2
        <4>4. CASE p \notin old.flags
          BY <4>1, <4>4 DEF IsEntry
        <4> QED BY <4>2, <4>3, <4>4
      <3> QED BY <1>2, <1>9, <2>7, <3>1, <3>2
    <2> QED BY <2>6, <2>7
  <1> QED BY <1>7, <1>8, <1>9

-----------------------------------------------------------------------------
(* The largest of a set, and sums *)

\* The largest number of a bounded set.
LEMMA MaxBounded ==
  ASSUME NEW S \in SUBSET Nat, S # {}, NEW b \in Nat, \A x \in S : x <= b
  PROVE  Max(S) \in S /\ Max(S) \in Nat /\ \A x \in S : x <= Max(S)
  <1> DEFINE D == {n \in Nat : \E x \in S : n = b - x}
  <1>1. PICK x0 \in S : TRUE
    OBVIOUS
  <1>2. b - x0 \in Nat
    BY <1>1
  <1>3. D \in SUBSET Nat /\ D # {}
    BY <1>2
  <1> HIDE DEF D
  <1>4. PICK n \in D : \A m \in D : n <= m
    BY <1>3, Least
  <1>5. PICK y \in S : n = b - y
    BY <1>4 DEF D
  <1>6. ASSUME NEW x \in S PROVE y >= x
    <2>1. b - x \in D
      BY DEF D
    <2>2. n <= b - x
      BY <1>4, <2>1
    <2> QED BY <1>5, <2>2
  <1>7. Max(S) \in S /\ \A x \in S : Max(S) >= x
    BY <1>5, <1>6 DEF Max
  <1> QED BY <1>7

\* A finite set of numbers is bounded.
LEMMA FiniteBounded ==
  ASSUME NEW S \in SUBSET Nat, IsFiniteSet(S)
  PROVE  \E b \in Nat : \A x \in S : x <= b
  <1> DEFINE N == Cardinality(S)
  <1>1. N \in Nat /\ ExistsBijection(1 .. N, S)
    BY FS_CardinalityType
  <1> HIDE DEF N
  <1>2. PICK f \in [1 .. N -> S] : \A x \in S : \E k \in 1 .. N : f[k] = x
    BY <1>1 DEF ExistsBijection, Bijection, Surjection, Injection
  <1> DEFINE G == {k \in 0 .. N : \E b \in Nat : \A j \in 1 .. k : f[j] <= b}
  <1>3. 0 \in G
    BY <1>1
  <1>4. ASSUME NEW k \in G, k < N PROVE k + 1 \in G
    <2>1. PICK b \in Nat : \A j \in 1 .. k : f[j] <= b
      OBVIOUS
    <2>0. k \in Nat /\ k + 1 \in 1 .. N /\ k + 1 \in 0 .. N /\ \A j \in 1 .. k : j \in 1 .. N
      BY <1>1, <1>4
    <2>5a. \A j \in 1 .. N : f[j] \in Nat
      BY <1>2
    <2>2. k + 1 \in 1 .. N /\ k + 1 \in 0 .. N /\ f[k + 1] \in Nat
      BY <2>0, <2>5a
    <2>3. \A j \in 1 .. k + 1 : j \in 1 .. k \/ j = k + 1
      BY <2>2
    <2>4. \A j \in 1 .. k : f[j] \in Nat
      BY <2>0, <2>5a
    <2>5. b + f[k + 1] \in Nat /\ \A j \in 1 .. k + 1 : f[j] <= b + f[k + 1]
      BY <2>1, <2>2, <2>3, <2>4
    <2> QED BY <2>2, <2>5
  <1>5. G \in SUBSET (0 .. N)
    OBVIOUS
  <1>6. N \in G
    <2> HIDE DEF G
    <2> QED BY <1>1, <1>3, <1>4, <1>5, Climb
  <1> QED BY <1>2, <1>6

\* The values a function has on a finite set are finitely many.
LEMMA ImageFinite ==
  ASSUME NEW A, IsFiniteSet(A), NEW f
  PROVE  IsFiniteSet({f[x] : x \in A})
  <1> DEFINE T == {f[x] : x \in A}
             g == [x \in A |-> f[x]]
  <1>1. g \in Surjection(A, T)
    BY DEF Surjection
  <1> HIDE DEF T, g
  <1>2. IsFiniteSet(T)
    BY <1>1, FS_Surjection
  <1> QED BY <1>2 DEF T

\* A maximum that is at least low.
LEMMA MaxFinite ==
  ASSUME NEW S \in SUBSET Nat, IsFiniteSet(S), NEW low \in Nat
  PROVE  /\ Max({low} \cup S) \in Nat
         /\ Max({low} \cup S) >= low
         /\ \A x \in S : x <= Max({low} \cup S)
         /\ Max({low} \cup S) \in {low} \cup S
  <1> DEFINE T == {low} \cup S
  <1>1. PICK b \in Nat : \A x \in S : x <= b
    BY FiniteBounded
  <1>2. b + low \in Nat /\ \A x \in T : x <= b + low
    BY <1>1
  <1>3. T \in SUBSET Nat /\ T # {} /\ low \in T
    OBVIOUS
  <1> HIDE DEF T
  <1>4. Max(T) \in T /\ Max(T) \in Nat /\ \A x \in T : x <= Max(T)
    BY <1>2, <1>3, MaxBounded
  <1> QED BY <1>3, <1>4 DEF T

\* m is the largest value that f has on A, or low if that is larger.
IsTop(m, A, f, low) ==
  /\ m \in Nat /\ m >= low
  /\ \A x \in A : f[x] <= m
  /\ m = low \/ \E x \in A : f[x] = m

\* The largest value that a function has on a finite set, and at least low.
LEMMA MaxImage ==
  ASSUME NEW A, IsFiniteSet(A), NEW f, \A x \in A : f[x] \in Nat, NEW low \in Nat,
         NEW m, m = Max({low} \cup {f[x] : x \in A})
  PROVE  IsTop(m, A, f, low)
  <1> DEFINE S == {f[x] : x \in A}
  <1>1. S \in SUBSET Nat /\ IsFiniteSet(S)
    BY ImageFinite
  <1>2. \A x \in A : f[x] \in S
    OBVIOUS
  <1>3. \A y \in S : \E x \in A : f[x] = y
    OBVIOUS
  <1>4. m = Max({low} \cup S)
    OBVIOUS
  <1> HIDE DEF S
  <1>5. m \in Nat /\ m >= low /\ (\A x \in S : x <= m) /\ m \in {low} \cup S
    <2> DEFINE k == Max({low} \cup S)
    <2>1. k \in Nat /\ k >= low /\ (\A x \in S : x <= k) /\ k \in {low} \cup S
      BY <1>1, MaxFinite
    <2> HIDE DEF k
    <2>2. m = k
      BY <1>4 DEF k
    <2> QED BY <2>1, <2>2
  <1> QED BY <1>2, <1>3, <1>5 DEF IsTop

\* Total adds up: from nothing, one after the other.
LEMMA TotalIs ==
  ASSUME NEW N \in Nat, NEW f, \A k \in 0 .. N - 1 : f[k] \in Int
  PROVE  /\ Total(f, 0) = 0
         /\ \A n \in 0 .. N : Total(f, n) \in Int
         /\ \A n \in 0 .. N - 1 : Total(f, n + 1) = Total(f, n) + f[n]
  <1> DEFINE V == Int
             step == [p \in (1 .. N) \X Int |-> p[2] + f[p[1] - 1]]
  <1>1. /\ step \in [(1 .. N) \X Int -> Int]
        /\ \A i \in 1 .. N, w \in Int : step[<<i, w>>] = w + f[i - 1]
    <2>1. \A i \in 1 .. N : f[i - 1] \in Int
      OBVIOUS
    <2> QED BY <2>1
  <1> HIDE DEF step
  <1>2. PICK F : Recurs(N, V, 0, step, F)
    <2>1. 0 \in V /\ step \in [(1 .. N) \X V -> V]
      BY <1>1
    <2> HIDE DEF V
    <2> QED BY <2>1, Recursion
  <1>3. /\ \A i \in 1 .. N : i - 1 \in 0 .. N /\ i \in 0 .. N /\ i # 0
        /\ F \in [0 .. N -> Int] /\ F[0] = 0
    BY <1>2 DEF Recurs
  <1>4. \A i \in 1 .. N : F[i] = F[i - 1] + f[i - 1]
    BY <1>1, <1>2, <1>3 DEF Recurs
  <1>5. ASSUME NEW n \in 0 .. N PROVE Total(f, n) = F[n]
    <2> DEFINE Is(E) == E = [k \in 0 .. n |-> IF k = 0 THEN 0 ELSE E[k - 1] + f[k - 1]]
               P == CHOOSE E : Is(E)
               H == [k \in 0 .. n |-> F[k]]
    <2>1. Total(f, n) = P[n]
      BY DEF Total
    <2>2. \A k \in 0 .. n : k # 0 => k \in 1 .. N /\ k - 1 \in 0 .. n
      OBVIOUS
    <2>3. \A k \in 0 .. n : H[k] = IF k = 0 THEN 0 ELSE H[k - 1] + f[k - 1]
      BY <1>3, <1>4, <2>2
    <2>4. Is(H)
      BY <2>3
    <2> HIDE DEF P
    <2>5. Is(P)
      <3> HIDE DEF Is
      <3> QED BY <2>4 DEF P
    <2>6. P[0] = 0 /\ \A k \in 1 .. n : P[k] = P[k - 1] + f[k - 1]
      BY <2>5
    <2> HIDE DEF Is
    <2> DEFINE G == {k \in 0 .. n : P[k] = F[k]}
    <2>7. 0 \in G
      BY <1>3, <2>6
    <2>8. ASSUME NEW k \in G, k < n PROVE k + 1 \in G
      <3>1. k + 1 \in 1 .. n /\ k + 1 \in 1 .. N /\ k + 1 - 1 = k /\ k + 1 \in 0 .. n
        BY <2>8
      <3>2. P[k + 1] = P[k] + f[k] /\ F[k + 1] = F[k] + f[k]
        BY <1>4, <2>6, <3>1
      <3> QED BY <3>1, <3>2
    <2>9. G \in SUBSET (0 .. n) /\ n \in Nat
      OBVIOUS
    <2>10. n \in G
      <3> HIDE DEF G
      <3> QED BY <2>7, <2>8, <2>9, Climb
    <2> QED BY <2>1, <2>10
  <1>6. ASSUME NEW n \in 0 .. N - 1 PROVE Total(f, n + 1) = Total(f, n) + f[n]
    <2>1. n + 1 \in 1 .. N /\ n + 1 \in 0 .. N /\ n \in 0 .. N /\ n + 1 - 1 = n
      OBVIOUS
    <2> QED BY <1>4, <1>5, <2>1
  <1> QED BY <1>3, <1>5, <1>6

\* f has integers for the numbers below N.
Numbers(f, N) == \A k \in 0 .. N - 1 : f[k] \in Int

\* A stretch of the sum is empty at first, and grows by one number after the
\* other.
AddsUp(f, N, a) ==
  /\ Between(f, a, a) = 0 /\ Total(f, a) = Between(f, 0, a)
  /\ \A b \in 0 .. N : Between(f, a, b) \in Int
  /\ \A b \in 0 .. N - 1 : Between(f, a, b + 1) = Between(f, a, b) + f[b]
  /\ \A b \in 0 .. N, c \in 0 .. N : Between(f, a, c) = Between(f, a, b) + Between(f, b, c)

\* So do numbers.
LEMMA BetweenIs ==
  ASSUME NEW N \in Nat, NEW f, Numbers(f, N), NEW a \in 0 .. N
  PROVE  AddsUp(f, N, a)
  <1>1. /\ Total(f, 0) = 0 /\ \A n \in 0 .. N : Total(f, n) \in Int
        /\ \A n \in 0 .. N - 1 : Total(f, n + 1) = Total(f, n) + f[n]
    BY TotalIs DEF Numbers
  <1>2. \A n \in 0 .. N - 1 : n \in 0 .. N /\ n + 1 \in 0 .. N /\ f[n] \in Int
    BY DEF Numbers
  <1>3. \A b, c : Between(f, b, c) = Total(f, c) - Total(f, b)
    BY DEF Between
  <1>4. Between(f, a, a) = 0 /\ Total(f, a) = Between(f, 0, a)
    BY <1>1, <1>3
  <1>5. \A b \in 0 .. N : Between(f, a, b) \in Int
    BY <1>1, <1>3
  <1>6. ASSUME NEW b \in 0 .. N - 1 PROVE Between(f, a, b + 1) = Between(f, a, b) + f[b]
    <2>1. Total(f, a) \in Int /\ Total(f, b) \in Int /\ f[b] \in Int
          /\ Total(f, b + 1) = Total(f, b) + f[b]
      BY <1>1, <1>2
    <2> QED BY <1>3, <2>1
  <1>7. ASSUME NEW b \in 0 .. N, NEW c \in 0 .. N
        PROVE  Between(f, a, c) = Between(f, a, b) + Between(f, b, c)
    <2>1. Total(f, a) \in Int /\ Total(f, b) \in Int /\ Total(f, c) \in Int
      BY <1>1
    <2> QED BY <1>3, <2>1
  <1> QED BY <1>4, <1>5, <1>6, <1>7 DEF AddsUp

\* What is nowhere less is not less in sum.
LEMMA BetweenLe ==
  ASSUME NEW N \in Nat, NEW f, Numbers(f, N), NEW g, Numbers(g, N),
         NEW a \in 0 .. N, NEW b \in 0 .. N, a <= b,
         \A k \in a .. b - 1 : f[k] <= g[k]
  PROVE  Between(f, a, b) <= Between(g, a, b)
  <1>1. /\ Between(f, a, a) = 0 /\ Between(g, a, a) = 0
        /\ \A n \in 0 .. N : Between(f, a, n) \in Int /\ Between(g, a, n) \in Int
        /\ \A n \in 0 .. N - 1 : /\ Between(f, a, n + 1) = Between(f, a, n) + f[n]
                                 /\ Between(g, a, n + 1) = Between(g, a, n) + g[n]
    BY BetweenIs DEF AddsUp
  <1> DEFINE G == {j \in 0 .. b - a : Between(f, a, a + j) <= Between(g, a, a + j)}
  <1>2. 0 \in G
    BY <1>1
  <1>3. ASSUME NEW j \in G, j < b - a PROVE j + 1 \in G
    <2>1. /\ a + j \in 0 .. N - 1 /\ a + j \in a .. b - 1 /\ a + (j + 1) = (a + j) + 1
          /\ a + j \in 0 .. N /\ a + (j + 1) \in 0 .. N /\ j + 1 \in 0 .. b - a
      BY <1>3
    <2>2. f[a + j] \in Int /\ g[a + j] \in Int /\ f[a + j] <= g[a + j]
      BY <2>1 DEF Numbers
    <2>3. Between(f, a, a + j) <= Between(g, a, a + j)
      OBVIOUS
    <2> QED BY <1>1, <2>1, <2>2, <2>3
  <1>4. b - a \in Nat /\ G \in SUBSET (0 .. b - a) /\ a + (b - a) = b
    OBVIOUS
  <1>5. b - a \in G
    <2> HIDE DEF G
    <2> QED BY <1>2, <1>3, <1>4, Climb
  <1> QED BY <1>4, <1>5

\* What is everywhere the same is the same in sum.
LEMMA BetweenSame ==
  ASSUME NEW N \in Nat, NEW f, Numbers(f, N), NEW g, Numbers(g, N),
         NEW a \in 0 .. N, NEW b \in 0 .. N, a <= b,
         \A k \in a .. b - 1 : f[k] = g[k]
  PROVE  Between(f, a, b) = Between(g, a, b)
  <1>1. \A k \in a .. b - 1 : f[k] <= g[k] /\ g[k] <= f[k]
    <2>1. \A k \in a .. b - 1 : k \in 0 .. N - 1
      OBVIOUS
    <2> QED BY <2>1 DEF Numbers
  <1>2. Between(f, a, b) <= Between(g, a, b) /\ Between(g, a, b) <= Between(f, a, b)
    BY <1>1, BetweenLe
  <1>3. Between(f, a, b) \in Int /\ Between(g, a, b) \in Int
    BY BetweenIs DEF AddsUp
  <1> QED BY <1>2, <1>3

\* The same for whole sums.
LEMMA TotalLe ==
  ASSUME NEW N \in Nat, NEW f, Numbers(f, N), NEW g, Numbers(g, N)
  PROVE  /\ Total(f, N) \in Int /\ Total(f, N) = Between(f, 0, N)
         /\ (\A k \in 0 .. N - 1 : f[k] <= g[k]) => Total(f, N) <= Total(g, N)
         /\ (\A k \in 0 .. N - 1 : f[k] = g[k]) => Total(f, N) = Total(g, N)
  <1>1. 0 \in 0 .. N /\ N \in 0 .. N /\ 0 <= N
    OBVIOUS
  <1>2. Total(f, 0) = 0 /\ Total(g, 0) = 0 /\ Total(f, N) \in Int /\ Total(g, N) \in Int
    BY <1>1, TotalIs DEF Numbers
  <1>3. Total(f, N) = Between(f, 0, N) /\ Total(g, N) = Between(g, 0, N)
    BY <1>2 DEF Between
  <1>4. ASSUME \A k \in 0 .. N - 1 : f[k] <= g[k] PROVE Total(f, N) <= Total(g, N)
    BY <1>1, <1>3, <1>4, BetweenLe
  <1>5. ASSUME \A k \in 0 .. N - 1 : f[k] = g[k] PROVE Total(f, N) = Total(g, N)
    BY <1>1, <1>3, <1>5, BetweenSame
  <1> QED BY <1>2, <1>3, <1>4, <1>5

\* From a on, n numbers of g are larger than those of f by q, and the first m
\* by one more.
Spread(f, g, a, n, q, m) ==
  \A j \in 0 .. n - 1 : g[a + j] = f[a + j] + q + (IF j < m THEN 1 ELSE 0)

\* Numbers that are all larger by q, and the first m by one more, are together
\* larger by n * q + m.
LEMMA SpreadIs ==
  ASSUME NEW N \in Nat, NEW f, Numbers(f, N), NEW g, Numbers(g, N),
         NEW a \in 0 .. N, NEW n \in Nat, a + n <= N, NEW q \in Nat, NEW m \in 0 .. n,
         Spread(f, g, a, n, q, m),
         NEW b, b = a + n, NEW s \in Int, s - n * q = m
  PROVE  Between(g, a, b) = Between(f, a, b) + s
  <1>0. AddsUp(f, N, a) /\ AddsUp(g, N, a)
    BY BetweenIs
  <1>1. /\ Between(f, a, a) = 0 /\ Between(g, a, a) = 0
        /\ \A k \in 0 .. N : Between(f, a, k) \in Int /\ Between(g, a, k) \in Int
        /\ \A k \in 0 .. N - 1 : /\ Between(f, a, k + 1) = Between(f, a, k) + f[k]
                                 /\ Between(g, a, k + 1) = Between(g, a, k) + g[k]
    BY <1>0 DEF AddsUp
  <1> DEFINE low(j) == IF j < m THEN j ELSE m
             G == {j \in 0 .. n : Between(g, a, a + j) = Between(f, a, a + j) + j * q + low(j)}
  <1>2. 0 \in G
    <2>1. 0 * q = 0 /\ low(0) = 0 /\ a + 0 = a
      OBVIOUS
    <2> HIDE DEF low
    <2> QED BY <1>1, <2>1
  <1>3. ASSUME NEW j \in G, j < n PROVE j + 1 \in G
    <2>1. /\ a + j \in 0 .. N - 1 /\ a + (j + 1) = (a + j) + 1 /\ j \in 0 .. n - 1
          /\ a + j \in 0 .. N /\ a + (j + 1) \in 0 .. N /\ j + 1 \in 0 .. n
      BY <1>3
    <2>2. f[a + j] \in Int /\ g[a + j] = f[a + j] + q + (IF j < m THEN 1 ELSE 0)
      BY <2>1 DEF Numbers, Spread
    <2>3. low(j + 1) = low(j) + (IF j < m THEN 1 ELSE 0) /\ low(j) \in Int
      BY <2>1
    <2>4. (j + 1) * q = j * q + q /\ j * q \in Int
      BY <2>1
    <2>5. Between(g, a, a + j) = Between(f, a, a + j) + j * q + low(j)
      OBVIOUS
    <2> HIDE DEF low
    <2> DEFINE d == IF j < m THEN 1 ELSE 0
               x == j * q   y == low(j)  F == Between(f, a, a + j)  fj == f[a + j]
    <2>6. d \in Int /\ x \in Int /\ y \in Int /\ F \in Int /\ fj \in Int
      BY <1>1, <2>1, <2>2, <2>3, <2>4
    <2>7. Between(g, a, a + (j + 1)) = F + x + y + (fj + q + d)
      BY <1>1, <2>1, <2>2, <2>5
    <2>8. Between(f, a, a + (j + 1)) = F + fj
      BY <1>1, <2>1
    <2>9. low(j + 1) = y + d /\ (j + 1) * q = x + q
      BY <2>3, <2>4
    <2> DEFINE A == Between(g, a, a + (j + 1))  B == Between(f, a, a + (j + 1))
               C == (j + 1) * q  D == low(j + 1)
    <2>10. A = F + x + y + (fj + q + d) /\ B = F + fj /\ D = y + d /\ C = x + q
      BY <2>7, <2>8, <2>9
    <2> HIDE DEF d, x, y, F, fj, A, B, C, D
    <2>11. A = B + C + D
      BY <2>6, <2>10
    <2> QED BY <2>1, <2>11 DEF A, B, C, D
  <1>4. G \in SUBSET (0 .. n) /\ low(n) = m
    OBVIOUS
  <1>5. n \in G
    <2> HIDE DEF G
    <2> QED BY <1>2, <1>3, <1>4, Climb
  <1> HIDE DEF low
  <1>6. Between(g, a, a + n) = Between(f, a, a + n) + n * q + m
    BY <1>4, <1>5
  <1> DEFINE x == n * q  F == Between(f, a, a + n)
  <1>7. x \in Int /\ F \in Int
    BY <1>1
  <1>8. Between(g, a, b) = F + x + m /\ s = x + m /\ F = Between(f, a, b)
    BY <1>6
  <1> HIDE DEF x, F
  <1> QED BY <1>7, <1>8

-----------------------------------------------------------------------------
(* Cells *)

CellRec == [type : CellType, lines : Seq(Nat)]

\* The types of the variables but the buffer and what was printed.
Typed ==
  /\ rows \in Seq(Seq(CellRec))
  /\ IsCont(cell_properties) /\ DOMAIN cell_properties \subseteq Places
  /\ IsDefaults(defaults)
  /\ border_style \in BorderStyles
  /\ margins \in Nat \X Nat \X Nat \X Nat

\* Rows and columns.
LEMMA TableIs ==
  ASSUME Typed
  PROVE  /\ NRows \in Nat /\ NCols \in Nat
         /\ \A r \in 0 .. NRows - 1 : RowSize(r) \in Nat /\ RowSize(r) <= NCols
         /\ \A r \in 0 .. NRows - 1, c \in Nat :
              /\ Present(r, c) => Cell(r, c) \in CellRec /\ Type(r, c) = Cell(r, c).type
              /\ Type(r, c) \in CellType
  <1>1. NRows \in Nat
    BY LenProperties DEF Typed, NRows
  <1>2. \A r \in 0 .. NRows - 1 : rows[r + 1] \in Seq(CellRec)
    <2>1. \A r \in 0 .. NRows - 1 : r + 1 \in 1 .. Len(rows)
      BY <1>1 DEF NRows
    <2> QED BY <2>1, ElementOfSeq DEF Typed
  <1>3. \A r \in 0 .. NRows - 1 : RowSize(r) \in Nat
    BY <1>2, LenProperties DEF RowSize
  <1>4. NCols \in Nat /\ \A r \in 0 .. NRows - 1 : RowSize(r) <= NCols
    <2> DEFINE A == 0 .. NRows - 1
               h == [r \in A |-> RowSize(r)]
    <2>1. IsFiniteSet(A)
      BY <1>1, FS_Interval
    <2>2. \A r \in A : h[r] = RowSize(r) /\ h[r] \in Nat
      BY <1>3
    <2>3. {RowSize(r) : r \in A} = {h[r] : r \in A}
      BY <2>2
    <2>4. NCols = Max({0} \cup {h[r] : r \in A})
      BY <2>3 DEF NCols
    <2> HIDE DEF A, h
    <2>5. NCols \in Nat /\ \A r \in A : h[r] <= NCols
      BY <2>1, <2>2, <2>4, MaxImage DEF IsTop
    <2> QED BY <2>2, <2>5 DEF A
  <1>5. ASSUME NEW r \in 0 .. NRows - 1, NEW c \in Nat
        PROVE  /\ Present(r, c) => Cell(r, c) \in CellRec /\ Type(r, c) = Cell(r, c).type
               /\ Type(r, c) \in CellType
    <2>1. Present(r, c) => c + 1 \in 1 .. Len(rows[r + 1])
      BY <1>3 DEF Present, RowSize
    <2>2. Present(r, c) => Cell(r, c) \in CellRec
      BY <1>2, <2>1, ElementOfSeq DEF Cell
    <2> QED BY <2>2 DEF Type, CellRec, CellType
  <1> QED BY <1>1, <1>3, <1>4, <1>5

\* The cells of a table are finitely many.
LEMMA CellsAre ==
  ASSUME Typed
  PROVE  /\ IsFiniteSet(CellPos)
         /\ \A p \in CellPos : /\ p[1] \in 0 .. NRows - 1 /\ p[2] \in 0 .. NCols - 1
                               /\ Present(p[1], p[2]) /\ p = <<p[1], p[2]>>
         /\ \A r \in 0 .. NRows - 1, c \in 0 .. NCols - 1 : Present(r, c) => <<r, c>> \in CellPos
  <1> DEFINE R == 0 .. NRows - 1  C == 0 .. NCols - 1
  <1>1. IsFiniteSet(R) /\ IsFiniteSet(C)
    <2>1. 0 \in Int /\ NRows - 1 \in Int /\ NCols - 1 \in Int
      BY TableIs
    <2> QED BY <2>1, FS_Interval
  <1>2. CellPos = {p \in R \X C : Present(p[1], p[2])}
    BY DEF CellPos
  <1> HIDE DEF R, C
  <1>3. IsFiniteSet(R \X C)
    BY <1>1, FS_Product
  <1>4. IsFiniteSet(CellPos)
    BY <1>2, <1>3, FS_Subset
  <1>5. \A p \in CellPos : p[1] \in R /\ p[2] \in C /\ Present(p[1], p[2]) /\ p = <<p[1], p[2]>>
    BY <1>2
  <1>6. \A r \in R, c \in C : Present(r, c) => <<r, c>> \in CellPos
    BY <1>2
  <1> QED BY <1>4, <1>5, <1>6 DEF R, C

\* The values of a cell's properties.
LEMMA PropIs ==
  ASSUME Typed, NEW r, NEW c
  PROVE  /\ \A p \in Counts \cup Colours : Prop(r, c, p) \in Nat
         /\ \A p \in TStyles : IsFiniteSet(Prop(r, c, p))
BY LookupTyped DEF Typed, Prop

\* The larger of two numbers.
LEMMA MaxOfTwo ==
  ASSUME NEW a \in Nat, NEW b \in Nat
  PROVE  Max({a, b}) \in Nat /\ a <= Max({a, b}) /\ b <= Max({a, b}) /\ Max({a, b}) \in {a, b}
  <1>1. {b} \in SUBSET Nat /\ IsFiniteSet({b}) /\ {a, b} = {a} \cup {b}
    BY FS_Singleton
  <1> QED BY <1>1, MaxFinite

\* How wide a cell is.
LEMMA VisIs ==
  ASSUME Typed, NEW p \in CellPos
  PROVE  cell_vis_width(p[1], p[2]) \in Nat
  <1> DEFINE r == p[1]  c == p[2]  text == Cell(r, c).lines
             wide == Max({0} \cup Range(text))
             pads == Prop(r, c, "LEFT_PADDING") + Prop(r, c, "RIGHT_PADDING") + wide
             min  == Prop(r, c, "MIN_WIDTH")
  <1>1. text \in Seq(Nat)
    <2>1. r \in 0 .. NRows - 1 /\ c \in Nat /\ Present(r, c)
      BY CellsAre, TableIs
    <2> QED BY <2>1, TableIs DEF CellRec
  <1>2. wide \in Nat
    <2>1. DOMAIN text = 1 .. Len(text) /\ Len(text) \in Nat
      BY <1>1, LenProperties
    <2>2. \A x \in DOMAIN text : text[x] \in Nat
      BY <1>1, <2>1, ElementOfSeq
    <2>4. IsFiniteSet(DOMAIN text)
      <3> HIDE DEF text
      <3> QED BY <2>1, FS_Interval
    <2>3. Range(text) = {text[x] : x \in DOMAIN text}
      BY DEF Range
    <2> HIDE DEF text
    <2> QED BY <2>2, <2>3, <2>4, MaxImage DEF IsTop
  <1>3. pads \in Nat /\ min \in Nat
    <2>1. /\ Prop(r, c, "LEFT_PADDING") \in Nat /\ Prop(r, c, "RIGHT_PADDING") \in Nat
          /\ Prop(r, c, "MIN_WIDTH") \in Nat
      BY PropIs DEF Counts
    <2> HIDE DEF wide
    <2> QED BY <1>2, <2>1
  <1>4. cell_vis_width(r, c) = Max({pads, min})
    BY DEF cell_vis_width
  <1> HIDE DEF pads, min
  <1>5. Max({pads, min}) \in Nat
    BY <1>3, MaxOfTwo
  <1> QED BY <1>4, <1>5

\* How many bytes its tags take.
LEMMA TagsAre ==
  ASSUME Typed, NEW r, NEW c
  PROVE  cell_invis_codes_width(r, c) \in Nat
  <1>1. /\ Prop(r, c, "CELL_BG_COLOR") \in Nat /\ Prop(r, c, "CONT_FG_COLOR") \in Nat
        /\ Prop(r, c, "CONT_BG_COLOR") \in Nat
    BY PropIs DEF Colours
  <1>2. /\ Cardinality(Prop(r, c, "CELL_TEXT_STYLE")) \in Nat
        /\ Cardinality(Prop(r, c, "CONT_TEXT_STYLE")) \in Nat
    BY PropIs, FS_CardinalityType DEF TStyles
  <1>3. CellTag(r, c) \in Nat /\ ContentTag(r, c) \in Nat
    BY <1>1, <1>2 DEF CellTag, ContentTag, StyleTag, FgTag, BgTag
  <1> QED BY <1>3 DEF cell_invis_codes_width

\* How high a cell is, or its place if it is missing.
LEMMA HighIs ==
  ASSUME Typed, NEW r \in 0 .. NRows - 1, NEW c \in Nat
  PROVE  hint_height_cell(r, c) \in Nat
  <1>1. /\ Prop(r, c, "TOP_PADDING") \in Nat /\ Prop(r, c, "BOTTOM_PADDING") \in Nat
        /\ Prop(r, c, "EMPTY_STR_HEIGHT") \in Nat
    BY PropIs DEF Counts
  <1>2. Present(r, c) => Len(Cell(r, c).lines) \in Nat
    BY TableIs, LenProperties DEF CellRec
  <1> QED BY <1>1, <1>2 DEF hint_height_cell

\* How high a row is.
LEMMA RowHeightIs ==
  ASSUME Typed, NEW r \in 0 .. NRows - 1
  PROVE  RowHeight(r) \in Nat
  <1> DEFINE A == 0 .. NCols - 1
             h == [c \in A |-> hint_height_cell(r, c)]
  <1>1. IsFiniteSet(A)
    BY TableIs, FS_Interval
  <1>2. \A c \in A : h[c] = hint_height_cell(r, c) /\ h[c] \in Nat
    BY HighIs
  <1>3. {hint_height_cell(r, c) : c \in A} = {h[c] : c \in A}
    BY <1>2
  <1>4. RowHeight(r) = Max({0} \cup {h[c] : c \in A})
    BY <1>3 DEF RowHeight
  <1> HIDE DEF A, h
  <1> QED BY <1>1, <1>2, <1>4, MaxImage DEF IsTop

-----------------------------------------------------------------------------
(* Widths *)

\* A width for every column.
Widths == [0 .. NCols - 1 -> Nat]

\* The tags of the cell at p, where they count.
Tags(p, intern) == IF intern THEN cell_invis_codes_width(p[1], p[2]) ELSE 0

\* A column is wide enough for its common cells, and if tags count for the tags of
\* all its cells besides; without tags it makes no difference whether they count.
LEMMA BaseIs ==
  ASSUME Typed, NEW c \in 0 .. NCols - 1
  PROVE  /\ BaseWidth(c, TRUE) \in Nat /\ BaseWidth(c, FALSE) \in Nat
         /\ \A p \in CellPos : p[2] = c =>
              /\ Cell(p[1], c).type = "COMMON" => cell_vis_width(p[1], c) <= BaseWidth(c, FALSE)
              /\ BaseWidth(c, FALSE) + cell_invis_codes_width(p[1], c) <= BaseWidth(c, TRUE)
         /\ BaseWidth(c, FALSE) <= BaseWidth(c, TRUE)
         /\ ~Tagged => BaseWidth(c, TRUE) = BaseWidth(c, FALSE)
  <1> DEFINE A == {q \in Column(c) : Cell(q[1], c).type = "COMMON"}
             B == Column(c)
             f == [p \in A |-> cell_vis_width(p[1], c)]
             g == [p \in B |-> cell_invis_codes_width(p[1], c)]
             wide == Max({0} \cup {cell_vis_width(p[1], c) : p \in A})
             tags == Max({0} \cup {cell_invis_codes_width(p[1], c) : p \in B})
  <1>1. /\ BaseWidth(c, FALSE) = wide + 0 /\ BaseWidth(c, TRUE) = wide + tags
    BY DEF BaseWidth
  <1>2. B = {p \in CellPos : p[2] = c}
    BY DEF Column
  <1>3. IsFiniteSet(A) /\ IsFiniteSet(B)
    <2>1. A \subseteq CellPos /\ B \subseteq CellPos
      BY <1>2
    <2> HIDE DEF A, B
    <2> QED BY <2>1, CellsAre, FS_Subset
  <1>4. \A p \in A : f[p] = cell_vis_width(p[1], c) /\ f[p] \in Nat
    BY <1>2, VisIs
  <1>5. \A p \in B : g[p] = cell_invis_codes_width(p[1], c) /\ g[p] \in Nat
    BY TagsAre
  <1>6. \A p \in CellPos : p[2] = c =>
          p \in B /\ (Cell(p[1], c).type = "COMMON" => p \in A)
    BY <1>2
  <1> HIDE DEF A, B, f, g
  <1>7. wide = Max({0} \cup {f[p] : p \in A}) /\ tags = Max({0} \cup {g[p] : p \in B})
    <2>1. {cell_vis_width(p[1], c) : p \in A} = {f[p] : p \in A}
      BY <1>4
    <2>2. {cell_invis_codes_width(p[1], c) : p \in B} = {g[p] : p \in B}
      BY <1>5
    <2> QED BY <2>1, <2>2
  <1> HIDE DEF wide, tags
  <1>8. wide \in Nat /\ \A p \in A : f[p] <= wide
    BY <1>3, <1>4, <1>7, MaxImage DEF IsTop
  <1>9. tags \in Nat /\ (\A p \in B : g[p] <= tags) /\ (tags = 0 \/ \E p \in B : g[p] = tags)
    <2>1. \A p \in B : g[p] \in Nat
      BY <1>5
    <2>2. IsTop(tags, B, g, 0)
      BY <1>3, <1>7, <2>1, MaxImage
    <2> QED BY <2>2 DEF IsTop
  <1>10. ASSUME NEW p \in CellPos, p[2] = c
         PROVE  /\ Cell(p[1], c).type = "COMMON" => cell_vis_width(p[1], c) <= wide
                /\ cell_invis_codes_width(p[1], c) <= tags
                /\ cell_invis_codes_width(p[1], c) \in Nat
    BY <1>4, <1>5, <1>6, <1>8, <1>9, <1>10
  <1>11. ~Tagged => tags = 0
    <2> SUFFICES ASSUME ~Tagged, NEW p \in B, g[p] = tags PROVE tags = 0
      BY <1>9
    <2>1. p \in CellPos /\ p[2] = c
      BY <1>2
    <2> DEFINE z == cell_invis_codes_width(p[1], p[2])
    <2>2. ~(z > 0)
      BY <2>1 DEF Tagged
    <2>3. g[p] = z /\ z \in Nat
      BY <1>5, <2>1
    <2> HIDE DEF z
    <2> QED BY <2>2, <2>3
  <1>12. BaseWidth(c, FALSE) = wide /\ BaseWidth(c, TRUE) = wide + tags
    <2>1. wide + 0 = wide
      BY <1>8
    <2> QED BY <1>1, <2>1, Zenon
  <1>13. ASSUME NEW p \in CellPos, p[2] = c
         PROVE  /\ Cell(p[1], c).type = "COMMON" => cell_vis_width(p[1], c) <= BaseWidth(c, FALSE)
                /\ BaseWidth(c, FALSE) + cell_invis_codes_width(p[1], c) <= BaseWidth(c, TRUE)
    <2> DEFINE z == cell_invis_codes_width(p[1], c)
    <2>1. z <= tags /\ z \in Nat
      BY <1>10, <1>13
    <2> HIDE DEF z
    <2>2. wide + z <= wide + tags
      BY <1>8, <1>9, <2>1
    <2> QED BY <1>10, <1>12, <1>13, <2>2 DEF z
  <1>14. wide + tags \in Nat /\ wide <= wide + tags /\ (tags = 0 => wide + tags = wide)
    BY <1>8, <1>9
  <1> QED BY <1>8, <1>11, <1>12, <1>13, <1>14

\* A group ends within its row, and only slaves are in it behind its first cell.
LEMMA GroupIs ==
  ASSUME Typed, NEW r \in 0 .. NRows - 1, NEW c \in 0 .. NCols - 1
  PROVE  LET n == group_cell_number(r, c) IN
         /\ n \in Nat /\ n >= 1 /\ c + n <= NCols
         /\ Type(r, c) # "MASTER" => n = 1
         /\ \A k \in c + 1 .. c + n - 1 : Type(r, k) = "SLAVE"
  <1> DEFINE n == group_cell_number(r, c)
  <1>0. NCols \in Nat /\ c \in Nat /\ RowSize(r) \in Nat /\ RowSize(r) <= NCols
    BY TableIs
  <1>1. CASE Type(r, c) # "MASTER"
    <2>1. n = 1
      BY <1>1 DEF group_cell_number
    <2> HIDE DEF n
    <2>2. c + n <= NCols /\ c + 1 .. c + n - 1 = {}
      BY <1>0, <2>1
    <2> QED BY <1>1, <2>1, <2>2 DEF n
  <1>2. CASE Type(r, c) = "MASTER"
    <2> DEFINE S == {m \in 1 .. RowSize(r) - c : \A k \in c + 1 .. c + m - 1 : Type(r, k) = "SLAVE"}
    <2>1. n = Max(S)
      BY <1>2 DEF group_cell_number
    <2>2. c < RowSize(r)
      BY <1>2 DEF Type, Present
    <2>3. 1 \in S
      BY <1>0, <2>2
    <2>4. S \in SUBSET Nat /\ RowSize(r) - c \in Nat /\ \A m \in S : m <= RowSize(r) - c
      BY <1>0, <2>2
    <2>5. n \in S
      <3> HIDE DEF S, n
      <3> QED BY <2>1, <2>3, <2>4, MaxBounded
    <2>6. /\ n \in Nat /\ n >= 1 /\ n <= RowSize(r) - c
          /\ \A k \in c + 1 .. c + n - 1 : Type(r, k) = "SLAVE"
      BY <1>0, <2>2, <2>5
    <2> HIDE DEF n
    <2> QED BY <1>0, <1>2, <2>6 DEF n
  <1> QED BY <1>1, <1>2

\* The columns of a group, and so its width, are numbers.
LEMMA GroupWidthIs ==
  ASSUME Typed, NEW w \in Widths, NEW r \in 0 .. NRows - 1, NEW c \in 0 .. NCols - 1
  PROVE  LET n == group_cell_number(r, c) IN
         /\ Numbers(w, NCols)
         /\ GroupWidth(w, r, c) = Between(w, c, c + n) + n - 1
         /\ Between(w, c, c + n) \in Nat
         /\ GroupWidth(w, r, c) \in Nat
         /\ n = 1 => GroupWidth(w, r, c) = w[c]
  <1> DEFINE n == group_cell_number(r, c)
             zero == [k \in 0 .. NCols - 1 |-> 0]
             x == Between(w, c, c + n)
  <1>0. NCols \in Nat /\ c \in 0 .. NCols /\ c \in Nat
    BY TableIs
  <1>1. n \in Nat /\ n >= 1 /\ c + n <= NCols
    BY GroupIs
  <1>2. GroupWidth(w, r, c) = x + n - 1
    BY DEF GroupWidth
  <1> HIDE DEF n
  <1>3. Numbers(w, NCols) /\ Numbers(zero, NCols)
    BY DEF Widths, Numbers
  <1>4. c + n \in 0 .. NCols /\ c <= c + n
    BY <1>0, <1>1
  <1>5. AddsUp(w, NCols, c) /\ AddsUp(zero, NCols, c)
    BY <1>0, <1>3, BetweenIs
  <1>6. \A k \in c .. c + n - 1 : zero[k] <= w[k]
    <2>1. \A k \in c .. c + n - 1 : k \in 0 .. NCols - 1
      BY <1>0, <1>1
    <2> QED BY <2>1 DEF Widths
  <1>7. Between(zero, c, c + n) <= x
    <2> SUFFICES ASSUME NEW d, d = c + n PROVE Between(zero, c, d) <= Between(w, c, d)
      OBVIOUS
    <2>1. d \in 0 .. NCols /\ c <= d
      BY <1>4
    <2>2. d - 1 = c + n - 1
      BY <1>0, <1>1
    <2> HIDE DEF zero
    <2>3. \A k \in c .. d - 1 : zero[k] <= w[k]
      BY <1>6, <2>2
    <2> QED BY <1>0, <1>3, <2>1, <2>3, BetweenLe
  <1>8. Between(zero, c, c + n) = 0
    <2> DEFINE G == {j \in 0 .. n : Between(zero, c, c + j) = 0}
    <2>1. n \in Nat /\ n \in 0 .. n
      BY <1>1
    <2>2. 0 \in G
      BY <1>0, <1>1, <1>5 DEF AddsUp
    <2>3. ASSUME NEW j \in G, j < n PROVE j + 1 \in G
      <3>1. /\ c + j \in 0 .. NCols - 1 /\ c + (j + 1) = (c + j) + 1
            /\ j + 1 \in 0 .. n
        BY <1>0, <1>1, <2>3
      <3>2. Between(zero, c, (c + j) + 1) = Between(zero, c, c + j) + zero[c + j]
        BY <1>5, <3>1 DEF AddsUp
      <3> QED BY <3>1, <3>2
    <2>4. G \in SUBSET (0 .. n)
      OBVIOUS
    <2>5. G = 0 .. n
      <3> HIDE DEF G, zero, x
      <3> QED BY <2>1, <2>2, <2>3, <2>4, Climb
    <2> QED BY <2>1, <2>5
  <1>9. x \in Nat
    <2>1. x \in Int
      BY <1>4, <1>5 DEF AddsUp
    <2> HIDE DEF x
    <2> QED BY <1>7, <1>8, <2>1
  <1>10. n = 1 => x = w[c]
    BY <1>0, <1>4, <1>5 DEF AddsUp, Widths
  <1> HIDE DEF x
  <1>11. x + n - 1 \in Nat /\ (n = 1 => x + n - 1 = w[c])
    BY <1>1, <1>9, <1>10, <1>0 DEF Widths
  <1> QED BY <1>2, <1>3, <1>9, <1>11 DEF n, x

\* Widths v are nowhere less than w.
Above(v, w) == \A k \in 0 .. NCols - 1 : w[k] <= v[k]

\* Wider columns make wider groups.
LEMMA GroupAbove ==
  ASSUME Typed, NEW w \in Widths, NEW v \in Widths, Above(v, w),
         NEW r \in 0 .. NRows - 1, NEW c \in 0 .. NCols - 1,
         NEW n, n = group_cell_number(r, c)
  PROVE  /\ Between(w, c, c + n) <= Between(v, c, c + n)
         /\ GroupWidth(w, r, c) <= GroupWidth(v, r, c)
  <1>1. NCols \in Nat /\ c \in 0 .. NCols /\ c \in Nat
    BY TableIs
  <1>2. n \in Nat /\ n >= 1 /\ c + n <= NCols
    BY GroupIs
  <1>3. Numbers(w, NCols) /\ Numbers(v, NCols)
    BY DEF Widths, Numbers
  <1>4. Between(w, c, c + n) <= Between(v, c, c + n)
    <2> SUFFICES ASSUME NEW d, d = c + n PROVE Between(w, c, d) <= Between(v, c, d)
      OBVIOUS
    <2>1. d \in 0 .. NCols /\ c <= d
      BY <1>1, <1>2
    <2>2. \A k \in c .. d - 1 : w[k] <= v[k]
      <3>1. \A k \in c .. d - 1 : k \in 0 .. NCols - 1
        BY <1>1, <2>1
      <3> QED BY <3>1 DEF Above
    <2> QED BY <1>1, <1>3, <2>1, <2>2, BetweenLe
  <1>5. /\ GroupWidth(w, r, c) = Between(w, c, c + n) + n - 1 /\ Between(w, c, c + n) \in Nat
        /\ GroupWidth(v, r, c) = Between(v, c, c + n) + n - 1 /\ Between(v, c, c + n) \in Nat
    BY GroupWidthIs
  <1>6. GroupWidth(w, r, c) <= GroupWidth(v, r, c)
    <2> DEFINE x == Between(w, c, c + n)  y == Between(v, c, c + n)
    <2>1. x \in Nat /\ y \in Nat /\ x <= y
      BY <1>4, <1>5
    <2>2. GroupWidth(w, r, c) = x + n - 1 /\ GroupWidth(v, r, c) = y + n - 1
      BY <1>5
    <2> HIDE DEF x, y
    <2> QED BY <1>2, <2>1, <2>2
  <1> QED BY <1>4, <1>6

\* Zero or more.
LEMMA MaxWithZero ==
  ASSUME NEW x \in Int
  PROVE  Max({0, x}) \in Nat /\ x <= Max({0, x})
  <1>1. \E y \in {0, x} : \A z \in {0, x} : y >= z
    <2>1. CASE x >= 0
      BY <2>1
    <2>2. CASE ~(x >= 0)
      BY <2>2
    <2> QED BY <2>1, <2>2
  <1>2. Max({0, x}) \in {0, x} /\ \A z \in {0, x} : Max({0, x}) >= z
    BY <1>1 DEF Max
  <1> QED BY <1>2

\* A remainder is shared out in full.
LEMMA DivIs ==
  ASSUME NEW x \in Nat, NEW n \in Nat, n >= 1, NEW q, q = x \div n, NEW m, m = x % n
  PROVE  q \in Nat /\ m \in 0 .. n - 1 /\ x - n * q = m
  <1>1. x \div n \in Nat /\ x % n \in 0 .. n - 1
    OBVIOUS
  <1>2. x - n * (x \div n) = x % n
    OBVIOUS
  <1> QED BY <1>1, <1>2

\* What a cell and its tags need.
Hint(r, c, intern) ==
  cell_vis_width(r, c) + (IF intern THEN cell_invis_codes_width(r, c) ELSE 0)

\* That is a number; without tags it does not matter whether they count.
LEMMA HintIs ==
  ASSUME Typed, NEW r \in 0 .. NRows - 1, NEW c \in 0 .. NCols - 1, Present(r, c),
         NEW intern \in BOOLEAN
  PROVE  /\ Hint(r, c, intern) \in Nat
         /\ cell_vis_width(r, c) <= Hint(r, c, intern)
         /\ ~Tagged => Hint(r, c, TRUE) = Hint(r, c, FALSE)
  <1> DEFINE p == <<r, c>>  x == cell_vis_width(r, c)  y == cell_invis_codes_width(r, c)
  <1>1. p \in CellPos /\ p[1] = r /\ p[2] = c
    BY CellsAre
  <1>2. x \in Nat /\ y \in Nat
    <2>1. cell_vis_width(p[1], p[2]) \in Nat
      BY <1>1, VisIs
    <2> QED BY <1>1, <2>1, TagsAre
  <1>3. ~Tagged => ~(y > 0)
    BY <1>1 DEF Tagged
  <1>4. /\ Hint(r, c, intern) = x + (IF intern THEN y ELSE 0)
        /\ Hint(r, c, TRUE) = x + y /\ Hint(r, c, FALSE) = x + 0
    BY DEF Hint
  <1> HIDE DEF x, y
  <1>5. x + (IF intern THEN y ELSE 0) \in Nat /\ x <= x + (IF intern THEN y ELSE 0)
    BY <1>2
  <1>6. ~Tagged => x + y = x + 0
    BY <1>2, <1>3
  <1> QED BY <1>4, <1>5, <1>6 DEF x

\* Widening a group takes nothing from any column, and makes the group as wide
\* as its master needs.
LEMMA WidenIs ==
  ASSUME Typed, NEW w \in Widths, NEW r \in 0 .. NRows - 1, NEW c \in 0 .. NCols - 1,
         Present(r, c), NEW intern \in BOOLEAN, NEW v, v = Widen(w, r, c, intern)
  PROVE  /\ v \in Widths /\ Above(v, w)
         /\ Hint(r, c, intern) <= GroupWidth(v, r, c)
  <1> DEFINE n == group_cell_number(r, c)
             hint == Hint(r, c, intern)
             lack == Max({0, hint - GroupWidth(w, r, c)})
             q == lack \div n
             m == lack % n
  <1>1. NCols \in Nat /\ c \in 0 .. NCols /\ c \in Nat
    BY TableIs
  <1>2. n \in Nat /\ n >= 1 /\ c + n <= NCols
    BY GroupIs
  <1>3. hint \in Nat
    BY HintIs
  <1>4. /\ GroupWidth(w, r, c) = Between(w, c, c + n) + n - 1
        /\ Between(w, c, c + n) \in Nat /\ GroupWidth(w, r, c) \in Nat
    BY GroupWidthIs
  <1>5. DOMAIN w = 0 .. NCols - 1 /\ \A k \in 0 .. NCols - 1 : w[k] \in Nat
    BY DEF Widths
  <1>6. v = [k \in DOMAIN w |-> IF k \in c .. c + n - 1
                                THEN w[k] + lack \div n + (IF k - c < lack % n THEN 1 ELSE 0)
                                ELSE w[k]]
    BY DEF Widen, Hint
  <1> HIDE DEF n, hint
  <1>7. lack \in Nat /\ hint - GroupWidth(w, r, c) <= lack
    <2> DEFINE x == hint - GroupWidth(w, r, c)
    <2>1. x \in Int
      BY <1>3, <1>4
    <2>2. lack = Max({0, x})
      OBVIOUS
    <2> HIDE DEF x, lack
    <2>3. lack \in Nat /\ x <= lack
      BY <2>1, <2>2, MaxWithZero
    <2> QED BY <2>3 DEF x
  <1> HIDE DEF lack
  <1>8. v = [k \in 0 .. NCols - 1 |-> IF k \in c .. c + n - 1
                                      THEN w[k] + q + (IF k - c < m THEN 1 ELSE 0)
                                      ELSE w[k]]
    BY <1>5, <1>6
  <1>8a. q = lack \div n /\ m = lack % n
    OBVIOUS
  <1> HIDE DEF q, m
  <1>8b. q \in Nat /\ m \in 0 .. n - 1 /\ lack - n * q = m
    BY <1>2, <1>7, <1>8a, DivIs
  <1>9. m \in 0 .. n
    BY <1>2, <1>8b
  <1>10. \A k \in 0 .. NCols - 1 : v[k] \in Nat /\ w[k] <= v[k]
    BY <1>5, <1>8, <1>8b, <1>9
  <1>11. v \in Widths /\ Above(v, w)
    BY <1>8, <1>10 DEF Widths, Above
  <1>12. Spread(w, v, c, n, q, m)
    <2>1. \A j \in 0 .. n - 1 : c + j \in 0 .. NCols - 1 /\ c + j \in c .. c + n - 1
                                /\ (c + j) - c = j
      BY <1>1, <1>2
    <2> QED BY <1>8, <2>1 DEF Spread
  <1>13. Numbers(w, NCols) /\ Numbers(v, NCols)
    BY <1>5, <1>10 DEF Numbers
  <1>14. Between(v, c, c + n) = Between(w, c, c + n) + lack
    <2> DEFINE b == c + n
    <2>1. b = c + n
      OBVIOUS
    <2> HIDE DEF b
    <2>2. Between(v, c, b) = Between(w, c, b) + lack
      BY <1>1, <1>2, <1>7, <1>8b, <1>9, <1>12, <1>13, <2>1, SpreadIs
    <2> QED BY <2>2 DEF b
  <1>15. GroupWidth(v, r, c) = Between(v, c, c + n) + n - 1
    BY <1>11, GroupWidthIs DEF n
  <1> DEFINE x == Between(w, c, c + n)  g == GroupWidth(w, r, c)
             y == GroupWidth(v, r, c)
  <1>16. y = x + lack + n - 1 /\ g = x + n - 1 /\ x \in Nat /\ hint - g <= lack
    BY <1>4, <1>7, <1>14, <1>15
  <1> HIDE DEF x, g, y
  <1>17. hint <= y
    BY <1>2, <1>3, <1>7, <1>16
  <1> QED BY <1>11, <1>17 DEF y, hint

\* A master is a cell of the table.
LEMMA MasterIs ==
  ASSUME Typed, NEW r \in 0 .. NRows - 1, NEW c \in 0 .. NCols - 1, Type(r, c) = "MASTER"
  PROVE  Present(r, c) /\ <<r, c>> \in CellPos /\ Cell(r, c).type = "MASTER" /\ Grouped
  <1>1. Present(r, c)
    BY DEF Type
  <1>2. <<r, c>> \in CellPos /\ Cell(r, c).type = "MASTER"
    BY <1>1, CellsAre DEF Type
  <1> QED BY <1>1, <1>2 DEF Grouped

\* What a column's masters make of the widths, one after the other.
ColumnRun(F, w, c, intern) ==
  /\ F \in [0 .. NRows -> Widths] /\ F[0] = w
  /\ \A r \in 0 .. NRows - 1 :
       F[r + 1] = IF Type(r, c) = "MASTER" THEN Widen(F[r], r, c, intern) ELSE F[r]

\* That is what WidenColumn computes.
LEMMA ColumnRuns ==
  ASSUME Typed, NEW w \in Widths, NEW c \in 0 .. NCols - 1, NEW intern \in BOOLEAN
  PROVE  \E F : ColumnRun(F, w, c, intern) /\ WidenColumn(w, c, intern) = F[NRows]
  <1> DEFINE N == NRows
             V == Widths
             next(u, r) == IF Type(r, c) = "MASTER" THEN Widen(u, r, c, intern) ELSE u
             step == [p \in (1 .. N) \X V |-> next(p[2], p[1] - 1)]
             Is(E) == E = [r \in 0 .. N |-> IF r = 0 THEN w ELSE next(E[r - 1], r - 1)]
             P == CHOOSE E : Is(E)
  <1>1. N \in Nat
    BY TableIs
  <1>2. \A u \in V, r \in 0 .. N - 1 : next(u, r) \in V
    BY WidenIs, MasterIs
  <1>3. WidenColumn(w, c, intern) = P[N]
    <2>1. WidenColumn(w, c, intern)
          = (CHOOSE E : E = [r \in 0 .. N |->
               IF r = 0 THEN w
               ELSE IF Type(r - 1, c) = "MASTER" THEN Widen(E[r - 1], r - 1, c, intern)
               ELSE E[r - 1]])[N]
      BY DEF WidenColumn
    <2> QED BY <2>1
  <1> HIDE DEF N, P, next, V
  <1>4. /\ step \in [(1 .. N) \X V -> V]
        /\ \A i \in 1 .. N, u \in V : step[<<i, u>>] = next(u, i - 1)
    <2>1. \A i \in 1 .. N : i - 1 \in 0 .. N - 1
      BY <1>1
    <2> QED BY <1>2, <2>1
  <1> HIDE DEF step
  <1>5. w \in V
    BY DEF V
  <1>6. PICK F : Recurs(N, V, w, step, F)
    BY <1>1, <1>4, <1>5, Recursion
  <1>7. \A i \in 1 .. N : i - 1 \in 0 .. N /\ i \in 0 .. N /\ i # 0
    BY <1>1
  <1>8. /\ F \in [0 .. N -> V] /\ F[0] = w
        /\ \A i \in 1 .. N : F[i] = next(F[i - 1], i - 1)
    BY <1>4, <1>6, <1>7 DEF Recurs
  <1>9. Is(F)
    <2>1. F = [k \in 0 .. N |-> F[k]]
      BY <1>8
    <2>2. \A k \in 0 .. N : k # 0 => k \in 1 .. N
      BY <1>1
    <2>3. \A k \in 0 .. N : F[k] = IF k = 0 THEN w ELSE next(F[k - 1], k - 1)
      BY <1>8, <2>1, <2>2
    <2> QED BY <2>1, <2>3
  <1>10. Is(P)
    <2> HIDE DEF Is
    <2> QED BY <1>9 DEF P
  <1>11. P[0] = w /\ \A i \in 1 .. N : P[i] = next(P[i - 1], i - 1)
    <2>1. 0 \in 0 .. N
      BY <1>1
    <2> QED BY <1>7, <1>10, <2>1
  <1> HIDE DEF Is
  <1> DEFINE G == {k \in 0 .. N : P[k] = F[k]}
  <1>12. 0 \in G
    BY <1>1, <1>8, <1>11
  <1>13. ASSUME NEW k \in G, k < N PROVE k + 1 \in G
    <2>1. k + 1 \in 1 .. N /\ k + 1 \in 0 .. N /\ k + 1 - 1 = k /\ P[k] = F[k]
      BY <1>1, <1>13
    <2> QED BY <1>8, <1>11, <2>1
  <1>14. N \in G
    <2>1. G \in SUBSET (0 .. N)
      OBVIOUS
    <2> HIDE DEF G
    <2> QED BY <1>1, <1>12, <1>13, <2>1, Climb
  <1>15. \A r \in 0 .. N - 1 : F[r + 1] = next(F[r], r)
    <2>1. \A r \in 0 .. N - 1 : r + 1 \in 1 .. N /\ r + 1 - 1 = r
      BY <1>1
    <2> QED BY <1>8, <2>1
  <1>16. ColumnRun(F, w, c, intern)
    BY <1>8, <1>15 DEF ColumnRun, next, N, V
  <1> QED BY <1>3, <1>14, <1>16 DEF N

\* Every master of the column gets what it needs, and nothing is taken from any
\* column.
LEMMA WidenColumnIs ==
  ASSUME Typed, NEW w \in Widths, NEW c \in 0 .. NCols - 1, NEW intern \in BOOLEAN,
         NEW v, v = WidenColumn(w, c, intern)
  PROVE  /\ v \in Widths /\ Above(v, w)
         /\ \A r \in 0 .. NRows - 1 :
              Type(r, c) = "MASTER" => Hint(r, c, intern) <= GroupWidth(v, r, c)
         /\ ~Grouped => v = w
  <1>1. PICK F : ColumnRun(F, w, c, intern) /\ v = F[NRows]
    BY ColumnRuns
  <1> DEFINE Good(k) ==
        /\ Above(F[k], w)
        /\ \A r \in 0 .. k - 1 :
             Type(r, c) = "MASTER" => Hint(r, c, intern) <= GroupWidth(F[k], r, c)
        /\ ~Grouped => F[k] = w
             G == {k \in 0 .. NRows : Good(k)}
  <1>2. NRows \in Nat /\ NCols \in Nat
    BY TableIs
  <1>3. \A k \in 0 .. NRows : F[k] \in Widths
    BY <1>1 DEF ColumnRun
  <1>4. 0 \in G
    <2>1. F[0] = w /\ Above(w, w)
      BY <1>1 DEF ColumnRun, Above, Widths
    <2> QED BY <1>2, <2>1
  <1>5. ASSUME NEW k \in G, k < NRows PROVE k + 1 \in G
    <2>1. k \in 0 .. NRows - 1 /\ k + 1 \in 0 .. NRows /\ k \in 0 .. NRows /\ Good(k)
          /\ \A r \in 0 .. (k + 1) - 1 : r \in 0 .. k - 1 \/ r = k
      BY <1>2, <1>5
    <2> DEFINE u == F[k]  x == F[k + 1]
    <2>2. u \in Widths /\ x \in Widths
      BY <1>3, <2>1
    <2>3. x = IF Type(k, c) = "MASTER" THEN Widen(u, k, c, intern) ELSE u
      BY <1>1, <2>1 DEF ColumnRun
    <2> HIDE DEF u, x
    <2>4. Above(x, u) /\ (Type(k, c) = "MASTER" => Hint(k, c, intern) <= GroupWidth(x, k, c))
      <3>1. CASE Type(k, c) = "MASTER"
        BY <2>1, <2>2, <2>3, <3>1, WidenIs, MasterIs
      <3>2. CASE Type(k, c) # "MASTER"
        BY <2>2, <2>3, <3>2 DEF Above, Widths
      <3> QED BY <3>1, <3>2
    <2>5. Above(x, w)
      <3>1. Above(u, w)
        BY <2>1 DEF u
      <3> QED BY <2>2, <2>4, <3>1 DEF Above, Widths
    <2>6. ASSUME NEW r \in 0 .. k - 1, Type(r, c) = "MASTER"
          PROVE  Hint(r, c, intern) <= GroupWidth(x, r, c)
      <3>0. r \in 0 .. NRows - 1
        BY <1>2, <2>1
      <3>1. r \in 0 .. NRows - 1 /\ Present(r, c)
        BY <2>6, <3>0, MasterIs
      <3> DEFINE h == Hint(r, c, intern)  gu == GroupWidth(u, r, c)  gx == GroupWidth(x, r, c)
      <3>2. h <= gu
        BY <2>1, <2>6 DEF u
      <3>3. gu <= gx
        BY <2>2, <2>4, <3>1, GroupAbove
      <3>4. h \in Nat /\ gu \in Nat /\ gx \in Nat
        BY <2>2, <3>1, HintIs, GroupWidthIs
      <3> HIDE DEF h, gu, gx
      <3>5. h <= gx
        BY <3>2, <3>3, <3>4
      <3> QED BY <3>5 DEF h, gx
    <2>7. ~Grouped => x = w
      <3>1. ~Grouped => u = w
        BY <2>1 DEF u
      <3> QED BY <2>1, <2>3, <3>1, MasterIs
    <2>8. Good(k + 1)
      BY <2>1, <2>4, <2>5, <2>6, <2>7 DEF x
    <2> HIDE DEF Good
    <2> QED BY <2>1, <2>8
  <1>6. NRows \in G
    <2>1. G \in SUBSET (0 .. NRows)
      OBVIOUS
    <2> HIDE DEF G
    <2> QED BY <1>2, <1>4, <1>5, <2>1, Climb
  <1>7. Good(NRows)
    BY <1>6
  <1> QED BY <1>1, <1>2, <1>3, <1>7

\* What is needed without groups.
Base(intern) == [k \in 0 .. NCols - 1 |-> BaseWidth(k, intern)]

\* What the columns with masters make of it, one after the other.
TableRun(F, intern) ==
  /\ F \in [0 .. NCols -> Widths] /\ F[0] = Base(intern)
  /\ \A c \in 0 .. NCols - 1 : F[c + 1] = WidenColumn(F[c], c, intern)

\* That is what ColWidths computes.
LEMMA TableRuns ==
  ASSUME Typed, NEW intern \in BOOLEAN
  PROVE  \E F : TableRun(F, intern) /\ ColWidths(intern) = F[NCols]
  <1> DEFINE N == NCols
             V == Widths
             w == Base(intern)
             next(u, c) == WidenColumn(u, c, intern)
             step == [p \in (1 .. N) \X V |-> next(p[2], p[1] - 1)]
             Is(E) == E = [c \in 0 .. N |-> IF c = 0 THEN w ELSE next(E[c - 1], c - 1)]
             P == CHOOSE E : Is(E)
  <1>1. N \in Nat
    BY TableIs
  <1>2. \A u \in V, c \in 0 .. N - 1 : next(u, c) \in V
    BY WidenColumnIs
  <1>3. ColWidths(intern) = P[N]
    BY DEF ColWidths, Base
  <1>5. w \in V
    <2>1. \A k \in 0 .. NCols - 1 : BaseWidth(k, intern) \in Nat
      BY BaseIs
    <2> QED BY <2>1 DEF Base, Widths
  <1> HIDE DEF N, P, next, V, w
  <1>4. /\ step \in [(1 .. N) \X V -> V]
        /\ \A i \in 1 .. N, u \in V : step[<<i, u>>] = next(u, i - 1)
    <2>1. \A i \in 1 .. N : i - 1 \in 0 .. N - 1
      BY <1>1
    <2> QED BY <1>2, <2>1
  <1> HIDE DEF step
  <1>6. PICK F : Recurs(N, V, w, step, F)
    BY <1>1, <1>4, <1>5, Recursion
  <1>7. \A i \in 1 .. N : i - 1 \in 0 .. N /\ i \in 0 .. N /\ i # 0
    BY <1>1
  <1>8. /\ F \in [0 .. N -> V] /\ F[0] = w
        /\ \A i \in 1 .. N : F[i] = next(F[i - 1], i - 1)
    BY <1>4, <1>6, <1>7 DEF Recurs
  <1>9. Is(F)
    <2>1. F = [k \in 0 .. N |-> F[k]]
      BY <1>8
    <2>2. \A k \in 0 .. N : k # 0 => k \in 1 .. N
      BY <1>1
    <2>3. \A k \in 0 .. N : F[k] = IF k = 0 THEN w ELSE next(F[k - 1], k - 1)
      BY <1>8, <2>1, <2>2
    <2> QED BY <2>1, <2>3
  <1>10. Is(P)
    <2> HIDE DEF Is
    <2> QED BY <1>9 DEF P
  <1>11. P[0] = w /\ \A i \in 1 .. N : P[i] = next(P[i - 1], i - 1)
    <2>1. 0 \in 0 .. N
      BY <1>1
    <2> QED BY <1>7, <1>10, <2>1
  <1> HIDE DEF Is
  <1> DEFINE G == {k \in 0 .. N : P[k] = F[k]}
  <1>12. 0 \in G
    BY <1>1, <1>8, <1>11
  <1>13. ASSUME NEW k \in G, k < N PROVE k + 1 \in G
    <2>1. k + 1 \in 1 .. N /\ k + 1 \in 0 .. N /\ k + 1 - 1 = k /\ P[k] = F[k]
      BY <1>1, <1>13
    <2> QED BY <1>8, <1>11, <2>1
  <1>14. N \in G
    <2>1. G \in SUBSET (0 .. N)
      OBVIOUS
    <2> HIDE DEF G
    <2> QED BY <1>1, <1>12, <1>13, <2>1, Climb
  <1>15. \A c \in 0 .. N - 1 : F[c + 1] = next(F[c], c)
    <2>1. \A c \in 0 .. N - 1 : c + 1 \in 1 .. N /\ c + 1 - 1 = c
      BY <1>1
    <2> QED BY <1>8, <2>1
  <1>16. TableRun(F, intern)
    BY <1>8, <1>15 DEF TableRun, next, N, V, w
  <1> QED BY <1>3, <1>14, <1>16 DEF N

\* In the end every master has what it needs, and every column what it needs
\* without groups; which is all, if there are no groups.
LEMMA ColWidthsIs ==
  ASSUME Typed, NEW intern \in BOOLEAN, NEW v, v = ColWidths(intern)
  PROVE  /\ v \in Widths /\ Above(v, Base(intern))
         /\ \A r \in 0 .. NRows - 1, c \in 0 .. NCols - 1 :
              Type(r, c) = "MASTER" => Hint(r, c, intern) <= GroupWidth(v, r, c)
         /\ ~Grouped => v = Base(intern)
  <1> DEFINE w == Base(intern)
  <1>1. PICK F : TableRun(F, intern) /\ v = F[NCols]
    BY TableRuns
  <1> DEFINE Fed(u, r, c) == Type(r, c) = "MASTER" => Hint(r, c, intern) <= GroupWidth(u, r, c)
             Good(k) ==
        /\ Above(F[k], w)
        /\ \A r \in 0 .. NRows - 1, c \in 0 .. k - 1 : Fed(F[k], r, c)
        /\ ~Grouped => F[k] = w
             G == {k \in 0 .. NCols : Good(k)}
  <1>2. NRows \in Nat /\ NCols \in Nat
    BY TableIs
  <1>3. \A k \in 0 .. NCols : F[k] \in Widths
    BY <1>1 DEF TableRun
  <1>4. 0 \in G
    <2>0. F[0] = w /\ w \in Widths
      BY <1>1, <1>2, <1>3 DEF TableRun
    <2> HIDE DEF w
    <2>1. Above(w, w)
      BY <2>0 DEF Above, Widths
    <2> HIDE DEF Fed
    <2> QED BY <1>2, <2>0, <2>1
  <1>5. ASSUME NEW k \in G, k < NCols PROVE k + 1 \in G
    <2>1. k \in 0 .. NCols - 1 /\ k + 1 \in 0 .. NCols /\ k \in 0 .. NCols /\ Good(k)
          /\ \A c \in 0 .. (k + 1) - 1 : c \in 0 .. k - 1 \/ c = k
      BY <1>2, <1>5
    <2> DEFINE u == F[k]  x == F[k + 1]
    <2>2. u \in Widths /\ x \in Widths
      BY <1>3, <2>1
    <2>3. x = WidenColumn(u, k, intern)
      BY <1>1, <2>1 DEF TableRun
    <2>4. Above(u, w) /\ (~Grouped => u = w)
          /\ \A r \in 0 .. NRows - 1, c \in 0 .. k - 1 : Fed(u, r, c)
      BY <2>1
    <2> HIDE DEF u, x, w
    <2>5. Above(x, u) /\ (~Grouped => x = u)
          /\ \A r \in 0 .. NRows - 1 : Fed(x, r, k)
      BY <2>1, <2>2, <2>3, WidenColumnIs
    <2>6. Above(x, w)
      <3>1. w \in Widths
        BY <1>1, <1>2, <1>3 DEF w, TableRun
      <3> QED BY <2>2, <2>4, <2>5, <3>1 DEF Above, Widths
    <2>7. ASSUME NEW r \in 0 .. NRows - 1, NEW c \in 0 .. k - 1, Type(r, c) = "MASTER"
          PROVE  Hint(r, c, intern) <= GroupWidth(x, r, c)
      <3>1. c \in 0 .. NCols - 1
        BY <1>2, <2>1
      <3>2. Present(r, c)
        BY <2>7, <3>1, MasterIs
      <3> DEFINE h == Hint(r, c, intern)  gu == GroupWidth(u, r, c)  gx == GroupWidth(x, r, c)
      <3>3. h <= gu
        BY <2>4, <2>7
      <3>4. gu <= gx
        BY <2>2, <2>5, <3>1, GroupAbove
      <3>5. h \in Nat /\ gu \in Nat /\ gx \in Nat
        BY <2>2, <3>1, <3>2, HintIs, GroupWidthIs
      <3> HIDE DEF h, gu, gx
      <3>6. h <= gx
        BY <3>3, <3>4, <3>5
      <3> QED BY <3>6 DEF h, gx
    <2>8. \A r \in 0 .. NRows - 1, c \in 0 .. (k + 1) - 1 : Fed(x, r, c)
      BY <2>1, <2>5, <2>7
    <2>9. Good(k + 1)
      <3> HIDE DEF Fed
      <3> QED BY <2>4, <2>5, <2>6, <2>8 DEF x
    <2> HIDE DEF Good
    <2> QED BY <2>1, <2>9
  <1>6. NCols \in G
    <2>1. G \in SUBSET (0 .. NCols)
      OBVIOUS
    <2> HIDE DEF G
    <2> QED BY <1>2, <1>4, <1>5, <2>1, Climb
  <1>7. Good(NCols)
    BY <1>6
  <1>8. v \in Widths
    BY <1>1, <1>2, <1>3
  <1>9. Above(v, w) /\ (~Grouped => v = w)
        /\ \A r \in 0 .. NRows - 1, c \in 0 .. NCols - 1 : Fed(v, r, c)
    <2> HIDE DEF w, Fed
    <2> QED BY <1>1, <1>7
  <1> QED BY <1>8, <1>9

\* Without tags it makes no difference for a group whether they count.
LEMMA WidenSame ==
  ASSUME Typed, ~Tagged, NEW w \in Widths, NEW r \in 0 .. NRows - 1,
         NEW c \in 0 .. NCols - 1, Present(r, c)
  PROVE  Widen(w, r, c, TRUE) = Widen(w, r, c, FALSE)
  <1>1. Hint(r, c, TRUE) = Hint(r, c, FALSE)
    BY HintIs
  <1> DEFINE w2(h) ==
        LET n    == group_cell_number(r, c)
            lack == Max({0, h - GroupWidth(w, r, c)})
        IN  [k \in DOMAIN w |->
               IF k \in c .. c + n - 1
               THEN w[k] + lack \div n + (IF k - c < lack % n THEN 1 ELSE 0)
               ELSE w[k]]
  <1>2. /\ Widen(w, r, c, TRUE) = w2(Hint(r, c, TRUE))
        /\ Widen(w, r, c, FALSE) = w2(Hint(r, c, FALSE))
    BY DEF Widen, Hint
  <1> HIDE DEF w2
  <1> QED BY <1>1, <1>2

\* Nor for a column, nor for the table.
LEMMA WidthsSame ==
  ASSUME Typed, ~Tagged
  PROVE  ColWidths(TRUE) = ColWidths(FALSE)
  <1>1. NRows \in Nat /\ NCols \in Nat
    BY TableIs
  <1>2. ASSUME NEW w \in Widths, NEW c \in 0 .. NCols - 1
        PROVE  WidenColumn(w, c, TRUE) = WidenColumn(w, c, FALSE)
    <2>1. PICK F : ColumnRun(F, w, c, TRUE) /\ WidenColumn(w, c, TRUE) = F[NRows]
      BY ColumnRuns
    <2>2. PICK H : ColumnRun(H, w, c, FALSE) /\ WidenColumn(w, c, FALSE) = H[NRows]
      BY ColumnRuns
    <2> DEFINE G == {k \in 0 .. NRows : F[k] = H[k]}
    <2>3. 0 \in G
      BY <1>1, <2>1, <2>2 DEF ColumnRun
    <2>4. ASSUME NEW k \in G, k < NRows PROVE k + 1 \in G
      <3>1. k \in 0 .. NRows - 1 /\ k + 1 \in 0 .. NRows /\ k \in 0 .. NRows /\ F[k] = H[k]
        BY <1>1, <2>4
      <3> DEFINE u == F[k]
      <3>2. u \in Widths
        BY <2>1, <3>1 DEF ColumnRun
      <3>3. F[k + 1] = IF Type(k, c) = "MASTER" THEN Widen(u, k, c, TRUE) ELSE u
        BY <2>1, <3>1 DEF ColumnRun
      <3>4. H[k + 1] = IF Type(k, c) = "MASTER" THEN Widen(u, k, c, FALSE) ELSE u
        BY <2>2, <3>1 DEF ColumnRun
      <3> HIDE DEF u
      <3>5. Type(k, c) = "MASTER" => Widen(u, k, c, TRUE) = Widen(u, k, c, FALSE)
        BY <3>1, <3>2, WidenSame, MasterIs
      <3> QED BY <3>1, <3>3, <3>4, <3>5
    <2>5. NRows \in G
      <3>1. G \in SUBSET (0 .. NRows)
        OBVIOUS
      <3> HIDE DEF G
      <3> QED BY <1>1, <2>3, <2>4, <3>1, Climb
    <2> QED BY <2>1, <2>2, <2>5
  <1>3. PICK F : TableRun(F, TRUE) /\ ColWidths(TRUE) = F[NCols]
    BY TableRuns
  <1>4. PICK H : TableRun(H, FALSE) /\ ColWidths(FALSE) = H[NCols]
    BY TableRuns
  <1> DEFINE G == {k \in 0 .. NCols : F[k] = H[k]}
  <1>5. 0 \in G
    <2>1. \A k \in 0 .. NCols - 1 : BaseWidth(k, TRUE) = BaseWidth(k, FALSE)
      BY BaseIs
    <2>2. Base(TRUE) = Base(FALSE)
      BY <2>1 DEF Base
    <2>3. F[0] = Base(TRUE) /\ H[0] = Base(FALSE)
      BY <1>3, <1>4 DEF TableRun
    <2>4. F[0] = H[0]
      BY <2>2, <2>3, Zenon
    <2> QED BY <1>1, <2>4
  <1>6. ASSUME NEW k \in G, k < NCols PROVE k + 1 \in G
    <2>1. k \in 0 .. NCols - 1 /\ k + 1 \in 0 .. NCols /\ k \in 0 .. NCols /\ F[k] = H[k]
      BY <1>1, <1>6
    <2>2. /\ F[k] \in Widths /\ F[k + 1] = WidenColumn(F[k], k, TRUE)
          /\ H[k + 1] = WidenColumn(H[k], k, FALSE)
      BY <1>3, <1>4, <2>1 DEF TableRun
    <2>3. WidenColumn(F[k], k, TRUE) = WidenColumn(F[k], k, FALSE)
      BY <1>2, <2>1, <2>2
    <2> QED BY <2>1, <2>2, <2>3
  <1>7. NCols \in G
    <2>1. G \in SUBSET (0 .. NCols)
      OBVIOUS
    <2> HIDE DEF G
    <2> QED BY <1>1, <1>5, <1>6, <2>1, Climb
  <1> QED BY <1>3, <1>4, <1>7

-----------------------------------------------------------------------------
(* Rows *)

\* For every printed cell what X has for its columns.
Tiles(X, r) ==
  [c \in 0 .. NCols - 1 |-> IF c \in Printed(r)
                            THEN Between(X, c, c + group_cell_number(r, c)) ELSE 0]

\* The printed cells of a row cover each column once.
LEMMA TilesCover ==
  ASSUME Typed, NEW r \in 0 .. NRows - 1, NEW X, Numbers(X, NCols)
  PROVE  Numbers(Tiles(X, r), NCols) /\ Total(Tiles(X, r), NCols) = Total(X, NCols)
  <1> DEFINE N == NCols
             n(c) == group_cell_number(r, c)
             Y == Tiles(X, r)
             Reached(k, e) ==
               /\ Total(Y, k) = Total(X, e)
               /\ \A c \in k .. e - 1 : c \notin Printed(r)
               /\ e < N => e \in Printed(r)
             G == {k \in 0 .. N : \E e \in k .. N : Reached(k, e)}
  <1>1. N \in Nat
    BY TableIs
  <1>2. \A c \in 0 .. N - 1 : n(c) \in Nat /\ n(c) >= 1 /\ c + n(c) <= N
    BY GroupIs
  <1>3. \A c \in 0 .. N - 1 : Type(r, c) # "MASTER" => n(c) = 1
    BY GroupIs
  <1>4. \A c \in 0 .. N - 1 : \A k \in c + 1 .. c + n(c) - 1 : Type(r, k) = "SLAVE"
    BY GroupIs
  <1>5. \A c \in 0 .. N - 1 :
          c \in Printed(r) <=> ~\E m \in 0 .. c - 1 : Type(r, m) = "MASTER" /\ m + n(m) > c
    BY DEF Printed
  <1>6. \A c \in 0 .. N - 1 : Y[c] = IF c \in Printed(r) THEN Between(X, c, c + n(c)) ELSE 0
    BY DEF Tiles
  <1> HIDE DEF N, n, Y
  <1>7. Numbers(X, N)
    BY DEF N
  <1>8. Numbers(Y, N)
    <2> SUFFICES ASSUME NEW c \in 0 .. N - 1 PROVE Y[c] \in Int
      BY DEF Numbers
    <2> DEFINE d == c + n(c)
    <2>1. c \in 0 .. N /\ d \in 0 .. N
      BY <1>1, <1>2
    <2> HIDE DEF d
    <2>2. Between(X, c, d) \in Int
      BY <1>1, <1>7, <2>1, BetweenIs DEF AddsUp
    <2> QED BY <1>6, <2>2 DEF d
  <1>9. /\ Total(X, 0) = 0 /\ Total(Y, 0) = 0
        /\ \A k \in 0 .. N : Total(X, k) \in Int /\ Total(Y, k) \in Int
        /\ \A k \in 0 .. N - 1 : Total(Y, k + 1) = Total(Y, k) + Y[k]
    BY <1>1, <1>7, <1>8, TotalIs DEF Numbers
  <1>10. 0 \in G
    <2>1. 0 < N => 0 \in Printed(r)
      BY <1>1, <1>5
    <2>2. Reached(0, 0) /\ 0 \in 0 .. N
      BY <1>1, <1>9, <2>1
    <2> HIDE DEF Reached
    <2> QED BY <2>2
  <1>11. ASSUME NEW k \in G, k < N PROVE k + 1 \in G
    <2>1. /\ k \in 0 .. N - 1 /\ k \in 0 .. N /\ k + 1 \in 0 .. N
          /\ \E e \in k .. N : Reached(k, e)
      BY <1>1, <1>11
    <2>2. PICK e \in k .. N : Reached(k, e)
      BY <2>1
    <2>3. Total(Y, k + 1) = Total(Y, k) + Y[k]
      BY <1>9, <2>1
    <2>4. CASE e # k
      <3>1. e \in k + 1 .. N /\ k \in k .. e - 1 /\ \A c \in k + 1 .. e - 1 : c \in k .. e - 1
        BY <1>1, <2>1, <2>4
      <3>2. Y[k] = 0
        BY <1>6, <2>1, <2>2, <3>1
      <3>3. Total(Y, k + 1) = Total(X, e)
        BY <1>9, <2>1, <2>2, <2>3, <3>2
      <3>4. Reached(k + 1, e)
        BY <2>2, <3>1, <3>3
      <3> HIDE DEF Reached
      <3> QED BY <2>1, <3>1, <3>4
    <2>5. CASE e = k
      <3> DEFINE d == k + n(k)
      <3>1. k \in Printed(r)
        BY <1>1, <2>1, <2>2, <2>5
      <3>2. d \in k + 1 .. N /\ d \in 0 .. N /\ k \in Nat /\ N \in Nat
        BY <1>1, <1>2, <2>1
      <3>3. Y[k] = Between(X, k, d)
        BY <1>6, <2>1, <3>1
      <3>4. \A c \in k + 1 .. d - 1 : Type(r, c) = "SLAVE"
        <4>1. d - 1 = k + n(k) - 1
          BY <1>2, <2>1
        <4> HIDE DEF d
        <4> QED BY <1>4, <2>1, <4>1
      <3>5. \A c \in k + 1 .. d - 1 : c \notin Printed(r)
        <4> SUFFICES ASSUME NEW c \in k + 1 .. d - 1, c \in Printed(r) PROVE FALSE
          OBVIOUS
        <4>1. c \in 0 .. N - 1 /\ k \in 0 .. c - 1 /\ k + n(k) > c
          BY <1>2, <2>1, <3>2
        <4>2. Type(r, k) = "MASTER"
          <5>1. n(k) # 1
            BY <1>2, <2>1, <4>1
          <5> QED BY <1>3, <2>1, <5>1
        <4> QED BY <1>5, <4>1, <4>2
      <3>6. d < N => d \in Printed(r)
        <4> SUFFICES ASSUME d < N, NEW m \in 0 .. d - 1, Type(r, m) = "MASTER", m + n(m) > d
                     PROVE  FALSE
          <5>1. d < N => d \in 0 .. N - 1
            BY <3>2
          <5> HIDE DEF d
          <5> QED BY <1>5, <5>1
        <4>1. CASE m = k
          BY <1>2, <2>1, <4>1
        <4>2. CASE m > k
          <5>1. m \in k + 1 .. d - 1
            BY <3>2, <4>2
          <5> QED BY <3>4, <5>1
        <4>3. CASE m < k
          <5>1. m \in 0 .. k - 1 /\ m \in 0 .. N - 1
            BY <3>2, <4>3
          <5>2. n(m) \in Nat
            BY <1>2, <5>1
          <5>3. m + n(m) > k
            BY <3>2, <5>1, <5>2
          <5> QED BY <1>5, <2>1, <3>1, <5>1, <5>3
        <4>4. m \in Int /\ k \in Int
          BY <3>2
        <4> QED BY <4>1, <4>2, <4>3, <4>4
      <3> HIDE DEF d
      <3>7. Total(Y, k + 1) = Total(X, d)
        <4>1. Between(X, k, d) = Total(X, d) - Total(X, k)
          BY DEF Between
        <4>2. Total(Y, k) = Total(X, k)
          BY <2>2, <2>5
        <4>3. Total(X, d) \in Int /\ Total(X, k) \in Int
          BY <1>9, <2>1, <3>2
        <4> QED BY <2>3, <3>3, <4>1, <4>2, <4>3
      <3>8. Reached(k + 1, d)
        BY <3>5, <3>6, <3>7
      <3> HIDE DEF Reached
      <3> QED BY <2>1, <3>2, <3>8
    <2> QED BY <2>4, <2>5
  <1>12. N \in G
    <2>1. G \in SUBSET (0 .. N)
      OBVIOUS
    <2> HIDE DEF G
    <2> QED BY <1>1, <1>10, <1>11, <2>1, Climb
  <1>13. Total(Y, N) = Total(X, N)
    <2>1. PICK e \in N .. N : Reached(N, e)
      BY <1>12
    <2>2. e = N
      BY <1>1
    <2> QED BY <2>1, <2>2
  <1> QED BY <1>8, <1>13 DEF Y, N

-----------------------------------------------------------------------------
(* More about sums *)

\* Products grow with their factors.
LEMMA TimesLe ==
  ASSUME NEW a \in Nat, NEW b \in Nat, NEW c \in Nat, NEW d \in Nat, a <= b, c <= d
  PROVE  a * c \in Nat /\ b * d \in Nat /\ a * c <= b * d
  <1>1. a * c \in Nat /\ b * c \in Nat /\ b * d \in Nat
    OBVIOUS
  <1>2. a * c <= b * c
    OBVIOUS
  <1>3. b * c <= b * d
    OBVIOUS
  <1> DEFINE x == a * c  y == b * c  z == b * d
  <1>4. x \in Nat /\ y \in Nat /\ z \in Nat /\ x <= y /\ y <= z
    BY <1>1, <1>2, <1>3
  <1> HIDE DEF x, y, z
  <1>5. x <= z
    BY <1>4
  <1> QED BY <1>1, <1>5 DEF x, z

\* f is at most g times C.
AtMost(f, g, C, N) ==
  \A k \in 0 .. N - 1 : f[k] \in Nat /\ g[k] \in Nat /\ f[k] <= g[k] * C

\* So is the sum.
LEMMA ScaledLe ==
  ASSUME NEW N \in Nat, NEW f, NEW g, NEW C \in Nat, AtMost(f, g, C, N)
  PROVE  /\ Total(f, N) \in Nat /\ Total(g, N) \in Nat
         /\ Total(f, N) <= Total(g, N) * C
  <1>1. \A k \in 0 .. N - 1 : f[k] \in Nat /\ g[k] \in Nat /\ f[k] <= g[k] * C
    BY DEF AtMost
  <1>2. /\ Total(f, 0) = 0 /\ Total(g, 0) = 0
        /\ \A k \in 0 .. N - 1 : /\ Total(f, k + 1) = Total(f, k) + f[k]
                                 /\ Total(g, k + 1) = Total(g, k) + g[k]
    <2>1. \A k \in 0 .. N - 1 : f[k] \in Int /\ g[k] \in Int
      BY <1>1
    <2> QED BY <2>1, TotalIs
  <1> DEFINE Good(a, b) == a \in Nat /\ b \in Nat /\ a <= b * C
             G == {k \in 0 .. N : Good(Total(f, k), Total(g, k))}
  <1>3. 0 \in G
    <2>1. Good(0, 0)
      OBVIOUS
    <2> HIDE DEF Good
    <2> QED BY <1>2, <2>1
  <1>4. ASSUME NEW k \in G, k < N PROVE k + 1 \in G
    <2>1. k \in 0 .. N - 1 /\ k + 1 \in 0 .. N /\ Good(Total(f, k), Total(g, k))
      BY <1>4
    <2> DEFINE a == Total(f, k)  b == Total(g, k)  x == f[k]  y == g[k]
    <2>2. a \in Nat /\ b \in Nat /\ a <= b * C /\ x \in Nat /\ y \in Nat /\ x <= y * C
      BY <1>1, <2>1
    <2>3. Total(f, k + 1) = a + x /\ Total(g, k + 1) = b + y
      BY <1>2, <2>1
    <2> HIDE DEF a, b, x, y
    <2>4. (b + y) * C = b * C + y * C /\ b * C \in Nat /\ y * C \in Nat
      BY <2>2
    <2>5. Good(a + x, b + y)
      <3> DEFINE p == b * C  q == y * C  s == (b + y) * C
      <3>1. p \in Nat /\ q \in Nat /\ s = p + q /\ a <= p /\ x <= q
        BY <2>2, <2>4
      <3> HIDE DEF p, q, s
      <3>2. a + x <= s
        BY <2>2, <3>1
      <3> QED BY <2>2, <3>2 DEF s
    <2> HIDE DEF Good
    <2> QED BY <2>1, <2>3, <2>5
  <1>5. N \in G
    <2>1. G \in SUBSET (0 .. N)
      OBVIOUS
    <2> HIDE DEF G
    <2> QED BY <1>3, <1>4, <2>1, Climb
  <1> QED BY <1>5

\* n ones are n.
LEMMA OnesAre ==
  ASSUME NEW n \in Nat, NEW g, \A k \in 0 .. n - 1 : g[k] = 1
  PROVE  Total(g, n) = n
  <1>1. /\ Total(g, 0) = 0
        /\ \A k \in 0 .. n - 1 : Total(g, k + 1) = Total(g, k) + g[k]
    BY TotalIs
  <1> DEFINE G == {k \in 0 .. n : Total(g, k) = k}
  <1>2. 0 \in G
    BY <1>1
  <1>3. ASSUME NEW k \in G, k < n PROVE k + 1 \in G
    <2>1. k \in 0 .. n - 1 /\ k + 1 \in 0 .. n /\ Total(g, k) = k
      BY <1>3
    <2> QED BY <1>1, <2>1
  <1>4. n \in G
    <2>1. G \in SUBSET (0 .. n)
      OBVIOUS
    <2> HIDE DEF G
    <2> QED BY <1>2, <1>3, <2>1, Climb
  <1> QED BY <1>4

\* Columns with what is between them.
With(w, s) == [k \in 0 .. NCols - 1 |-> w[k] + (IF k + 1 < NCols THEN s ELSE 0)]

\* From c up to d there are so many pieces more.
MoreWith(w, s, c, d, more) == Between(With(w, s), c, d) = Between(w, c, d) + more * s

\* There is one piece less between all columns than there are columns.
LEMMA WithIs ==
  ASSUME Typed, NEW w \in Widths, NEW s \in Nat, NEW c \in 0 .. NCols - 1,
         NEW n \in Nat, n >= 1, NEW d, d = c + n, d <= NCols,
         NEW more, more = (IF d < NCols THEN n ELSE n - 1)
  PROVE  /\ Numbers(With(w, s), NCols)
         /\ more \in Nat
         /\ MoreWith(w, s, c, d, more)
  <1> USE DEF MoreWith
  <1> DEFINE N == NCols
             X == With(w, s)
             b == c + more
             x == more * s
  <1>1. N \in Nat /\ c \in 0 .. N /\ c \in Nat /\ d \in 0 .. N
    BY TableIs
  <1>2. more \in Nat /\ b \in 0 .. N /\ b <= d /\ more * s - more * s = 0 /\ more * s \in Int
    BY <1>1
  <1>3. \A k \in 0 .. N - 1 : w[k] \in Nat
    BY DEF Widths
  <1>4. \A k \in 0 .. N - 1 : X[k] = w[k] + (IF k + 1 < N THEN s ELSE 0)
    BY DEF With
  <1> HIDE DEF X, N
  <1>5. Numbers(w, N) /\ Numbers(X, N)
    BY <1>3, <1>4 DEF Numbers
  <1>6. Spread(w, X, c, more, s, 0)
    <2>1. \A j \in 0 .. more - 1 : c + j \in 0 .. N - 1 /\ (c + j) + 1 < N
      <3>1. more < n \/ d < N
        BY <1>1 DEF N
      <3> QED BY <1>1, <1>2, <3>1
    <2>2. \A j \in 0 .. more - 1 : X[c + j] = w[c + j] + s + 0
      BY <1>3, <1>4, <2>1
    <2>3. \A j \in 0 .. more - 1 : ~(j < 0)
      BY <1>2
    <2> QED BY <2>2, <2>3 DEF Spread
  <1>7. b = c + more /\ c + more <= N /\ 0 \in 0 .. more
    BY <1>1, <1>2
  <1> HIDE DEF b
  <1>8. Between(X, c, b) = Between(w, c, b) + x
    <2>1. x \in Int /\ x - more * s = 0
      BY <1>2
    <2> HIDE DEF x
    <2> QED BY <1>1, <1>2, <1>5, <1>6, <1>7, <2>1, SpreadIs
  <1>9. x \in Int /\ Between(w, c, b) \in Int
    BY <1>1, <1>2, <1>5, BetweenIs DEF AddsUp
  <1>10. CASE d < N
    <2>1. b = d
      BY <1>7, <1>10 DEF N
    <2> QED BY <1>2, <1>5, <1>8, <2>1 DEF X, N
  <1>11. CASE ~(d < N)
    <2>1. d = b + 1 /\ b \in 0 .. N - 1 /\ ~(b + 1 < N)
      BY <1>1, <1>7, <1>11 DEF N
    <2>2. X[b] = w[b] /\ w[b] \in Int
      BY <1>3, <1>4, <2>1
    <2>3. /\ Between(X, c, b + 1) = Between(X, c, b) + X[b]
          /\ Between(w, c, b + 1) = Between(w, c, b) + w[b]
      <3>1. AddsUp(X, N, c) /\ AddsUp(w, N, c)
        BY <1>1, <1>5, BetweenIs
      <3> QED BY <2>1, <3>1 DEF AddsUp
    <2> HIDE DEF x
    <2>4. Between(X, c, d) = Between(w, c, d) + x
      BY <1>8, <1>9, <2>1, <2>2, <2>3
    <2> QED BY <1>2, <1>5, <2>4 DEF X, N, x
  <1> QED BY <1>10, <1>11

-----------------------------------------------------------------------------
(* Printed lines *)

\* Four are finitely many.
LEMMA FourFinite ==
  ASSUME NEW a, NEW b, NEW c, NEW d
  PROVE  IsFiniteSet({a, b, c, d})
  <1>1. IsFiniteSet({a}) /\ IsFiniteSet({b}) /\ IsFiniteSet({c}) /\ IsFiniteSet({d})
    BY FS_Singleton
  <1>2. IsFiniteSet({a} \cup {b}) /\ IsFiniteSet({c} \cup {d})
    BY <1>1, FS_Union
  <1>3. IsFiniteSet(({a} \cup {b}) \cup ({c} \cup {d}))
    BY <1>2, FS_Union
  <1>4. ({a} \cup {b}) \cup ({c} \cup {d}) = {a, b, c, d}
    OBVIOUS
  <1> QED BY <1>3, <1>4

\* The bytes of the longest element.
Longest == max_border_elem_strlen(border_style)

\* The elements of the style.
Elements ==
  Range(border_style.border) \cup Range(border_style.header) \cup Range(border_style.separator)

\* No element is longer than the longest.
LEMMA ElementsAre ==
  ASSUME Typed
  PROVE  /\ Longest \in Nat /\ Longest >= 1
         /\ \A e \in Elements : e \in Nat /\ e <= Longest
         /\ \A x \in BorderItems : border_style.border[x] \in Elements
                                   /\ border_style.header[x] \in Elements
         /\ \A x \in SepItems : border_style.separator[x] \in Elements
  <1> DEFINE b == border_style.border  h == border_style.header  s == border_style.separator
             S == Elements
  <1>1. b \in [BorderItems -> Nat] /\ h \in [BorderItems -> Nat] /\ s \in [SepItems -> Nat]
    BY DEF Typed, BorderStyles
  <1>2. IsFiniteSet(BorderItems) /\ IsFiniteSet(SepItems)
    <2> DEFINE A == {"TL", "TT", "TV", "TR"}  B == {"LL", "IV", "RR", "BL"}
               C == {"BB", "BV", "BR", "LI"}  D == {"TI", "RI", "BI", "BI"}
               E == {"TI", "BI", "BI", "BI"}
    <2>1. IsFiniteSet(Inside)
      BY FourFinite DEF Inside
    <2>2. IsFiniteSet(A) /\ IsFiniteSet(B) /\ IsFiniteSet(C) /\ IsFiniteSet(D) /\ IsFiniteSet(E)
      BY FourFinite
    <2>3. BorderItems = Inside \cup ((A \cup B) \cup (C \cup D)) /\ SepItems = Inside \cup E
      BY DEF BorderItems, SepItems
    <2> HIDE DEF A, B, C, D, E
    <2>4. IsFiniteSet(A \cup B) /\ IsFiniteSet(C \cup D) /\ IsFiniteSet(Inside \cup E)
      BY <2>1, <2>2, FS_Union
    <2>5. IsFiniteSet((A \cup B) \cup (C \cup D))
      BY <2>4, FS_Union
    <2>6. IsFiniteSet(Inside \cup ((A \cup B) \cup (C \cup D)))
      BY <2>1, <2>5, FS_Union
    <2> QED BY <2>3, <2>4, <2>6
  <1> HIDE DEF b, h, s
  <1>3. /\ \A x \in BorderItems : b[x] \in Range(b) /\ b[x] \in Nat
        /\ \A x \in BorderItems : h[x] \in Range(h) /\ h[x] \in Nat
        /\ \A x \in SepItems : s[x] \in Range(s) /\ s[x] \in Nat
        /\ Range(b) = {b[x] : x \in BorderItems} /\ Range(h) = {h[x] : x \in BorderItems}
        /\ Range(s) = {s[x] : x \in SepItems}
    BY <1>1 DEF Range
  <1>4. S = Range(b) \cup Range(h) \cup Range(s)
    BY DEF Elements, b, h, s
  <1>5. IsFiniteSet(Range(b)) /\ IsFiniteSet(Range(h)) /\ IsFiniteSet(Range(s))
    BY <1>2, <1>3, ImageFinite
  <1>6. IsFiniteSet(S) /\ S \in SUBSET Nat
    <2>1. IsFiniteSet(Range(b) \cup Range(h))
      BY <1>5, FS_Union
    <2>2. IsFiniteSet((Range(b) \cup Range(h)) \cup Range(s))
      BY <1>5, <2>1, FS_Union
    <2> QED BY <1>3, <1>4, <2>2
  <1>7. {1} \cup Range(b) \cup Range(h) \cup Range(s) = {1} \cup S
    BY <1>4
  <1>8. Longest = Max({1} \cup S)
    BY <1>7 DEF Longest, max_border_elem_strlen, b, h, s
  <1> HIDE DEF S
  <1>9. Longest \in Nat /\ Longest >= 1 /\ \A e \in S : e <= Longest
    <2> DEFINE k == Max({1} \cup S)
    <2>1. k \in Nat /\ k >= 1 /\ \A e \in S : e <= k
      BY <1>6, MaxFinite
    <2> HIDE DEF k
    <2> QED BY <1>8, <2>1 DEF k
  <1>10. \A e \in S : e \in Nat /\ e <= Longest
    BY <1>6, <1>9
  <1>11. /\ \A x \in BorderItems : b[x] \in S /\ h[x] \in S
         /\ \A x \in SepItems : s[x] \in S
    BY <1>3, <1>4
  <1> QED BY <1>9, <1>10, <1>11 DEF S, b, h, s

\* So are those of rows and of the lines between them.
LEMMA SepCharsAre ==
  ASSUME Typed, NEW i, NEW ch, ch = SepChars(i)
  PROVE  /\ ch.L \in Elements /\ ch.I \in Elements /\ ch.IV \in Elements /\ ch.R \in Elements
         /\ ch.IT \in Elements /\ ch.IB \in Elements /\ ch.II \in Elements
         /\ ch.II = ch.I
  <1> DEFINE b == Chars4(Header(i) \/ Header(i - 1))  s == border_style.separator
  <1>1. \A x \in BorderItems : b[x] \in Elements
    BY ElementsAre DEF Chars4
  <1>2. \A x \in SepItems : s[x] \in Elements
    BY ElementsAre
  <1> DEFINE line(L, I, IV, R, IT, IB) == [L |-> b[L], I |-> b[I], IV |-> b[IV], R |-> b[R],
                                           IT |-> b[IT], IB |-> b[IB], II |-> b[I]]
             plain == IF i = 0 THEN line("TL", "TT", "TV", "TR", "TV", "TV")
                      ELSE IF i = NRows THEN line("BL", "BB", "BV", "BR", "BV", "BV")
                      ELSE line("LH", "IH", "II", "RH", "TI", "BI")
             inside == i \in 1 .. NRows - 1
             own == [L |-> IF inside THEN s["LH"] ELSE plain.L, I |-> s["IH"], IV |-> s["II"],
                     R |-> IF inside THEN s["RH"] ELSE plain.R,
                     IT |-> s["TI"], IB |-> s["BI"], II |-> s["IH"]]
  <1>3. ch = IF i \in separators THEN own ELSE plain
    BY Zenon DEF SepChars
  <1> HIDE DEF b, s, inside
  <1>4. /\ plain.L \in Elements /\ plain.I \in Elements /\ plain.IV \in Elements
        /\ plain.R \in Elements /\ plain.IT \in Elements /\ plain.IB \in Elements
        /\ plain.II = plain.I
    BY <1>1 DEF BorderItems, Inside
  <1> HIDE DEF plain
  <1>5. /\ own.L \in Elements /\ own.I \in Elements /\ own.IV \in Elements
        /\ own.R \in Elements /\ own.IT \in Elements /\ own.IB \in Elements
        /\ own.II = own.I
    BY <1>2, <1>4 DEF SepItems, Inside
  <1> HIDE DEF own
  <1> QED BY <1>3, <1>4, <1>5

\* An element takes a column on the screen, unless it is empty.
Seen(e) == IF e = 0 THEN 0 ELSE 1

\* What the elements of a row are.
LEMMA RowElements ==
  ASSUME Typed, NEW r, NEW b, b = Chars4(Header(r)), NEW x \in BorderItems
  PROVE  /\ b[x] \in Nat /\ b[x] <= Longest
         /\ Elem(b[x]).vis = Seen(b[x]) /\ Elem(b[x]).bytes = b[x]
BY ElementsAre DEF Chars4, Elem, Seen

\* The columns of a printed cell, and what is behind it.
RowPiece(r, w, c) ==
  [vis   |-> GroupWidth(w, r, c)
               + (IF c + group_cell_number(r, c) < NCols
                  THEN Seen(Chars4(Header(r))["IV"]) ELSE 0),
   bytes |-> GroupWidth(w, r, c)
               + (IF Present(r, c) THEN cell_invis_codes_width(r, c) ELSE 0)
               + (IF c + group_cell_number(r, c) < NCols THEN Chars4(Header(r))["IV"] ELSE 0)]

\* A line of a row is its printed cells, its ends and the margins.
LEMMA RowLineIs ==
  ASSUME Typed, NEW w, NEW r, NEW b, b = Chars4(Header(r)),
         NEW fv, fv = [c \in 0 .. NCols - 1 |-> IF c \in Printed(r) THEN RowPiece(r, w, c).vis ELSE 0],
         NEW fb, fb = [c \in 0 .. NCols - 1 |-> IF c \in Printed(r) THEN RowPiece(r, w, c).bytes ELSE 0]
  PROVE  /\ snprintf_row(r, w).vis = left + Seen(b["LL"]) + Total(fv, NCols) + Seen(b["RR"]) + right
         /\ snprintf_row(r, w).bytes = left + b["LL"] + Total(fb, NCols) + b["RR"] + right + 1
  <1> DEFINE cell(c) == [vis   |-> GroupWidth(w, r, c),
                         bytes |-> GroupWidth(w, r, c)
                              + (IF Present(r, c) THEN cell_invis_codes_width(r, c) ELSE 0)]
             piece(c) == Plus(cell(c), IF c + group_cell_number(r, c) < NCols
                                       THEN Elem(b["IV"]) ELSE Nothing)
             pieces == [c \in 0 .. NCols - 1 |-> IF c \in Printed(r) THEN piece(c) ELSE Nothing]
             pv == [c \in DOMAIN pieces |-> pieces[c].vis]
             pb == [c \in DOMAIN pieces |-> pieces[c].bytes]
  <1>1. snprintf_row(r, w) = FullLine(Elem(b["LL"]), pieces, Elem(b["RR"]))
    BY Zenon DEF snprintf_row
  <1>2. /\ snprintf_row(r, w).vis
             = left + Elem(b["LL"]).vis + Total(pv, NCols) + Elem(b["RR"]).vis + right
        /\ snprintf_row(r, w).bytes
             = left + Elem(b["LL"]).bytes + Total(pb, NCols) + Elem(b["RR"]).bytes + right + 1
    BY <1>1 DEF FullLine
  <1>3. \A c : piece(c).vis = RowPiece(r, w, c).vis /\ piece(c).bytes = RowPiece(r, w, c).bytes
    BY DEF Plus, Elem, Nothing, Seen, RowPiece
  <1>4. Nothing.vis = 0 /\ Nothing.bytes = 0
    BY DEF Nothing, Elem
  <1> HIDE DEF piece
  <1>5. /\ \A c \in 0 .. NCols - 1 : pieces[c].vis = fv[c] /\ pieces[c].bytes = fb[c]
        /\ DOMAIN pieces = 0 .. NCols - 1
    BY <1>3, <1>4
  <1> HIDE DEF pieces
  <1>6. pv = fv /\ pb = fb
    BY <1>5
  <1> HIDE DEF pv, pb
  <1>7. /\ "LL" \in BorderItems /\ "RR" \in BorderItems
    BY DEF BorderItems
  <1>8. /\ Elem(b["LL"]).vis = Seen(b["LL"]) /\ Elem(b["RR"]).vis = Seen(b["RR"])
        /\ Elem(b["LL"]).bytes = b["LL"] /\ Elem(b["RR"]).bytes = b["RR"]
    BY <1>7, RowElements
  <1> QED BY <1>2, <1>6, <1>8

\* How wide a line of a row is on the screen, if the separators between the columns
\* are seen or no cells are grouped.
LEMMA RowVisIs ==
  ASSUME Typed, NEW w \in Widths, NEW r \in 0 .. NRows - 1, NEW b, b = Chars4(Header(r)),
         NEW s, s = Seen(b["IV"]),
         s = 1 \/ \A c \in 0 .. NCols - 1 : group_cell_number(r, c) = 1
  PROVE  snprintf_row(r, w).vis
         = left + Seen(b["LL"]) + Total(With(w, s), NCols) + Seen(b["RR"]) + right
  <1> DEFINE fv == [c \in 0 .. NCols - 1 |-> IF c \in Printed(r) THEN RowPiece(r, w, c).vis ELSE 0]
             fb == [c \in 0 .. NCols - 1 |-> IF c \in Printed(r) THEN RowPiece(r, w, c).bytes ELSE 0]
             X == With(w, s)
             Y == Tiles(X, r)
  <1>1. snprintf_row(r, w).vis = left + Seen(b["LL"]) + Total(fv, NCols) + Seen(b["RR"]) + right
    <2>1. /\ fv = [c \in 0 .. NCols - 1 |-> IF c \in Printed(r) THEN RowPiece(r, w, c).vis ELSE 0]
          /\ fb = [c \in 0 .. NCols - 1 |-> IF c \in Printed(r) THEN RowPiece(r, w, c).bytes ELSE 0]
      OBVIOUS
    <2> HIDE DEF fv, fb
    <2> QED BY <2>1, RowLineIs
  <1>2. s \in {0, 1}
    BY DEF Seen
  <1>3. NCols \in Nat
    BY TableIs
  <1>4. Numbers(X, NCols)
    <2> SUFFICES ASSUME NEW k \in 0 .. NCols - 1 PROVE X[k] \in Int
      BY DEF Numbers
    <2>1. X[k] = w[k] + (IF k + 1 < NCols THEN s ELSE 0) /\ w[k] \in Nat
      BY DEF With, Widths
    <2> HIDE DEF X
    <2> QED BY <1>2, <2>1
  <1>5. Numbers(Y, NCols) /\ Total(Y, NCols) = Total(X, NCols)
    <2> HIDE DEF X
    <2> QED BY <1>4, TilesCover
  <1>6. ASSUME NEW c \in 0 .. NCols - 1 PROVE fv[c] = Y[c]
    <2> DEFINE n == group_cell_number(r, c)
               d == c + n
               more == IF d < NCols THEN n ELSE n - 1
               g == GroupWidth(w, r, c)  x == Between(w, c, d)
    <2>1. n \in Nat /\ n >= 1 /\ c + n <= NCols
      BY GroupIs
    <2>2. g = x + n - 1 /\ x \in Nat
      BY GroupWidthIs
    <2>3. RowPiece(r, w, c).vis = g + (IF d < NCols THEN s ELSE 0)
      BY DEF RowPiece
    <2>4. Y[c] = IF c \in Printed(r) THEN Between(X, c, d) ELSE 0
      BY DEF Tiles
    <2>5. fv[c] = IF c \in Printed(r) THEN RowPiece(r, w, c).vis ELSE 0
      OBVIOUS
    <2>6. s = 1 \/ n = 1
      OBVIOUS
    <2>7. Between(X, c, d) = x + more * s
      <3>1. d = c + n /\ d <= NCols /\ more = IF d < NCols THEN n ELSE n - 1
        BY <2>1
      <3> HIDE DEF n, d, more
      <3> QED BY <1>2, <2>1, <3>1, WithIs DEF MoreWith
    <2> HIDE DEF Y, X, fv, g, x
    <2>8. x + more * s = g + (IF d < NCols THEN s ELSE 0)
      <3>1. CASE s = 1
        <4>1. more * 1 = more
          BY <2>1
        <4> QED BY <2>1, <2>2, <3>1, <4>1
      <3>2. CASE s = 0 /\ n = 1
        <4>1. more * 0 = 0
          BY <2>1
        <4> QED BY <2>1, <2>2, <3>2, <4>1
      <3> QED BY <1>2, <2>6, <3>1, <3>2
    <2> QED BY <2>3, <2>4, <2>5, <2>7, <2>8
  <1> HIDE DEF fv, Y, X
  <1>7. Total(fv, NCols) = Total(Y, NCols)
    <2>1. Numbers(fv, NCols)
      BY <1>5, <1>6 DEF Numbers
    <2> QED BY <1>3, <1>5, <1>6, <2>1, TotalLe
  <1> QED BY <1>1, <1>5, <1>7 DEF X

\* How many bytes a line takes: so many elements of the longest kind, and the
\* columns and margins as wide as if they had such elements in them.
Room(W) == (2 + Max({1, NCols}) + Total(W, NCols) + left + right) * Longest

\* Margins and widths are numbers.
LEMMA RoomIs ==
  ASSUME Typed, NEW W \in Widths
  PROVE  /\ left \in Nat /\ right \in Nat /\ margins[3] \in Nat /\ margins[4] \in Nat
         /\ Total(W, NCols) \in Nat
         /\ Max({1, NCols}) \in Nat /\ 1 <= Max({1, NCols}) /\ NCols <= Max({1, NCols})
         /\ Room(W) \in Nat
  <1>1. left \in Nat /\ right \in Nat /\ margins[3] \in Nat /\ margins[4] \in Nat
    BY DEF Typed, left, right
  <1>2. Total(W, NCols) \in Nat
    <2>1. AtMost(W, W, 1, NCols)
      <3>1. \A k \in 0 .. NCols - 1 : W[k] \in Nat
        BY DEF Widths
      <3>2. \A k \in 0 .. NCols - 1 : W[k] * 1 = W[k]
        BY <3>1
      <3> QED BY <3>1, <3>2 DEF AtMost
    <2> QED BY <2>1, TableIs, ScaledLe
  <1>3. Max({1, NCols}) \in Nat /\ 1 <= Max({1, NCols}) /\ NCols <= Max({1, NCols})
    BY TableIs, MaxOfTwo
  <1> DEFINE x == 2 + Max({1, NCols}) + Total(W, NCols) + left + right
  <1>4. x \in Nat /\ Longest \in Nat /\ Room(W) = x * Longest
    BY <1>1, <1>2, <1>3, ElementsAre DEF Room
  <1> HIDE DEF x
  <1>5. x * Longest \in Nat
    BY <1>4
  <1> QED BY <1>1, <1>2, <1>3, <1>4, <1>5

\* A row's cells fit into the columns of W, tags and all.
FitsInto(r, w, W) ==
  \A c \in 0 .. NCols - 1 :
    c \in Printed(r) =>
      LET d == c + group_cell_number(r, c)
      IN  Between(w, c, d) + (IF Present(r, c) THEN cell_invis_codes_width(r, c) ELSE 0)
            <= Between(W, c, d)

\* Then a line of the row has room.
LEMMA RowBytesLe ==
  ASSUME Typed, NEW w \in Widths, NEW W \in Widths, NEW r \in 0 .. NRows - 1,
         FitsInto(r, w, W)
  PROVE  snprintf_row(r, w).bytes \in Nat /\ snprintf_row(r, w).bytes <= Room(W)
  <1> DEFINE fv == [c \in 0 .. NCols - 1 |-> IF c \in Printed(r) THEN RowPiece(r, w, c).vis ELSE 0]
             fb == [c \in 0 .. NCols - 1 |-> IF c \in Printed(r) THEN RowPiece(r, w, c).bytes ELSE 0]
             E == Longest
             X == With(W, E)
             Y == Tiles(X, r)
             b == Chars4(Header(r))
             N == NCols
             M == Max({1, NCols})
             T == Total(W, NCols)
             L == snprintf_row(r, w).bytes
  <1>1. L = left + b["LL"] + Total(fb, N) + b["RR"] + right + 1
    <2>1. /\ fv = [c \in 0 .. NCols - 1 |-> IF c \in Printed(r) THEN RowPiece(r, w, c).vis ELSE 0]
          /\ fb = [c \in 0 .. NCols - 1 |-> IF c \in Printed(r) THEN RowPiece(r, w, c).bytes ELSE 0]
          /\ b = Chars4(Header(r))
      OBVIOUS
    <2> HIDE DEF fv, fb, b
    <2> QED BY <2>1, RowLineIs
  <1>2. /\ E \in Nat /\ E >= 1 /\ b["LL"] \in Nat /\ b["LL"] <= E /\ b["RR"] \in Nat /\ b["RR"] <= E
        /\ b["IV"] \in Nat /\ b["IV"] <= E
    <2>1. "LL" \in BorderItems /\ "RR" \in BorderItems /\ "IV" \in BorderItems
      BY DEF BorderItems
    <2> QED BY <2>1, ElementsAre, RowElements
  <1>3. N \in Nat
    BY TableIs
  <1>4. /\ left \in Nat /\ right \in Nat /\ T \in Nat /\ M \in Nat /\ 1 <= M /\ N <= M
    BY RoomIs
  <1>5. Numbers(X, N)
    <2> SUFFICES ASSUME NEW k \in 0 .. N - 1 PROVE X[k] \in Int
      BY DEF Numbers
    <2>1. X[k] = W[k] + (IF k + 1 < N THEN E ELSE 0) /\ W[k] \in Nat
      BY DEF With, Widths
    <2> HIDE DEF X, E
    <2> QED BY <1>2, <2>1
  <1>6. Numbers(Y, N) /\ Total(Y, N) = Total(X, N)
    <2> HIDE DEF X
    <2> QED BY <1>5, TilesCover
  <1>7. ASSUME NEW c \in 0 .. N - 1 PROVE fb[c] \in Nat /\ fb[c] <= Y[c]
    <2> DEFINE n == group_cell_number(r, c)
               d == c + n
               more == IF d < N THEN n ELSE n - 1
               g == GroupWidth(w, r, c)  x == Between(w, c, d)  z == Between(W, c, d)
               t == IF Present(r, c) THEN cell_invis_codes_width(r, c) ELSE 0
               iv == IF d < N THEN b["IV"] ELSE 0
    <2>1. n \in Nat /\ n >= 1 /\ c + n <= N
      BY GroupIs
    <2>2. g = x + n - 1 /\ x \in Nat /\ z \in Nat
      BY GroupWidthIs
    <2>3. t \in Nat
      BY TagsAre
    <2>4. RowPiece(r, w, c).bytes = g + t + iv
      BY DEF RowPiece
    <2>5. c \in Printed(r) => x + t <= z
      BY DEF FitsInto
    <2>6. Y[c] = IF c \in Printed(r) THEN Between(X, c, d) ELSE 0
      BY DEF Tiles
    <2>7. fb[c] = IF c \in Printed(r) THEN RowPiece(r, w, c).bytes ELSE 0
      OBVIOUS
    <2>8. Between(X, c, d) = z + more * E /\ more \in Nat
      <3>1. d = c + n /\ d <= NCols /\ more = (IF d < NCols THEN n ELSE n - 1)
        BY <2>1
      <3>2. E \in Nat /\ n \in Nat /\ n >= 1 /\ c \in 0 .. NCols - 1 /\ W \in Widths
        BY <1>2, <2>1
      <3> HIDE DEF n, d, more, E, N, X, Y, fb, fv, L, b, g, x, z, t, iv, M, T
      <3>3. more \in Nat
        BY <3>1, <3>2
      <3>4. MoreWith(W, E, c, d, more)
        BY <3>1, <3>2, WithIs
      <3> QED BY <3>3, <3>4 DEF X, z, MoreWith
    <2>9. iv \in Nat /\ iv <= E /\ more = (IF d < N THEN n ELSE n - 1)
      BY <1>2
    <2> HIDE DEF Y, X, fb, g, x, z, t, E, b
    <2>10. n - 1 + iv <= more * E
      <3> DEFINE m == n - 1
      <3>1. m \in Nat /\ m <= m * E /\ m * E \in Nat
        <4>1. m \in Nat
          BY <2>1
        <4> HIDE DEF m
        <4>2. m * 1 <= m * E /\ m * E \in Nat
          BY <1>2, <4>1, TimesLe
        <4> QED BY <4>1, <4>2
      <3>2. CASE d < N
        <4>1. more = m + 1 /\ (m + 1) * E = m * E + E
          BY <1>2, <2>1, <2>9, <3>1, <3>2
        <4> DEFINE p == m * E  q == (m + 1) * E
        <4>2. p \in Nat /\ q = p + E /\ m <= p /\ iv <= E /\ more * E = q
          BY <2>9, <3>1, <4>1
        <4>3. n - 1 + iv = m + iv
          BY <2>1, <2>9
        <4> HIDE DEF p, q, m, more, iv, n
        <4>4. m + iv <= q
          BY <1>2, <2>9, <3>1, <4>2
        <4> QED BY <4>2, <4>3, <4>4
      <3>3. CASE ~(d < N)
        <4>1. more = m /\ iv = 0
          BY <3>3
        <4>2. n - 1 + iv = m
          BY <2>1, <4>1
        <4> HIDE DEF m, more, iv, n
        <4> QED BY <3>1, <4>1, <4>2
      <3> QED BY <3>2, <3>3
    <2> DEFINE me == more * E  u == n - 1 + iv
    <2>11. u <= me /\ me \in Nat /\ u \in Nat /\ g + t + iv = x + t + u /\ g + t + iv \in Nat
      <3>1. more * E \in Nat
        BY <1>2, <2>8
      <3> QED BY <2>1, <2>2, <2>3, <2>9, <2>10, <3>1
    <2> HIDE DEF me, iv
    <2>12. Between(X, c, d) = z + me
      BY <2>8 DEF me
    <2> HIDE DEF u
    <2>13. c \in Printed(r) => fb[c] = x + t + u /\ Y[c] = z + me /\ x + t <= z
      BY <2>4, <2>5, <2>6, <2>7, <2>11, <2>12
    <2>14. CASE c \in Printed(r)
      BY <2>2, <2>3, <2>11, <2>13, <2>14
    <2>15. CASE c \notin Printed(r)
      BY <2>6, <2>7, <2>15
    <2> QED BY <2>14, <2>15
  <1> HIDE DEF fb, fv, Y, X, E
  <1>8. Total(fb, N) \in Nat /\ Total(fb, N) <= Total(Y, N)
    <2>1. Numbers(fb, N) /\ \A k \in 0 .. N - 1 : fb[k] <= Y[k]
      BY <1>7 DEF Numbers
    <2>2. Total(fb, N) <= Total(Y, N)
      BY <1>3, <1>6, <2>1, TotalLe
    <2>3. AtMost(fb, fb, 1, N)
      <3>1. \A k \in 0 .. N - 1 : fb[k] \in Nat /\ fb[k] * 1 = fb[k]
        BY <1>7
      <3> QED BY <3>1 DEF AtMost
    <2>4. Total(fb, N) \in Nat
      BY <1>3, <2>3, ScaledLe
    <2> QED BY <2>2, <2>4
  <1>9. Total(X, N) <= T + (M - 1) * E
    <2>1. CASE N = 0
      <3>1. Total(X, 0) = 0
        BY TotalIs
      <3>2. (M - 1) * E \in Nat
        <4> DEFINE m == M - 1
        <4>1. m \in Nat
          BY <1>4
        <4> HIDE DEF m
        <4>2. m * E \in Nat
          BY <1>2, <4>1
        <4> QED BY <4>2 DEF m
      <3> DEFINE k == (M - 1) * E
      <3> HIDE DEF k, T
      <3>3. Total(X, N) = 0 /\ k \in Nat
        BY <2>1, <3>1, <3>2 DEF k
      <3>4. Total(X, N) <= T + k
        BY <1>4, <3>3
      <3> QED BY <3>4 DEF k
    <2>2. CASE N # 0
      <3> DEFINE more == N - 1
      <3>1. N \in Nat /\ N >= 1 /\ N = 0 + N /\ N <= NCols /\ 0 \in 0 .. N - 1
            /\ more = (IF N < NCols THEN N ELSE N - 1) /\ more \in Nat
        BY <1>3, <2>2
      <3> HIDE DEF more
      <3>2. Between(X, 0, N) = Between(W, 0, N) + more * E
        <4> HIDE DEF N
        <4> QED BY <1>2, <3>1, WithIs DEF X, N, MoreWith
      <3>3. Total(X, N) = Between(X, 0, N) /\ T = Between(W, 0, N)
        <4>1. Numbers(W, N)
          BY DEF Widths, Numbers
        <4> QED BY <1>3, <1>5, <4>1, TotalLe
      <3>4. more <= M - 1
        BY <1>3, <1>4, <3>1
      <3> DEFINE m == M - 1
      <3>5. m \in Nat /\ more <= m
        BY <1>4, <3>4
      <3> HIDE DEF m
      <3>6. more * E <= m * E /\ more * E \in Nat /\ m * E \in Nat
        BY <1>2, <3>1, <3>5, TimesLe
      <3> DEFINE p == more * E  q == m * E
      <3>7. p <= q /\ p \in Nat /\ q \in Nat /\ Total(X, N) = T + p
        BY <3>2, <3>3, <3>6
      <3> HIDE DEF p, q, T
      <3>8. Total(X, N) <= T + q
        BY <1>4, <3>7
      <3> QED BY <3>8 DEF q, m
    <2> QED BY <2>1, <2>2
  <1> DEFINE F == Total(fb, N)  ll == b["LL"]  rr == b["RR"]  a == left + right
             R == Room(W)
  <1>10. R = (2 + M + T + a) * E
    <2>1. 2 + M + T + left + right = 2 + M + T + a
      <3> HIDE DEF M, T
      <3> QED BY <1>4
    <2> QED BY <2>1 DEF Room, E
  <1>11. F \in Nat /\ F <= T + (M - 1) * E
    <2> DEFINE y == Total(X, N)  k == T + (M - 1) * E
    <2>1. y <= k /\ F <= y /\ F \in Nat
      BY <1>6, <1>8, <1>9
    <2>2. y \in Int /\ k \in Int
      <3>1. y \in Int
        BY <1>3, <1>5, TotalLe
      <3>2. (M - 1) * E \in Int
        <4> HIDE DEF M
        <4> QED BY <1>2, <1>4
      <3> HIDE DEF M, T
      <3> QED BY <1>4, <3>1, <3>2
    <2> HIDE DEF y, k, F
    <2>3. F <= k
      BY <2>1, <2>2
    <2> QED BY <2>1, <2>3 DEF k
  <1>12. ll \in Nat /\ ll <= E /\ rr \in Nat /\ rr <= E /\ a \in Nat
         /\ L = ll + F + rr + a + 1
    <2> HIDE DEF b, F, L
    <2>1. ll \in Nat /\ ll <= E /\ rr \in Nat /\ rr <= E /\ L = left + ll + F + rr + right + 1
      BY <1>1, <1>2 DEF F
    <2> HIDE DEF ll, rr
    <2> QED BY <1>4, <1>11, <2>1
  <1> HIDE DEF F, ll, rr, a, R, M, T, L, b, N
  <1>13. (2 + M + T + a) * E = 2 * E + M * E + T * E + a * E
    BY <1>2, <1>4, <1>12
  <1>14. (M - 1) * E = M * E - E /\ M * E \in Nat /\ T * E \in Nat /\ a * E \in Nat
    BY <1>2, <1>4, <1>12
  <1>15. T <= T * E /\ a <= a * E
    BY <1>2, <1>4, <1>12
  <1> DEFINE m1 == (M - 1) * E  me == M * E  te == T * E  ae == a * E  all == (2 + M + T + a) * E
  <1>16. /\ all = 2 * E + me + te + ae /\ m1 = me - E /\ me \in Nat /\ te \in Nat /\ ae \in Nat
         /\ T <= te /\ a <= ae /\ F <= T + m1 /\ R = all
    BY <1>10, <1>11, <1>13, <1>14, <1>15
  <1> HIDE DEF m1, me, te, ae, all
  <1>17. L \in Nat /\ L <= R
    BY <1>2, <1>4, <1>11, <1>12, <1>16
  <1> QED BY <1>17 DEF L, R

\* The element in front of a column of a line between rows.
Front(i, c) == IF c = 0 THEN SepChars(i).L ELSE Crossing(SepChars(i), i, c)

\* It is one of the style's.
LEMMA FrontIs ==
  ASSUME Typed, NEW i, NEW c
  PROVE  /\ Front(i, c) \in Nat /\ Front(i, c) <= Longest
         /\ Front(i, c) \in Elements
  <1> DEFINE ch == SepChars(i)
  <1>1. /\ ch.L \in Elements /\ ch.IV \in Elements /\ ch.IT \in Elements /\ ch.IB \in Elements
        /\ ch.II \in Elements
    <2>1. ch = SepChars(i)
      OBVIOUS
    <2> HIDE DEF ch
    <2> QED BY <2>1, SepCharsAre
  <1>2. Front(i, c) = IF c = 0 THEN ch.L ELSE Crossing(ch, i, c)
    BY DEF Front
  <1> HIDE DEF ch
  <1>3. Crossing(ch, i, c) \in {ch.II, ch.IT, ch.IB, ch.IV}
    BY DEF Crossing
  <1>4. Front(i, c) \in Elements
    BY <1>1, <1>2, <1>3
  <1> QED BY <1>4, ElementsAre

\* The line above row i has no elements.
Blank(i) == {SepChars(i).L, SepChars(i).I, SepChars(i).IV, SepChars(i).R} = {0}

\* Such a line is not printed; any other has an element in front of every column and
\* one at its end, and the columns are filled.
LEMMA SepLineIs ==
  ASSUME Typed, NEW w \in Widths, NEW i,
         NEW fv, fv = [c \in 0 .. NCols - 1 |-> Seen(Front(i, c)) + w[c] * Seen(SepChars(i).I)],
         NEW fb, fb = [c \in 0 .. NCols - 1 |-> Front(i, c) + w[c] * SepChars(i).I]
  PROVE  /\ Blank(i) => print_row_separator(i, w) = Nothing
         /\ ~Blank(i) =>
              /\ print_row_separator(i, w).vis
                   = left + 0 + Total(fv, NCols) + Seen(SepChars(i).R) + right
              /\ print_row_separator(i, w).bytes
                   = left + 0 + Total(fb, NCols) + SepChars(i).R + right + 1
  <1> DEFINE ch == SepChars(i)
             piece(c) == Plus(Elem(IF c = 0 THEN ch.L ELSE Crossing(ch, i, c)),
                              Times(w[c], Elem(ch.I)))
             pieces == [c \in 0 .. NCols - 1 |-> piece(c)]
             pv == [c \in DOMAIN pieces |-> pieces[c].vis]
             pb == [c \in DOMAIN pieces |-> pieces[c].bytes]
  <1>1. print_row_separator(i, w)
        = IF {ch.L, ch.I, ch.IV, ch.R} = {0} THEN Nothing
          ELSE FullLine(Nothing, pieces, Elem(ch.R))
    BY Zenon DEF print_row_separator
  <1>2. Blank(i) <=> {ch.L, ch.I, ch.IV, ch.R} = {0}
    BY DEF Blank
  <1>3. \A c : /\ piece(c).vis = Seen(Front(i, c)) + w[c] * Seen(ch.I)
               /\ piece(c).bytes = Front(i, c) + w[c] * ch.I
    <2> TAKE c
    <2> DEFINE e == IF c = 0 THEN ch.L ELSE Crossing(ch, i, c)
    <2>1. e = Front(i, c)
      BY DEF Front
    <2> HIDE DEF e, ch
    <2>2. /\ Elem(e).vis = Seen(e) /\ Elem(e).bytes = e
          /\ Elem(ch.I).vis = Seen(ch.I) /\ Elem(ch.I).bytes = ch.I
      BY DEF Elem, Seen
    <2>3. piece(c) = Plus(Elem(e), Times(w[c], Elem(ch.I)))
      BY DEF e
    <2> HIDE DEF piece
    <2>4. /\ piece(c).vis = Elem(e).vis + w[c] * Elem(ch.I).vis
          /\ piece(c).bytes = Elem(e).bytes + w[c] * Elem(ch.I).bytes
      BY <2>3 DEF Plus, Times
    <2> QED BY <2>1, <2>2, <2>4
  <1> HIDE DEF piece
  <1>4. /\ \A c \in 0 .. NCols - 1 : pieces[c].vis = fv[c] /\ pieces[c].bytes = fb[c]
        /\ DOMAIN pieces = 0 .. NCols - 1
    BY <1>3
  <1> HIDE DEF pieces
  <1>5. pv = fv /\ pb = fb
    BY <1>4
  <1>6. /\ FullLine(Nothing, pieces, Elem(ch.R)).vis
             = left + Nothing.vis + Total(pv, NCols) + Elem(ch.R).vis + right
        /\ FullLine(Nothing, pieces, Elem(ch.R)).bytes
             = left + Nothing.bytes + Total(pb, NCols) + Elem(ch.R).bytes + right + 1
    BY DEF FullLine
  <1>7. Nothing.vis = 0 /\ Nothing.bytes = 0 /\ Elem(ch.R).vis = Seen(ch.R) /\ Elem(ch.R).bytes = ch.R
    BY DEF Nothing, Elem, Seen
  <1> HIDE DEF pv, pb
  <1> QED BY <1>1, <1>2, <1>5, <1>6, <1>7

\* How wide such a line is on the screen if its columns are filled and the
\* elements between them are all seen or all empty.
LEMMA SepVisIs ==
  ASSUME Typed, NEW w \in Widths, NEW i, NCols > 0, ~Blank(i),
         Seen(SepChars(i).I) = 1, NEW s \in Nat,
         \A c \in 1 .. NCols - 1 : Seen(Front(i, c)) = s
  PROVE  print_row_separator(i, w).vis
         = left + Seen(SepChars(i).L) + Total(With(w, s), NCols) + Seen(SepChars(i).R) + right
  <1> DEFINE ch == SepChars(i)
             fv == [c \in 0 .. NCols - 1 |-> Seen(Front(i, c)) + w[c] * Seen(SepChars(i).I)]
             fb == [c \in 0 .. NCols - 1 |-> Front(i, c) + w[c] * SepChars(i).I]
             N == NCols
             X == With(w, s)
             vl == Seen(ch.L)
             m == N - 1
             x == m * s
  <1>1. print_row_separator(i, w).vis = left + 0 + Total(fv, N) + Seen(ch.R) + right
    <2>1. /\ fv = [c \in 0 .. NCols - 1 |-> Seen(Front(i, c)) + w[c] * Seen(SepChars(i).I)]
          /\ fb = [c \in 0 .. NCols - 1 |-> Front(i, c) + w[c] * SepChars(i).I]
      OBVIOUS
    <2> HIDE DEF fv, fb
    <2> QED BY <2>1, SepLineIs
  <1>2. /\ N \in Nat /\ N >= 1 /\ N = 0 + N /\ N <= NCols /\ 0 \in 0 .. NCols - 1
        /\ m = (IF N < NCols THEN N ELSE N - 1) /\ m \in Nat /\ 1 \in 0 .. N /\ N = 1 + m
    BY TableIs
  <1>3. \A c \in 0 .. N - 1 : w[c] \in Nat /\ w[c] * 1 = w[c]
    BY DEF Widths
  <1>4. Front(i, 0) = ch.L /\ vl \in Nat
    BY DEF Front, Seen
  <1>5. fv[0] = vl + w[0] /\ \A c \in 1 .. N - 1 : fv[c] = s + w[c]
    <2>1. /\ fv[0] = Seen(Front(i, 0)) + w[0] * 1
          /\ \A c \in 1 .. N - 1 : fv[c] = Seen(Front(i, c)) + w[c] * 1
      BY <1>2
    <2>2. 0 \in 0 .. N - 1 /\ \A c \in 1 .. N - 1 : c \in 0 .. N - 1
      BY <1>2
    <2> HIDE DEF fv
    <2> QED BY <1>3, <1>4, <2>1, <2>2
  <1> HIDE DEF fv, fb, vl, m, N
  <1>6. Numbers(w, N) /\ Numbers(fv, N)
    <2>1. \A c \in 0 .. N - 1 : c = 0 \/ c \in 1 .. N - 1
      BY <1>2
    <2> QED BY <1>3, <1>4, <1>5, <2>1 DEF Numbers
  <1>7. Spread(w, fv, 1, m, s, 0)
    <2> SUFFICES ASSUME NEW j \in 0 .. m - 1
                 PROVE  fv[1 + j] = w[1 + j] + s + (IF j < 0 THEN 1 ELSE 0)
      BY DEF Spread
    <2>1. 1 + j \in 1 .. N - 1 /\ 1 + j \in 0 .. N - 1 /\ ~(j < 0)
      BY <1>2
    <2> QED BY <1>3, <1>5, <2>1
  <1>8. x \in Int /\ x - m * s = 0
    BY <1>2
  <1>9. Between(fv, 1, N) = Between(w, 1, N) + x
    <2>1. 1 + m <= N /\ 0 \in 0 .. m
      BY <1>2
    <2> HIDE DEF x
    <2> QED BY <1>2, <1>6, <1>7, <1>8, <2>1, SpreadIs
  <1>10. Total(X, N) = Total(w, N) + x
    <2>1. MoreWith(w, s, 0, N, m) /\ Numbers(X, NCols)
      <3> HIDE DEF x
      <3> QED BY <1>2, WithIs
    <2>2. Between(X, 0, N) = Between(w, 0, N) + x
      BY <2>1 DEF MoreWith
    <2>3. Numbers(X, N)
      BY <2>1 DEF N
    <2>4. Total(X, N) = Between(X, 0, N) /\ Total(w, N) = Between(w, 0, N)
      <3> HIDE DEF X
      <3> QED BY <1>2, <1>6, <2>3, TotalLe
    <2> QED BY <2>2, <2>4
  <1>11. /\ Total(fv, N) = fv[0] + Between(fv, 1, N) /\ Between(fv, 1, N) \in Int
         /\ Total(w, N) = w[0] + Between(w, 1, N) /\ Between(w, 1, N) \in Int
    <2>1. 0 \in 0 .. N /\ 0 \in 0 .. N - 1 /\ N \in 0 .. N /\ 0 + 1 = 1
      BY <1>2
    <2>2. AddsUp(fv, N, 0) /\ AddsUp(w, N, 0) /\ AddsUp(fv, N, 1) /\ AddsUp(w, N, 1)
      BY <1>2, <1>6, <2>1, BetweenIs
    <2>3. Total(fv, N) = Between(fv, 0, N) /\ Total(w, N) = Between(w, 0, N)
      BY <1>2, <1>6, TotalLe
    <2>4. Between(fv, 0, 1) = fv[0] /\ Between(w, 0, 1) = w[0]
      <3>1. Between(fv, 0, 0 + 1) = Between(fv, 0, 0) + fv[0] /\ Between(fv, 0, 0) = 0
            /\ Between(w, 0, 0 + 1) = Between(w, 0, 0) + w[0] /\ Between(w, 0, 0) = 0
        BY <2>1, <2>2 DEF AddsUp
      <3>2. fv[0] \in Int /\ w[0] \in Int
        BY <1>6, <2>1 DEF Numbers
      <3> QED BY <2>1, <3>1, <3>2
    <2>5. /\ Between(fv, 0, N) = Between(fv, 0, 1) + Between(fv, 1, N)
          /\ Between(w, 0, N) = Between(w, 0, 1) + Between(w, 1, N)
      BY <1>2, <2>1, <2>2 DEF AddsUp
    <2>6. Between(fv, 1, N) \in Int /\ Between(w, 1, N) \in Int
      BY <2>1, <2>2 DEF AddsUp
    <2> QED BY <2>3, <2>4, <2>5, <2>6
  <1>12. left \in Nat /\ right \in Nat /\ Seen(ch.R) \in Nat
    BY RoomIs DEF Seen
  <1> DEFINE A == Total(fv, N)  B == Between(fv, 1, N)  C == Between(w, 1, N)  D == Total(w, N)
             F == Total(X, N)  w0 == w[0]  f0 == fv[0]  vr == Seen(ch.R)
             K == print_row_separator(i, w).vis
  <1>13. /\ A = f0 + B /\ D = w0 + C /\ B = C + x /\ F = D + x /\ f0 = vl + w0
         /\ B \in Int /\ C \in Int /\ x \in Int /\ w0 \in Nat /\ vl \in Nat /\ vr \in Nat
         /\ K = left + 0 + A + vr + right
    <2>1. 0 \in 0 .. N - 1
      BY <1>2
    <2> QED BY <1>1, <1>3, <1>4, <1>5, <1>8, <1>9, <1>10, <1>11, <1>12, <2>1
  <1> HIDE DEF A, B, C, D, F, w0, f0, vr, K, x
  <1>14. K = left + vl + F + vr + right
    BY <1>12, <1>13
  <1> QED BY <1>14 DEF K, vl, F, vr, N

\* A line between rows has room, too.
LEMMA SepBytesLe ==
  ASSUME Typed, NEW w \in Widths, NEW W \in Widths, Above(W, w), NEW i
  PROVE  print_row_separator(i, w).bytes \in Nat /\ print_row_separator(i, w).bytes <= Room(W)
  <1> DEFINE ch == SepChars(i)
             fv == [c \in 0 .. NCols - 1 |-> Seen(Front(i, c)) + w[c] * Seen(SepChars(i).I)]
             fb == [c \in 0 .. NCols - 1 |-> Front(i, c) + w[c] * SepChars(i).I]
             g == [c \in 0 .. NCols - 1 |-> w[c] + 1]
             N == NCols
             E == Longest
             M == Max({1, NCols})
             T == Total(W, NCols)
             T0 == Total(w, NCols)
             L == print_row_separator(i, w).bytes
             R == Room(W)
  <1>1. /\ Blank(i) => print_row_separator(i, w) = Nothing
        /\ ~Blank(i) => L = left + 0 + Total(fb, N) + ch.R + right + 1
    <2>1. /\ fv = [c \in 0 .. NCols - 1 |-> Seen(Front(i, c)) + w[c] * Seen(SepChars(i).I)]
          /\ fb = [c \in 0 .. NCols - 1 |-> Front(i, c) + w[c] * SepChars(i).I]
      OBVIOUS
    <2> HIDE DEF fv, fb
    <2> QED BY <2>1, SepLineIs
  <1>2. /\ N \in Nat /\ E \in Nat /\ E >= 1 /\ left \in Nat /\ right \in Nat
        /\ T \in Nat /\ T0 \in Nat /\ M \in Nat /\ 1 <= M /\ N <= M /\ R \in Nat
    BY TableIs, RoomIs, ElementsAre
  <1>3. ch.R \in Nat /\ ch.R <= E /\ ch.I \in Nat /\ ch.I <= E
    <2>1. ch = SepChars(i)
      OBVIOUS
    <2> HIDE DEF ch
    <2>2. ch.R \in Elements /\ ch.I \in Elements
      BY <2>1, SepCharsAre
    <2> QED BY <2>2, ElementsAre
  <1>4. CASE Blank(i)
    <2>1. L = 0
      BY <1>1, <1>4 DEF Nothing, Elem
    <2> HIDE DEF L, R
    <2>2. L \in Nat /\ L <= R
      BY <1>2, <2>1
    <2> QED BY <2>2 DEF L, R
  <1>5. CASE ~Blank(i)
    <2>1. AtMost(fb, g, E, N)
      <3> SUFFICES ASSUME NEW c \in 0 .. N - 1
                   PROVE  fb[c] \in Nat /\ g[c] \in Nat /\ fb[c] <= g[c] * E
        BY DEF AtMost
      <3> DEFINE e == Front(i, c)  wc == w[c]  l == ch.I
      <3>1. e \in Nat /\ e <= E /\ wc \in Nat
        BY FrontIs DEF Widths
      <3>2. fb[c] = e + wc * l /\ g[c] = wc + 1
        OBVIOUS
      <3> HIDE DEF e, wc, l, fb, g, E
      <3>3. l \in Nat /\ l <= E
        BY <1>3 DEF l
      <3>4. wc * l \in Nat /\ wc * E \in Nat /\ wc * l <= wc * E
        BY <1>2, <3>1, <3>3, TimesLe
      <3>5. (wc + 1) * E = wc * E + E
        BY <1>2, <3>1
      <3> DEFINE p == wc * l  q == wc * E  k == (wc + 1) * E
      <3>6. p \in Nat /\ q \in Nat /\ p <= q /\ k = q + E /\ fb[c] = e + p /\ g[c] * E = k
        BY <3>2, <3>4, <3>5
      <3> HIDE DEF p, q, k
      <3>7. fb[c] \in Nat /\ fb[c] <= k
        BY <1>2, <3>1, <3>6
      <3> QED BY <3>1, <3>2, <3>6, <3>7
    <2>2. Numbers(g, N) /\ Numbers(w, N) /\ Numbers(W, N)
      <3>1. \A c \in 0 .. N - 1 : w[c] \in Nat /\ W[c] \in Nat /\ g[c] = w[c] + 1
        BY DEF Widths
      <3> HIDE DEF g
      <3> QED BY <3>1 DEF Numbers
    <2>3. Total(g, N) = T0 + N
      <3>1. Spread(w, g, 0, N, 1, 0)
        <4> SUFFICES ASSUME NEW j \in 0 .. N - 1
                     PROVE  g[0 + j] = w[0 + j] + 1 + (IF j < 0 THEN 1 ELSE 0)
          BY DEF Spread
        <4>1. 0 + j = j /\ ~(j < 0) /\ w[j] \in Nat /\ g[j] = w[j] + 1
          BY DEF Widths
        <4> QED BY <4>1
      <3>2. 0 \in 0 .. N /\ 0 + N <= N /\ N = 0 + N /\ N \in Int /\ N - N * 1 = 0 /\ 0 \in 0 .. N
        BY <1>2
      <3> HIDE DEF g, N
      <3>3. Between(g, 0, N) = Between(w, 0, N) + N
        BY <1>2, <2>2, <3>1, <3>2, SpreadIs
      <3>4. Total(g, N) = Between(g, 0, N) /\ Total(w, N) = Between(w, 0, N)
        BY <1>2, <2>2, TotalLe
      <3>5. T0 = Total(w, N)
        BY DEF N
      <3> QED BY <3>3, <3>4, <3>5
    <2>4. T0 <= T
      <3>1. \A c \in 0 .. N - 1 : w[c] <= W[c]
        BY DEF Above
      <3>2. Total(w, N) <= Total(W, N)
        <4> HIDE DEF N
        <4> QED BY <1>2, <2>2, <3>1, TotalLe
      <3> QED BY <3>2
    <2> HIDE DEF fb, g, N
    <2> DEFINE F == Total(fb, N)
    <2>5. F \in Nat /\ F <= (T0 + N) * E
      <3>1. F \in Nat /\ F <= Total(g, N) * E
        BY <1>2, <2>1, ScaledLe
      <3> QED BY <2>3, <3>1
    <2>6. R = (2 + M + T + left + right) * E
      BY DEF Room
    <2> DEFINE y == ch.R  a == left + right
    <2>7. L = a + F + y + 1 /\ y \in Nat /\ y <= E /\ a \in Nat /\ 2 + M + T + left + right = 2 + M + T + a
      <3>1. L = left + 0 + F + y + right + 1
        BY <1>1, <1>5
      <3>2. y \in Nat /\ y <= E
        BY <1>3
      <3> HIDE DEF y, F, M, T, L, E
      <3> QED BY <1>2, <2>5, <3>1, <3>2
    <2>8. R = (2 + M + T + a) * E
      BY <2>6, <2>7
    <2> HIDE DEF y, a, F, M, T, T0, L, R, E
    <2>9. /\ (2 + M + T + a) * E = 2 * E + M * E + T * E + a * E
          /\ (T0 + N) * E = T0 * E + N * E
          /\ M * E \in Nat /\ T * E \in Nat /\ a * E \in Nat /\ T0 * E \in Nat /\ N * E \in Nat
      BY <1>2, <2>7
    <2>10. T0 * E <= T * E /\ N * E <= M * E
      BY <1>2, <2>4, TimesLe
    <2>11. a <= a * E
      BY <1>2, <2>7
    <2> DEFINE me == M * E  te == T * E  ae == a * E  all == (2 + M + T + a) * E
               t0e == T0 * E  ne == N * E  t0n == (T0 + N) * E
    <2>12. /\ all = 2 * E + me + te + ae /\ t0n = t0e + ne /\ me \in Nat /\ te \in Nat /\ ae \in Nat
           /\ t0e \in Nat /\ ne \in Nat /\ t0e <= te /\ ne <= me /\ a <= ae
           /\ F <= t0n /\ R = all
      BY <2>5, <2>8, <2>9, <2>10, <2>11
    <2> HIDE DEF me, te, ae, all, t0e, ne, t0n
    <2>13. L \in Nat /\ L <= R
      BY <1>2, <2>5, <2>7, <2>12
    <2> QED BY <2>13 DEF L, R
  <1> QED BY <1>4, <1>5

-----------------------------------------------------------------------------
(* The buffer *)

\* What a printing needs is below the size of the buffer, if rows and lines have room.
LEMMA BytesLe ==
  ASSUME Typed, NEW w \in Widths, Above(ColWidths(TRUE), w),
         \A r \in 0 .. NRows - 1 : FitsInto(r, w, ColWidths(TRUE))
  PROVE  /\ CodHeight \in Nat /\ CodWidth \in Nat
         /\ Bytes(w) \in Nat /\ Bytes(w) <= CodHeight * CodWidth
  <1> DEFINE W == ColWidths(TRUE)
             fs == [i \in 0 .. NRows |-> print_row_separator(i, w).bytes]
             fr == [r \in 0 .. NRows - 1 |-> RowHeight(r) * snprintf_row(r, w).bytes]
             h == [r \in 0 .. NRows - 1 |-> RowHeight(r)]
             one == [i \in 0 .. NRows |-> 1]
             C == CodWidth
             N == NRows
             M == Max({1, NRows})
             S == Total(fs, N + 1)
             R == Total(fr, N)
             H == Total(h, N)
             m == margins[3] + margins[4]
  <1>1. W \in Widths
    BY ColWidthsIs
  <1>2. C = Room(W)
    BY DEF CodWidth, Room, Longest
  <1>3. /\ N \in Nat /\ C \in Nat /\ m \in Nat /\ M \in Nat /\ N <= M
        /\ margins[3] \in Nat /\ margins[4] \in Nat
    <2>1. M \in Nat /\ N <= M /\ N \in Nat
      BY TableIs, MaxOfTwo
    <2>2. C \in Nat /\ margins[3] \in Nat /\ margins[4] \in Nat
      <3> HIDE DEF W, C
      <3> QED BY <1>1, <1>2, RoomIs
    <2> HIDE DEF C, M, N
    <2> QED BY <2>1, <2>2
  <1>4. AtMost(fs, one, C, N + 1)
    <2>1. \A i : print_row_separator(i, w).bytes \in Nat /\ print_row_separator(i, w).bytes <= C
      <3> HIDE DEF W, C
      <3> QED BY <1>1, <1>2, SepBytesLe DEF W
    <2> SUFFICES ASSUME NEW i \in 0 .. (N + 1) - 1
                 PROVE  fs[i] \in Nat /\ one[i] \in Nat /\ fs[i] <= one[i] * C
      BY DEF AtMost
    <2>2. i \in 0 .. NRows
      BY <1>3
    <2>3. fs[i] = print_row_separator(i, w).bytes /\ one[i] = 1
      BY <2>2
    <2>4. 1 * C = C
      <3> HIDE DEF C
      <3> QED BY <1>3
    <2> HIDE DEF fs, one, C
    <2> QED BY <2>1, <2>3, <2>4
  <1>5. AtMost(fr, h, C, N)
    <2> SUFFICES ASSUME NEW r \in 0 .. N - 1
                 PROVE  fr[r] \in Nat /\ h[r] \in Nat /\ fr[r] <= h[r] * C
      BY DEF AtMost
    <2> DEFINE l == snprintf_row(r, w).bytes  k == RowHeight(r)
    <2>1. l \in Nat /\ l <= C
      <3>1. FitsInto(r, w, W)
        OBVIOUS
      <3> HIDE DEF W, C
      <3> QED BY <1>1, <1>2, <3>1, RowBytesLe
    <2>2. k \in Nat
      BY RowHeightIs
    <2>3. fr[r] = k * l /\ h[r] = k
      OBVIOUS
    <2> HIDE DEF l, k, fr, h, C
    <2>4. k * l \in Nat /\ k * l <= k * C
      BY <1>3, <2>1, <2>2, TimesLe
    <2> QED BY <2>2, <2>3, <2>4
  <1>6. S \in Nat /\ S <= (N + 1) * C
    <2>1. \A k \in 0 .. (N + 1) - 1 : one[k] = 1
      BY <1>3
    <2> HIDE DEF one, fs, C, N
    <2>2. N + 1 \in Nat
      BY <1>3
    <2>3. Total(one, N + 1) = N + 1
      BY <2>1, <2>2, OnesAre
    <2>4. S \in Nat /\ S <= Total(one, N + 1) * C
      BY <1>3, <1>4, <2>2, ScaledLe
    <2> QED BY <2>3, <2>4
  <1>7. R \in Nat /\ H \in Nat /\ R <= H * C
    <2> HIDE DEF fr, h, C, N
    <2> QED BY <1>3, <1>5, ScaledLe
  <1>8. Bytes(w) = S + R + m * C
    BY DEF Bytes
  <1>9. CodHeight = 1 + M + H + margins[3] + margins[4]
    BY DEF CodHeight
  <1> DEFINE K == 1 + M + H + m
  <1>10. CodHeight = K /\ K \in Nat
    <2> HIDE DEF M, H
    <2> QED BY <1>3, <1>7, <1>9
  <1> HIDE DEF S, R, H, M, C, N, m
  <1>11. /\ K * C = C + M * C + H * C + m * C
         /\ (N + 1) * C = N * C + C
         /\ M * C \in Nat /\ H * C \in Nat /\ m * C \in Nat /\ N * C \in Nat /\ N * C <= M * C
    <2>1. N * C <= M * C
      BY <1>3, TimesLe
    <2> QED BY <1>3, <1>7, <2>1
  <1> DEFINE kc == K * C  mc == M * C  hc == H * C  ac == m * C  nc == N * C  n1 == (N + 1) * C
             B == Bytes(w)
  <1>12. /\ kc = C + mc + hc + ac /\ n1 = nc + C /\ mc \in Nat /\ hc \in Nat /\ ac \in Nat
         /\ nc \in Nat /\ nc <= mc /\ S <= n1 /\ R <= hc /\ B = S + R + ac
    BY <1>6, <1>7, <1>8, <1>11
  <1> HIDE DEF kc, mc, hc, ac, nc, n1, K, B
  <1>13. B \in Nat /\ B <= kc
    BY <1>3, <1>6, <1>7, <1>12
  <1> QED BY <1>3, <1>10, <1>13 DEF B, kc, C

\* The size of the buffer is a number.
LEMMA CodIs ==
  ASSUME Typed
  PROVE  CodHeight \in Nat /\ CodWidth \in Nat /\ n_codepoints \in Nat
  <1> DEFINE W == ColWidths(TRUE)
             h == [r \in 0 .. NRows - 1 |-> RowHeight(r)]
             N == NRows
             M == Max({1, NRows})
             H == Total(h, N)
  <1>1. CodWidth \in Nat
    <2>1. W \in Widths
      BY ColWidthsIs
    <2>2. CodWidth = Room(W)
      BY DEF CodWidth, Room, Longest
    <2> HIDE DEF W
    <2> QED BY <2>1, <2>2, RoomIs
  <1>2. N \in Nat /\ M \in Nat /\ margins[3] \in Nat /\ margins[4] \in Nat
    BY TableIs, MaxOfTwo DEF Typed
  <1>3. H \in Nat
    <2>1. AtMost(h, h, 1, N)
      <3>1. \A r \in 0 .. N - 1 : h[r] = RowHeight(r) /\ h[r] \in Nat
        BY RowHeightIs
      <3> HIDE DEF h
      <3>2. \A r \in 0 .. N - 1 : h[r] * 1 = h[r]
        BY <3>1
      <3> QED BY <3>1, <3>2 DEF AtMost
    <2> HIDE DEF h, N
    <2> QED BY <1>2, <2>1, ScaledLe
  <1>4. CodHeight = 1 + M + H + margins[3] + margins[4]
    BY DEF CodHeight
  <1> HIDE DEF M, H
  <1>5. CodHeight \in Nat
    BY <1>2, <1>3, <1>4
  <1>6. CodHeight * CodWidth + 1 \in Nat
    BY <1>1, <1>5
  <1> QED BY <1>1, <1>5, <1>6 DEF n_codepoints

\* The cells of a row fit into the columns reckoned with tags, unless there are both
\* groups and tags.
LEMMA RowsFit ==
  ASSUME Typed, ~(Grouped /\ Tagged), NEW w, w = ColWidths(FALSE), NEW W, W = ColWidths(TRUE)
  PROVE  /\ w \in Widths /\ W \in Widths /\ Above(W, w)
         /\ \A r \in 0 .. NRows - 1 : FitsInto(r, w, W)
  <1>1. w \in Widths /\ W \in Widths
    BY ColWidthsIs
  <1>2. \A k \in 0 .. NCols - 1 : w[k] \in Nat /\ W[k] \in Nat
    BY <1>1 DEF Widths
  <1>3. CASE ~Tagged
    <2>1. W = w
      BY <1>3, WidthsSame
    <2>2. Above(W, w)
      <3>1. ASSUME NEW k \in 0 .. NCols - 1 PROVE w[k] <= w[k]
        <4> DEFINE x == w[k]
        <4>1. x \in Nat
          BY <1>2
        <4> HIDE DEF x
        <4>2. x <= x
          BY <4>1
        <4> QED BY <4>2 DEF x
      <3>2. Above(w, w)
        BY <3>1 DEF Above
      <3> QED BY <2>1, <3>2, Zenon
    <2>3. ASSUME NEW r \in 0 .. NRows - 1, NEW c \in 0 .. NCols - 1, NEW d,
                 d = c + group_cell_number(r, c)
          PROVE  Between(w, c, d) + (IF Present(r, c) THEN cell_invis_codes_width(r, c) ELSE 0)
                   <= Between(W, c, d)
      <3> DEFINE t == IF Present(r, c) THEN cell_invis_codes_width(r, c) ELSE 0
                 x == Between(w, c, d)
      <3>1. t = 0
        <4>1. Present(r, c) => <<r, c>> \in CellPos
          BY CellsAre
        <4> DEFINE z == cell_invis_codes_width(r, c)
        <4>2. <<r, c>> \in CellPos => ~(z > 0)
          BY <1>3 DEF Tagged
        <4>3. z \in Nat
          BY TagsAre
        <4>4. t = IF Present(r, c) THEN z ELSE 0
          OBVIOUS
        <4> HIDE DEF z, t
        <4> QED BY <4>1, <4>2, <4>3, <4>4
      <3>2. x \in Nat
        BY <1>1, <2>3, GroupWidthIs
      <3> HIDE DEF t, x
      <3>3. x + t <= x
        BY <3>1, <3>2
      <3> QED BY <2>1, <3>3 DEF t, x
    <2>4. \A r \in 0 .. NRows - 1 : FitsInto(r, w, W)
      BY <2>3 DEF FitsInto
    <2> QED BY <1>1, <2>2, <2>4
  <1>4. CASE ~Grouped
    <2>1. w = Base(FALSE) /\ W = Base(TRUE)
      BY <1>4, ColWidthsIs
    <2>2. \A k \in 0 .. NCols - 1 : w[k] = BaseWidth(k, FALSE) /\ W[k] = BaseWidth(k, TRUE)
      BY <2>1 DEF Base
    <2>3. Above(W, w)
      BY <2>2, BaseIs DEF Above
    <2>4. ASSUME NEW r \in 0 .. NRows - 1, NEW c \in 0 .. NCols - 1, NEW d,
                 d = c + group_cell_number(r, c)
          PROVE  Between(w, c, d) + (IF Present(r, c) THEN cell_invis_codes_width(r, c) ELSE 0)
                   <= Between(W, c, d)
      <3> DEFINE t == IF Present(r, c) THEN cell_invis_codes_width(r, c) ELSE 0
                 z == cell_invis_codes_width(r, c)
                 n == group_cell_number(r, c)
                 x == Between(w, c, d)  y == Between(W, c, d)
      <3>1. n = 1
        BY <1>4, GroupIs, MasterIs
      <3>2. x = w[c] /\ y = W[c]
        <4>1. /\ x \in Nat /\ GroupWidth(w, r, c) = x + n - 1 /\ GroupWidth(w, r, c) = w[c]
              /\ y \in Nat /\ GroupWidth(W, r, c) = y + n - 1 /\ GroupWidth(W, r, c) = W[c]
          BY <1>1, <2>4, <3>1, GroupWidthIs
        <4> HIDE DEF n, x, y
        <4>2. x + n - 1 = x /\ y + n - 1 = y
          BY <3>1, <4>1
        <4> QED BY <4>1, <4>2, Zenon
      <3>3. z \in Nat /\ (Present(r, c) => w[c] + z <= W[c])
        <4> DEFINE p == <<r, c>>
        <4>1. Present(r, c) => p \in CellPos /\ p[1] = r /\ p[2] = c
          BY CellsAre
        <4>2. Present(r, c) => BaseWidth(c, FALSE) + z <= BaseWidth(c, TRUE)
          BY <4>1, BaseIs
        <4> QED BY <2>2, <4>2, TagsAre
      <3>4. t = IF Present(r, c) THEN z ELSE 0
        OBVIOUS
      <3>5. w[c] <= W[c]
        BY <2>3 DEF Above
      <3> DEFINE wc == w[c]  Wc == W[c]
      <3>7. wc \in Nat /\ Wc \in Nat /\ x = wc /\ y = Wc /\ wc <= Wc
            /\ (Present(r, c) => wc + z <= Wc) /\ z \in Nat
        BY <1>2, <3>2, <3>3, <3>5
      <3> HIDE DEF t, x, y, z, wc, Wc
      <3>6. x + t <= y
        BY <3>4, <3>7
      <3> QED BY <3>6 DEF t, x, y
    <2>5. \A r \in 0 .. NRows - 1 : FitsInto(r, w, W)
      BY <2>4 DEF FitsInto
    <2> QED BY <1>1, <2>3, <2>5
  <1> QED BY <1>3, <1>4

\* No cell is wider than its place, if each slave has a master.
LEMMA CellsFit ==
  ASSUME Typed, ~Orphaned, NEW w, w = ColWidths(FALSE), NEW r \in 0 .. NRows - 1
  PROVE  ~CellFails(r, w)
  <1> SUFFICES ASSUME NEW c \in Printed(r), Present(r, c),
                      GroupWidth(w, r, c) < cell_vis_width(r, c)
               PROVE  FALSE
    BY DEF CellFails
  <1> DEFINE p == <<r, c>>  g == GroupWidth(w, r, c)  v == cell_vis_width(r, c)
  <1>1. c \in 0 .. NCols - 1
    BY DEF Printed
  <1>2. p \in CellPos /\ p[1] = r /\ p[2] = c
    BY <1>1, CellsAre
  <1>3. Type(r, c) = Cell(r, c).type /\ Type(r, c) \in {"COMMON", "MASTER", "SLAVE"}
    BY <1>1, TableIs DEF CellType
  <1>4. w \in Widths /\ Above(w, Base(FALSE))
        /\ (Type(r, c) = "MASTER" => Hint(r, c, FALSE) <= g)
    BY <1>1, ColWidthsIs
  <1>5. g \in Nat /\ v \in Nat
    <2>1. cell_vis_width(p[1], p[2]) \in Nat
      BY <1>2, VisIs
    <2> QED BY <1>1, <1>2, <1>4, <2>1, GroupWidthIs
  <1>6. CASE Type(r, c) = "MASTER"
    <2>1. v <= Hint(r, c, FALSE) /\ Hint(r, c, FALSE) \in Nat
      BY <1>1, HintIs
    <2> DEFINE h == Hint(r, c, FALSE)
    <2>2. v <= h /\ h <= g /\ h \in Nat /\ g < v
      BY <1>4, <1>6, <2>1
    <2> HIDE DEF h, g, v
    <2> QED BY <1>5, <2>2
  <1>7. CASE Type(r, c) = "COMMON"
    <2>1. v <= BaseWidth(c, FALSE)
      BY <1>1, <1>2, <1>3, <1>7, BaseIs
    <2>2. BaseWidth(c, FALSE) <= w[c]
      BY <1>1, <1>4 DEF Above, Base
    <2>3. g = w[c]
      <3>1. group_cell_number(r, c) = 1
        BY <1>7 DEF group_cell_number
      <3> QED BY <1>1, <1>4, <3>1, GroupWidthIs
    <2> DEFINE b == BaseWidth(c, FALSE)
    <2>4. v <= b /\ b <= g /\ b \in Nat /\ g < v
      BY <1>1, <2>1, <2>2, <2>3, BaseIs
    <2> HIDE DEF b, g, v
    <2> QED BY <1>5, <2>4
  <1>8. CASE Type(r, c) = "SLAVE"
    BY <1>2, <1>3, <1>8 DEF Orphaned
  <1> QED BY <1>3, <1>6, <1>7, <1>8

\* What a printing may come to, with the widths w.
LEMMA RenderedIs ==
  ASSUME NEW size, NEW o \in Rendered(size), NEW w, w = ColWidths(FALSE)
  PROVE  \/ o.status = "string" /\ o.lines = {}
         \/ NRows # 0 /\ o.status = "string" /\ o.lines = TableLines(w)
         \/ /\ o.status \in {"failed", "overrun"} /\ o.lines = {}
            /\ (\E r \in 0 .. NRows - 1 : CellFails(r, w)) \/ Bytes(w) >= size
  <1> DEFINE fails == \E r \in 0 .. NRows - 1 : CellFails(r, w)
             over == Bytes(w) >= size
  <1>1. o \in IF NRows = 0 THEN {Outcome("string", {})}
              ELSE IF over THEN {Outcome("failed", {}), Outcome("overrun", {})}
              ELSE IF fails THEN {Outcome("failed", {})}
              ELSE {Outcome("string", TableLines(w))}
    BY DEF Rendered
  <1>2. \A status, lines : /\ Outcome(status, lines).status = status
                          /\ Outcome(status, lines).lines = lines
    BY DEF Outcome
  <1> HIDE DEF fails, over
  <1>3. \/ o = Outcome("string", {})
        \/ NRows # 0 /\ o = Outcome("string", TableLines(w))
        \/ o \in {Outcome("failed", {}), Outcome("overrun", {})} /\ (fails \/ over)
    BY <1>1
  <1>4. CASE o = Outcome("string", {})
    BY <1>2, <1>4
  <1>5. CASE NRows # 0 /\ o = Outcome("string", TableLines(w))
    BY <1>2, <1>5
  <1>6. CASE o \in {Outcome("failed", {}), Outcome("overrun", {})} /\ (fails \/ over)
    <2>1. o.status \in {"failed", "overrun"} /\ o.lines = {}
      BY <1>2, <1>6
    <2> QED BY <1>6, <2>1 DEF fails, over
  <1> QED BY <1>3, <1>4, <1>5, <1>6

\* A printing into a buffer of the size reckoned fails for the two known reasons only.
LEMMA RenderedFits ==
  ASSUME Typed, NEW size \in Nat, size >= n_codepoints,
         NEW o \in Rendered(size), o.status \in {"failed", "overrun"}
  PROVE  Orphaned \/ (Grouped /\ Tagged)
  <1> SUFFICES ASSUME ~Orphaned, ~(Grouped /\ Tagged) PROVE FALSE
    OBVIOUS
  <1> DEFINE w == ColWidths(FALSE)
  <1>1. /\ w \in Widths /\ Above(ColWidths(TRUE), w)
        /\ \A r \in 0 .. NRows - 1 : FitsInto(r, w, ColWidths(TRUE))
    BY RowsFit
  <1>2. \A r \in 0 .. NRows - 1 : ~CellFails(r, w)
    BY CellsFit
  <1>3. (\E r \in 0 .. NRows - 1 : CellFails(r, w)) \/ Bytes(w) >= size
    <2>1. "string" \notin {"failed", "overrun"}
      OBVIOUS
    <2> QED BY <2>1, RenderedIs
  <1> DEFINE B == Bytes(w)  x == CodHeight * CodWidth
  <1> HIDE DEF w
  <1>4. B \in Nat /\ B <= x
    BY <1>1, BytesLe
  <1>5. x \in Nat /\ n_codepoints = x + 1
    BY CodIs DEF n_codepoints
  <1>6. B >= size
    BY <1>2, <1>3
  <1> HIDE DEF B, x
  <1> QED BY <1>4, <1>5, <1>6

-----------------------------------------------------------------------------
(* Level lines *)

\* Elements that are alike look alike.
LEMMA AlikeSeen ==
  ASSUME NEW m, NEW n, Alike(m, n)
  PROVE  Seen(m) = Seen(n)
BY DEF Alike, Seen

\* The style's elements in and around an ordinary row.
Side(x) == border_style.border[x]

\* How wide every line is that is printed.
LineWidth(w) ==
  left + Seen(Side("LL")) + Total(With(w, Seen(Side("IV"))), NCols) + Seen(Side("RR")) + right

\* Rows are that wide.
LEMMA RowLevel ==
  ASSUME Typed, ~Ragged, NEW w \in Widths, NEW r \in 0 .. NRows - 1
  PROVE  snprintf_row(r, w).vis = LineWidth(w)
  <1> DEFINE b == Chars4(Header(r))
             s == Seen(b["IV"])
  <1>1. /\ Alike(border_style.border["LL"], border_style.header["LL"])
        /\ Alike(border_style.border["IV"], border_style.header["IV"])
        /\ Alike(border_style.border["RR"], border_style.header["RR"])
    BY DEF Ragged
  <1>2. /\ Seen(b["LL"]) = Seen(Side("LL")) /\ Seen(b["IV"]) = Seen(Side("IV"))
        /\ Seen(b["RR"]) = Seen(Side("RR"))
    <2>1. CASE Header(r)
      BY <1>1, <2>1, AlikeSeen DEF Chars4, Side
    <2>2. CASE ~Header(r)
      BY <2>2 DEF Chars4, Side
    <2> QED BY <2>1, <2>2
  <1>3. s = 1 \/ \A c \in 0 .. NCols - 1 : group_cell_number(r, c) = 1
    <2> SUFFICES ASSUME s # 1, NEW c \in 0 .. NCols - 1 PROVE group_cell_number(r, c) = 1
      OBVIOUS
    <2>1. Side("IV") = 0
      BY <1>2 DEF Seen
    <2>2. \A p \in CellPos : Cell(p[1], p[2]).type = "COMMON"
      BY <2>1 DEF Ragged, Side
    <2>3. Type(r, c) # "MASTER"
      <3> SUFFICES ASSUME Type(r, c) = "MASTER" PROVE FALSE
        OBVIOUS
      <3> DEFINE p == <<r, c>>
      <3>1. p \in CellPos /\ Cell(r, c).type = "MASTER" /\ p[1] = r /\ p[2] = c
        BY MasterIs
      <3>2. Cell(p[1], p[2]).type = "COMMON"
        BY <2>2, <3>1
      <3> QED BY <3>1, <3>2
    <2> QED BY <2>3, GroupIs
  <1>4. b = Chars4(Header(r)) /\ s = Seen(b["IV"])
    OBVIOUS
  <1> HIDE DEF b, s
  <1>5. snprintf_row(r, w).vis
        = left + Seen(b["LL"]) + Total(With(w, s), NCols) + Seen(b["RR"]) + right
    BY <1>3, <1>4, RowVisIs
  <1> QED BY <1>2, <1>4, <1>5 DEF LineWidth

\* So are the lines between them.
LEMMA SepLevel ==
  ASSUME Typed, ~Ragged, NCols > 0, NRows > 0, NEW w \in Widths, NEW i \in 0 .. NRows, ~Blank(i)
  PROVE  print_row_separator(i, w).vis = LineWidth(w)
  <1> DEFINE ch == SepChars(i)
             s == Seen(Side("IV"))
  <1>1. /\ ch.I > 0 /\ Alike(ch.L, Side("LL")) /\ Alike(ch.R, Side("RR"))
        /\ Alike(ch.IV, Side("IV")) /\ Alike(ch.IT, Side("IV")) /\ Alike(ch.IB, Side("IV"))
    <2>1. Fits(i)
      BY DEF Ragged
    <2>2. ~({ch.L, ch.I, ch.IV, ch.R} = {0})
      BY DEF Blank
    <2> QED BY <2>1, <2>2 DEF Fits, Side
  <1>2. /\ Seen(ch.L) = Seen(Side("LL")) /\ Seen(ch.R) = Seen(Side("RR"))
        /\ Seen(ch.IV) = s /\ Seen(ch.IT) = s /\ Seen(ch.IB) = s
    <2> HIDE DEF ch, s
    <2> QED BY <1>1, AlikeSeen DEF s
  <1>3. Seen(ch.I) = 1 /\ ch.II = ch.I
    <2>1. ch = SepChars(i)
      OBVIOUS
    <2> HIDE DEF ch
    <2>2. ch.II = ch.I
      BY <2>1, SepCharsAre
    <2>3. ch.I # 0
      BY <1>1
    <2> QED BY <2>2, <2>3 DEF Seen
  <1>4. ASSUME NEW c \in 1 .. NCols - 1 PROVE Seen(Front(i, c)) = s
    <2>1. c \in Nat /\ c # 0 /\ c \in 0 .. NCols - 1 /\ NRows \in Nat
      BY TableIs
    <2>2. Front(i, c) = Crossing(ch, i, c)
      BY <2>1 DEF Front
    <2>3. CASE TypeAt(i - 1, c) = "SLAVE" /\ TypeAt(i, c) = "SLAVE"
      <3>1. PICK r \in 0 .. NRows - 1 : Type(r, c) = "SLAVE"
        <4>1. CASE i \in 0 .. NRows - 1
          BY <2>3, <4>1 DEF TypeAt
        <4>2. CASE ~(i \in 0 .. NRows - 1)
          <5>1. i - 1 \in 0 .. NRows - 1
            BY <2>1, <4>2
          <5> QED BY <2>3, <5>1 DEF TypeAt
        <4> QED BY <4>1, <4>2
      <3> DEFINE p == <<r, c>>
      <3>2. Present(r, c) /\ Cell(r, c).type = "SLAVE"
        BY <3>1 DEF Type
      <3>3. p \in CellPos /\ p[1] = r /\ p[2] = c
        BY <2>1, <3>2, CellsAre
      <3>4. Side("IV") # 0
        <4>1. Cell(p[1], p[2]).type # "COMMON"
          BY <3>2, <3>3
        <4> QED BY <3>3, <4>1 DEF Ragged, Side
      <3>5. s = 1
        BY <3>4 DEF Seen
      <3>6. Crossing(ch, i, c) = ch.II
        BY <2>3 DEF Crossing
      <3> HIDE DEF ch, s
      <3> QED BY <1>3, <2>2, <3>5, <3>6
    <2>4. CASE ~(TypeAt(i - 1, c) = "SLAVE" /\ TypeAt(i, c) = "SLAVE")
      <3>1. Crossing(ch, i, c) \in {ch.IT, ch.IB, ch.IV}
        <4> HIDE DEF ch
        <4> QED BY <2>4 DEF Crossing
      <3> HIDE DEF ch, s
      <3> QED BY <1>2, <2>2, <3>1
    <2> QED BY <2>3, <2>4
  <1>5. s \in Nat
    BY DEF Seen
  <1> DEFINE v == print_row_separator(i, w).vis
  <1>6. v = left + Seen(ch.L) + Total(With(w, s), NCols) + Seen(ch.R) + right
    <2>1. Seen(SepChars(i).I) = 1 /\ \A c \in 1 .. NCols - 1 : Seen(Front(i, c)) = s
      BY <1>3, <1>4
    <2> HIDE DEF s
    <2> QED BY <1>5, <2>1, SepVisIs
  <1> HIDE DEF ch, v
  <1> QED BY <1>2, <1>6 DEF LineWidth, v

\* Whatever is printed is level, then.
LEMMA RenderedLevel ==
  ASSUME Typed, ~Ragged, NCols > 0, NEW size, NEW o \in Rendered(size),
         NEW one \in o.lines, NEW other \in o.lines
  PROVE  one.vis = other.vis
  <1> DEFINE w == ColWidths(FALSE)
  <1>1. NRows \in Nat /\ w \in Widths
    BY TableIs, ColWidthsIs
  <1>2. NRows # 0 /\ o.lines \subseteq TableLines(w)
    BY RenderedIs
  <1> HIDE DEF w
  <1>3. ASSUME NEW l \in TableLines(w) PROVE l.vis = LineWidth(w)
    <2>1. NRows > 0
      BY <1>1, <1>2
    <2>2. \/ l # Nothing /\ \E i \in 0 .. NRows : l = print_row_separator(i, w)
          \/ \E r \in 0 .. NRows - 1 : l = snprintf_row(r, w)
      BY DEF TableLines
    <2>3. CASE \E r \in 0 .. NRows - 1 : l = snprintf_row(r, w)
      BY <1>1, <2>3, RowLevel
    <2>4. CASE l # Nothing /\ \E i \in 0 .. NRows : l = print_row_separator(i, w)
      <3>1. PICK i \in 0 .. NRows : l = print_row_separator(i, w)
        BY <2>4
      <3>2. ~Blank(i)
        BY <2>4, <3>1 DEF Blank, print_row_separator
      <3> QED BY <1>1, <2>1, <3>1, <3>2, SepLevel
    <2> QED BY <2>2, <2>3, <2>4
  <1> QED BY <1>2, <1>3

-----------------------------------------------------------------------------
(* The specification *)

\* The basic style has its type.
LEMMA BasicIs ==
  BASIC_STYLE \in BorderStyles
  <1>1. \A S : Only(S, 1) \in [BorderItems -> Nat]
    BY DEF Only
  <1>2. \A S : OnlySep(S, 1) \in [SepItems -> Nat]
    BY DEF OnlySep
  <1> QED BY <1>1, <1>2 DEF BASIC_STYLE, BorderStyles

\* The types, and that the buffer's size is a number.
PrintInv == Typed /\ conv_buffer \in Nat

\* They hold at first.
LEMMA PrintInit ==
  Init => PrintInv
  <1> SUFFICES ASSUME Init PROVE PrintInv
    OBVIOUS
  <1>1. rows \in Seq(Seq(CellRec))
    BY PrintAssumption DEF Init, CellRec
  <1>2. DOMAIN cell_properties = {}
    BY DEF Init
  <1>3. IsCont(cell_properties) /\ DOMAIN cell_properties \subseteq Places
    BY <1>2 DEF IsCont
  <1>4. IsDefaults(defaults)
    BY StartValues DEF Init
  <1>5. border_style \in BorderStyles /\ margins \in Nat \X Nat \X Nat \X Nat /\ conv_buffer \in Nat
    BY BasicIs DEF Init
  <1> QED BY <1>1, <1>3, <1>4, <1>5 DEF PrintInv, Typed

\* Setting a property keeps the types of the entries.
LEMMA SetTyped ==
  ASSUME Typed, NEW at \in Positions, NEW p \in Property, NEW v, MayBe(p, v),
         NEW new, new = set_cell_property(cell_properties, at, p, v, defaults)
  PROVE  IsCont(new) /\ DOMAIN new \subseteq Places
  <1>1. IsCont(cell_properties) /\ IsDefaults(defaults) /\ DOMAIN cell_properties \subseteq Places
    BY DEF Typed
  <1>2. OneSet(cell_properties, at, p, v, get_cell_prop_and_create(cell_properties, at, defaults), new)
    BY <1>1, SetCont
  <1>3. at \in Places
    BY PrintAssumption DEF Places
  <1> QED BY <1>1, <1>2, <1>3 DEF OneSet

\* Setting a default leaves the defaults an entry with every length.
LEMMA DefaultTyped ==
  ASSUME Typed, NEW s \in Settings, ft_set_default_cell_prop(s[1], s[2])
  PROVE  IsDefaults(defaults')
  <1> DEFINE p == s[1]  v == s[2]
  <1>1. p \in Property /\ MayBe(p, v) /\ IsDefaults(defaults)
    BY SettingsTyped DEF Typed
  <1>2. defaults' = set_cell_property_impl(defaults, p, v)
    BY DEF ft_set_default_cell_prop
  <1> HIDE DEF p, v
  <1> QED BY <1>1, <1>2, SetIsEntry

\* Every step keeps them.
LEMMA PrintNext ==
  PrintInv /\ [Next]_vars => PrintInv'
  <1> SUFFICES ASSUME PrintInv, [Next]_vars PROVE PrintInv'
    OBVIOUS
  <1> USE DEF PrintInv
  <1>0. ASSUME UNCHANGED <<rows, separators, props>> PROVE Typed'
    BY <1>0 DEF Typed, props
  <1>1. CASE Grow
    <2>1. conv_buffer' \in Nat
      <3>1. n_codepoints \in Nat
        BY CodIs
      <3> DEFINE n == n_codepoints
      <3>2. conv_buffer' = IF conv_buffer = 0 THEN n ELSE 2 * conv_buffer
        BY <1>1 DEF Grow
      <3> HIDE DEF n
      <3> QED BY <3>1, <3>2 DEF n
    <2> QED BY <1>0, <1>1, <2>1 DEF Grow
  <1>2. CASE ft_to_string
    BY <1>0, <1>2 DEF ft_to_string
  <1>3. CASE NoMemory
    BY <1>0, <1>3 DEF NoMemory
  <1>9. CASE Abort
    BY <1>0, <1>9 DEF Abort
  <1>4. ASSUME NEW at \in Positions, NEW s \in Settings, ft_set_cell_prop(at, s[1], s[2])
        PROVE  PrintInv'
    <2>1. s[1] \in Property /\ MayBe(s[1], s[2])
      BY SettingsTyped
    <2>2. cell_properties' = set_cell_property(cell_properties, at, s[1], s[2], defaults)
      BY <1>4 DEF ft_set_cell_prop
    <2>3. IsCont(cell_properties') /\ DOMAIN cell_properties' \subseteq Places
      BY <2>1, <2>2, SetTyped
    <2> QED BY <1>4, <2>3 DEF ft_set_cell_prop, Typed
  <1>5. ASSUME NEW s \in Settings, ft_set_default_cell_prop(s[1], s[2]) PROVE PrintInv'
    <2>1. IsDefaults(defaults')
      BY <1>5, DefaultTyped
    <2> QED BY <1>5, <2>1 DEF ft_set_default_cell_prop, Typed
  <1>6. ASSUME NEW style \in Styles, ft_set_border_style(style) PROVE PrintInv'
    BY <1>6, PrintAssumption DEF ft_set_border_style, Typed
  <1>7. ASSUME NEW m \in Margins, ft_set_tbl_prop(m) PROVE PrintInv'
    BY <1>7, PrintAssumption DEF ft_set_tbl_prop, Typed
  <1>8. CASE UNCHANGED vars
    BY <1>0, <1>8 DEF vars
  <1> QED BY <1>1, <1>2, <1>3, <1>4, <1>5, <1>6, <1>7, <1>8, <1>9 DEF Next

\* The variables have their types in every state.
THEOREM TypesKept ==
  Spec => []PrintInv
BY PrintInit, PrintNext, PTL DEF Spec

\* What the properties speak of changes only with the table, its separators, its
\* properties and its style.
LEMMA Unmoved ==
  ASSUME UNCHANGED <<rows, separators, props>>
  PROVE  /\ NCols' = NCols /\ (Ragged' <=> Ragged) /\ (Orphaned' <=> Orphaned)
         /\ (Grouped' <=> Grouped) /\ (Tagged' <=> Tagged)
  <1>1. /\ rows' = rows /\ separators' = separators /\ cell_properties' = cell_properties
        /\ defaults' = defaults /\ border_style' = border_style
    BY DEF props
  <1>2. NRows' = NRows /\ \A r : RowSize(r)' = RowSize(r)
    BY <1>1 DEF NRows, RowSize
  <1>3. NCols' = NCols
    BY <1>1 DEF NCols, NRows, RowSize
  <1>4. \A r, c : /\ Present(r, c)' <=> Present(r, c)
                  /\ Cell(r, c)' = Cell(r, c)
                  /\ Type(r, c)' = Type(r, c)
    BY <1>1, <1>2 DEF Present, Cell, Type, RowSize
  <1>5. CellPos' = CellPos
    BY <1>2, <1>3, <1>4 DEF CellPos
  <1>6. \A r, c : group_cell_number(r, c)' = group_cell_number(r, c)
    BY <1>1 DEF group_cell_number, Type, Present, Cell, RowSize
  <1>7. \A r : Printed(r)' = Printed(r)
    BY <1>3, <1>4, <1>6 DEF Printed
  <1>8. \A r, c, p : Prop(r, c, p)' = Prop(r, c, p)
    BY <1>1 DEF Prop
  <1>9. \A r, c : cell_invis_codes_width(r, c)' = cell_invis_codes_width(r, c)
    BY <1>8 DEF cell_invis_codes_width, CellTag, ContentTag, StyleTag
  <1>10. \A i : SepChars(i)' = SepChars(i)
    BY <1>1, <1>2, <1>8 DEF SepChars, Chars4, Header
  <1>11. \A i : Fits(i)' <=> Fits(i)
    BY <1>1, <1>10 DEF Fits
  <1>12. Ragged' <=> Ragged
    BY <1>1, <1>2, <1>4, <1>5, <1>11 DEF Ragged
  <1>13. Orphaned' <=> Orphaned
    BY <1>4, <1>5, <1>7 DEF Orphaned
  <1>14. (Grouped' <=> Grouped) /\ (Tagged' <=> Tagged)
    BY <1>4, <1>5, <1>9 DEF Grouped, Tagged
  <1> QED BY <1>3, <1>12, <1>13, <1>14

\* What is not a failure of the printing.
Unfailed(outcome) == outcome.status \notin {"failed", "overrun"} /\ outcome.lines = {}

\* Only ft_to_string shows lines or fails; every other step takes back what was
\* shown.
LEMMA ShownByPrinting ==
  ASSUME [Next]_vars
  PROVE  \/ /\ UNCHANGED <<rows, separators, props>>
            /\ shown' = shown \/ (conv_buffer >= n_codepoints /\ shown' \in Rendered(conv_buffer))
         \/ Unfailed(shown')
  <1>1. Grow \/ NoMemory \/ Abort \/ Change => Unfailed(shown')
    <2>1. Grow \/ NoMemory \/ Abort \/ Change =>
            shown' \in {Growing, NotShown, Outcome("no memory", {}), Outcome("aborted", {})}
      BY DEF Grow, NoMemory, Abort, Change
    <2>2. \A status : LET o == Outcome(status, {}) IN o.status = status /\ o.lines = {}
      BY DEF Outcome
    <2>3. \A status \in {"growing", "not shown", "no memory", "aborted"} :
            status \notin {"failed", "overrun"}
      OBVIOUS
    <2> QED BY <2>1, <2>2, <2>3 DEF Growing, NotShown, Unfailed
  <1>2. CASE ft_to_string
    BY <1>2 DEF ft_to_string
  <1>3. CASE UNCHANGED vars
    BY <1>3 DEF vars, props
  <1>4. Next => Grow \/ ft_to_string \/ NoMemory \/ Abort \/ Change
    BY DEF Next, ft_set_cell_prop, ft_set_default_cell_prop, ft_set_border_style, ft_set_tbl_prop
  <1> QED BY <1>1, <1>2, <1>3, <1>4

\* With memory, a table gets its string and its buffer is not overrun, but for
\* the two exceptions.
THEOREM PrintingFits ==
  Spec => []FailsOnlySpanned
  <1>1. Init => FailsOnlySpanned
    <2>1. Init => shown = NotShown
      BY Zenon DEF Init
    <2>2. NotShown.status \notin {"failed", "overrun"}
      BY DEF NotShown, Outcome
    <2> QED BY <2>1, <2>2, Zenon DEF FailsOnlySpanned
  <1>2. PrintInv /\ FailsOnlySpanned /\ [Next]_vars => FailsOnlySpanned'
    <2> SUFFICES ASSUME PrintInv, FailsOnlySpanned, [Next]_vars,
                        shown'.status \in {"failed", "overrun"}
                 PROVE  Orphaned' \/ (Grouped' /\ Tagged')
      BY DEF FailsOnlySpanned
    <2>1. /\ UNCHANGED <<rows, separators, props>>
          /\ shown' = shown \/ (conv_buffer >= n_codepoints /\ shown' \in Rendered(conv_buffer))
      BY ShownByPrinting DEF Unfailed
    <2>2. Orphaned \/ (Grouped /\ Tagged)
      BY <2>1, RenderedFits DEF FailsOnlySpanned, PrintInv
    <2> QED BY <2>1, <2>2, Unmoved
  <1> QED BY <1>1, <1>2, TypesKept, PTL DEF Spec

\* The lines of what is printed are level, whatever the style, as long as it
\* is not ragged.
THEOREM LinesAreLevel ==
  Spec => []LinesLevel
  <1>1. Init => LinesLevel
    <2>1. Init => shown = NotShown
      BY Zenon DEF Init
    <2>2. NotShown.lines = {}
      BY DEF NotShown, Outcome
    <2> QED BY <2>1, <2>2, Zenon DEF LinesLevel
  <1>2. PrintInv /\ LinesLevel /\ [Next]_vars => LinesLevel'
    <2> SUFFICES ASSUME PrintInv, LinesLevel, [Next]_vars, ~Ragged', NCols' > 0,
                        NEW one \in shown'.lines, NEW other \in shown'.lines
                 PROVE  one.vis = other.vis
      BY DEF LinesLevel
    <2>1. /\ UNCHANGED <<rows, separators, props>>
          /\ shown' = shown \/ (conv_buffer >= n_codepoints /\ shown' \in Rendered(conv_buffer))
      BY ShownByPrinting DEF Unfailed
    <2>2. ~Ragged /\ NCols > 0
      BY <2>1, Unmoved
    <2>3. CASE shown' = shown
      BY <2>2, <2>3 DEF LinesLevel
    <2>4. CASE shown' \in Rendered(conv_buffer)
      BY <2>2, <2>4, RenderedLevel DEF PrintInv
    <2> QED BY <2>1, <2>3, <2>4
  <1> QED BY <1>1, <1>2, TypesKept, PTL DEF Spec

\* A call that sets a property reaches the cells it should, and only those.
LEMMA SetReaches ==
  ASSUME Typed, NEW at \in Positions, NEW s \in Settings, ft_set_cell_prop(at, s[1], s[2]),
         NEW cell \in CellPos, NEW p \in Property, NEW r, r = cell[1], NEW c, c = cell[2]
  PROVE  IF p = s[1] /\ Reaches(at, r, c) /\ ~Closer(at, r, c, p)
         THEN \/ Refused(p, s[2]) /\ Prop(r, c, p)' \in {Prop(r, c, p), 0}
              \/ p \in TStyles /\ s[2] \subseteq Prop(r, c, p)'
              \/ p \notin TStyles /\ Prop(r, c, p)' = s[2]
         ELSE Prop(r, c, p)' = Prop(r, c, p)
  <1>1. r \in Nat /\ c \in Nat
    BY CellsAre, TableIs
  <1>2. /\ IsCont(cell_properties) /\ DOMAIN cell_properties \subseteq Places /\ IsDefaults(defaults)
        /\ at \in Places
    BY PrintAssumption DEF Typed, Places
  <1>3. s[1] \in Property /\ MayBe(s[1], s[2])
    BY SettingsTyped
  <1>4. /\ cell_properties' = set_cell_property(cell_properties, at, s[1], s[2], defaults)
        /\ defaults' = defaults
    BY DEF ft_set_cell_prop
  <1>5. /\ Prop(r, c, p) = Found(cell_properties, defaults, r, c, p)
        /\ Prop(r, c, p)' = Found(cell_properties', defaults, r, c, p)
    BY <1>4, LookupIs DEF Prop
  <1>6. Closer(at, r, c, p) <=> CloserIn(cell_properties, at, r, c, p)
    BY DEF Closer, CloserIn
  <1>7. PICK q, v : q = s[1] /\ v = s[2]
    OBVIOUS
  <1>8. IF p = q /\ Reaches(at, r, c) /\ ~CloserIn(cell_properties, at, r, c, p)
        THEN \/ Refused(p, v) /\ Prop(r, c, p)' \in {Prop(r, c, p), 0}
             \/ p \in TStyles /\ v \subseteq Prop(r, c, p)'
             \/ p \notin TStyles /\ Prop(r, c, p)' = v
        ELSE Prop(r, c, p)' = Prop(r, c, p)
    <2>1. q \in Property /\ MayBe(q, v)
          /\ cell_properties' = set_cell_property(cell_properties, at, q, v, defaults)
      BY <1>3, <1>4, <1>7
    <2> QED BY <1>1, <1>2, <1>5, <2>1, ReadAfterSet
  <1> QED BY <1>6, <1>7, <1>8

\* So it is in every step.
THEOREM SettingReaches ==
  Spec => SetReachesItsCells
  <1> DEFINE A == \A at \in Positions, s \in Settings : ft_set_cell_prop(at, s[1], s[2]) =>
                    \A cell \in CellPos, p \in Property : LET r == cell[1]  c == cell[2] IN
                      IF p = s[1] /\ Reaches(at, r, c) /\ ~Closer(at, r, c, p)
                      THEN \/ Refused(p, s[2]) /\ Prop(r, c, p)' \in {Prop(r, c, p), 0}
                           \/ p \in TStyles /\ s[2] \subseteq Prop(r, c, p)'
                           \/ p \notin TStyles /\ Prop(r, c, p)' = s[2]
                      ELSE Prop(r, c, p)' = Prop(r, c, p)
  <1>1. PrintInv => A
    BY SetReaches DEF PrintInv
  <1> HIDE DEF A
  <1>2. Spec => [][A]_vars
    BY <1>1, TypesKept, PTL DEF Spec
  <1> QED BY <1>2 DEF A, SetReachesItsCells
=============================================================================
