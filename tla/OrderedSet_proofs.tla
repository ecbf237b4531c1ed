------------------------- MODULE OrderedSet_proofs -------------------------
(***************************************************************************)
(* The linked table of OrderedSet stands for one sequence of distinct      *)
(* values, and every method has on that sequence the effect, and returns   *)
(* the result, that AbstractOrderedSet states: for every finite set of     *)
(* values and every sequence of calls.                                     *)
(***************************************************************************)
EXTENDS OrderedSet, DistinctSeq_proofs, FiniteSetTheorems

(***************************************************************************)
(* The inductive invariant.  Represents already relates every link of the  *)
(* table to the sequence; it is inductive together with the types.         *)
(***************************************************************************)
Distinct(s) == s \in Seq(Element) /\ NoRepeats(s)

LInv == TypeOK /\ \E s \in Seq(Element) : NoRepeats(s) /\ Represents(s)

(* The values of s are chained in order from FIRST by the links f.         *)
Chained(f, s) ==
  \A i \in 0..Len(s) : f[KeyAt(s, i)] = IF i < Len(s) THEN s[i + 1] ELSE NIL

(* The two special values are not elements, and differ.                    *)
LEMMA Values == FIRST \notin Element /\ NIL \notin Element /\ NIL # FIRST
BY ElementAssumption

(* The keys of a sequence of values, and their places.                     *)
LEMMA Places ==
  ASSUME NEW s, Distinct(s)
  PROVE  /\ s \in Seq(Element) /\ NoRepeats(s) /\ Len(s) \in Nat
         /\ Pos(s, FIRST) = 0 /\ KeyAt(s, 0) = FIRST
         /\ \A i \in 1..Len(s) :
              /\ s[i] \in ToSet(s) /\ s[i] \in Element /\ KeyAt(s, i) = s[i]
              /\ Pos(s, s[i]) = i
         /\ \A e \in ToSet(s) : e \in Element /\ Pos(s, e) \in 1..Len(s) /\ s[Pos(s, e)] = e
         /\ \A i \in 0..Len(s) : KeyAt(s, i) \in Keys(s) /\ Pos(s, KeyAt(s, i)) = i
         /\ \A k \in Keys(s) : Pos(s, k) \in 0..Len(s) /\ KeyAt(s, Pos(s, k)) = k
         /\ Keys(s) \subseteq Key
<1>1. s \in Seq(Element) /\ NoRepeats(s)
  BY DEF Distinct
<1>2. /\ Pos(s, FIRST) = 0 /\ Len(s) \in Nat
      /\ \A e \in ToSet(s) : Pos(s, e) \in 1..Len(s) /\ s[Pos(s, e)] = e
      /\ \A i \in 1..Len(s) : s[i] \in ToSet(s) /\ Pos(s, s[i]) = i
      /\ ToSet(s) \subseteq Element
  BY <1>1, Values, PosFacts
<1>3. KeyAt(s, 0) = FIRST /\ \A i \in 1..Len(s) : KeyAt(s, i) = s[i]
  BY DEF KeyAt
<1>4. \A i \in 0..Len(s) : i = 0 \/ i \in 1..Len(s)
  BY <1>2
<1>5. \A i \in 0..Len(s) : KeyAt(s, i) \in Keys(s) /\ Pos(s, KeyAt(s, i)) = i
  BY <1>2, <1>3, <1>4 DEF Keys
<1>6. \A k \in Keys(s) : Pos(s, k) \in 0..Len(s) /\ KeyAt(s, Pos(s, k)) = k
  BY <1>2, <1>3 DEF Keys
<1>7. Keys(s) \subseteq Key
  BY <1>2 DEF Keys, Key
<1> QED BY <1>1, <1>2, <1>3, <1>5, <1>6, <1>7

(* The links determine the sequence.                                       *)
LEMMA OneSequence ==
  ASSUME NEW f, NEW s, NEW t, Distinct(s), Distinct(t), Chained(f, s), Chained(f, t)
  PROVE  Len(s) <= Len(t) /\ \A i \in 1..Len(s) : s[i] = t[i]
<1> DEFINE Differ == {i \in Nat : i <= Len(s) /\ ~(i <= Len(t) /\ KeyAt(s, i) = KeyAt(t, i))}
<1>0. /\ Len(s) \in Nat /\ Len(t) \in Nat /\ KeyAt(s, 0) = FIRST /\ KeyAt(t, 0) = FIRST
      /\ \A i \in 1..Len(s) : KeyAt(s, i) = s[i] /\ s[i] \in Element
      /\ \A i \in 1..Len(t) : KeyAt(t, i) = t[i] /\ t[i] \in Element
  BY Places
<1>1. Differ = {}
  <2> SUFFICES ASSUME Differ # {} PROVE FALSE
    OBVIOUS
  <2>1. PICK m \in Differ : \A n \in Differ : m <= n
    <3>1. Differ \in SUBSET Nat
      OBVIOUS
    <3> HIDE DEF Differ
    <3> QED BY <3>1, LeastNatural
  <2>2. m \in Nat /\ m <= Len(s) /\ ~(m <= Len(t) /\ KeyAt(s, m) = KeyAt(t, m))
    OBVIOUS
  <2>3. m # 0
    BY <1>0, <2>2
  <2>4. m - 1 \in Nat /\ m - 1 \notin Differ
    BY <2>1, <2>2, <2>3
  <2>5. m - 1 <= Len(t) /\ KeyAt(s, m - 1) = KeyAt(t, m - 1)
    BY <1>0, <2>2, <2>4
  <2>6. f[KeyAt(s, m - 1)] = s[m]
    <3>1. m - 1 \in 0..Len(s) /\ m - 1 < Len(s) /\ (m - 1) + 1 = m
      BY <1>0, <2>2, <2>3
    <3> QED BY <3>1 DEF Chained
  <2>7. f[KeyAt(t, m - 1)] = IF m - 1 < Len(t) THEN t[m] ELSE NIL
    <3>1. m - 1 \in 0..Len(t) /\ (m - 1) + 1 = m
      BY <1>0, <2>2, <2>3, <2>5
    <3> QED BY <3>1 DEF Chained
  <2>8. m \in 1..Len(s) /\ s[m] # NIL
    BY <1>0, <2>2, <2>3, Values
  <2>9. m \in 1..Len(t) /\ s[m] = t[m]
    BY <1>0, <2>2, <2>3, <2>5, <2>6, <2>7, <2>8
  <2> QED BY <1>0, <2>2, <2>8, <2>9
<1>2. ASSUME NEW i \in 0..Len(s) PROVE i <= Len(t) /\ KeyAt(s, i) = KeyAt(t, i)
  BY <1>0, <1>1
<1>3. Len(s) <= Len(t)
  BY <1>0, <1>2
<1>4. ASSUME NEW i \in 1..Len(s) PROVE s[i] = t[i]
  <2>1. i \in 0..Len(s) /\ i \in 1..Len(t)
    BY <1>0, <1>3
  <2> QED BY <2>1, <1>0, <1>2
<1> QED BY <1>3, <1>4

(* A table represents one sequence at most.                                *)
LEMMA SameSequence ==
  ASSUME NEW f, NEW s, NEW t, Distinct(s), Distinct(t), Chained(f, s), Chained(f, t)
  PROVE  s = t
<1>1. Len(s) <= Len(t) /\ \A i \in 1..Len(s) : s[i] = t[i]
  BY OneSequence
<1>2. Len(t) <= Len(s)
  BY OneSequence
<1>3. s \in Seq(Element) /\ t \in Seq(Element) /\ Len(s) \in Nat /\ Len(t) \in Nat
  BY Places
<1>4. Len(s) = Len(t)
  BY <1>1, <1>2, <1>3
<1> QED BY <1>1, <1>3, <1>4, SeqEqual

(* Orders holds every sequence of distinct values: none is longer than the *)
(* set of values is large.                                                 *)
LEMMA OrdersAreDistinct == \A s : s \in Orders <=> Distinct(s)
<1>0. Cardinality(Element) \in Nat
  BY ElementAssumption, FS_CardinalityType
<1>1. ASSUME NEW s \in Orders PROVE Distinct(s)
  <2>1. PICK n \in 0..Cardinality(Element) : s \in [1..n -> Element]
    BY DEF Orders
  <2>2. n \in Nat
    BY <1>0, <2>1
  <2>3. s \in Seq(Element)
    BY <2>1, <2>2
  <2> QED BY <2>3 DEF Orders, Distinct, NoRepeats
<1>2. ASSUME NEW s, Distinct(s) PROVE s \in Orders
  <2>1. /\ s \in [1..Len(s) -> Element] /\ Len(s) \in Nat /\ NoRepeats(s)
        /\ DOMAIN s = 1..Len(s)
    BY <1>2, LenProperties DEF Distinct
  <2>2. IsFiniteSet(1..Len(s)) /\ Cardinality(1..Len(s)) = Len(s)
    <3> DEFINE n == Len(s)
    <3>1. n \in Nat
      BY <2>1
    <3> HIDE DEF n
    <3>2. IsFiniteSet(1..n) /\ Cardinality(1..n) = IF 1 > n THEN 0 ELSE n - 1 + 1
      BY <3>1, FS_Interval
    <3>3. Cardinality(1..n) = n
      BY <3>1, <3>2
    <3> QED BY <3>2, <3>3 DEF n
  <2>3. Len(s) <= Cardinality(Element)
    <3> SUFFICES ASSUME Cardinality(Element) < Len(s) PROVE FALSE
      BY <1>0, <2>1
    <3>1. \E x, y \in 1..Len(s) : x # y /\ s[x] = s[y]
      BY <2>1, <2>2, ElementAssumption, FS_PigeonHole
    <3> QED BY <3>1, <2>1 DEF NoRepeats
  <2>4. Len(s) \in 0..Cardinality(Element)
    BY <1>0, <2>1, <2>3
  <2>5. s \in UNION {[1..n -> Element] : n \in 0..Cardinality(Element)}
    BY <2>1, <2>4
  <2> QED BY <2>1, <2>5 DEF Orders, NoRepeats
<1> QED BY <1>1, <1>2

(* Order is the sequence the table represents, before a call and after.    *)
LEMMA OrderIs ==
  ASSUME NEW s, Distinct(s), Represents(s)
  PROVE  Order = s
<1>1. s \in Orders
  BY OrdersAreDistinct
<1>2. Order \in Orders /\ Represents(Order)
  BY <1>1 DEF Order
<1>3. Chained(link, s) /\ Chained(link, Order)
  BY <1>2 DEF Represents, Chained
<1>4. Distinct(Order)
  BY <1>2, OrdersAreDistinct
<1> HIDE DEF Order
<1> QED BY <1>3, <1>4, SameSequence

(* The sequence that a table comes to represent is its order.              *)
LEMMA OrderBecomes ==
  ASSUME NEW s, Distinct(s), Represents(s)'
  PROVE  Order' = s
<1>1. s \in Orders
  BY OrdersAreDistinct
<1>2. Order' \in Orders /\ (\E t \in Orders : t = Order' /\ Represents(t)')
  BY <1>1 DEF Order
<1>3. PICK t \in Orders : t = Order' /\ Represents(t)'
  BY <1>2
<1>4. Chained(link', s) /\ Chained(link', t)
  BY <1>3 DEF Represents, Chained
<1>5. Distinct(t)
  BY <1>3, OrdersAreDistinct
<1> QED BY <1>3, <1>4, <1>5, SameSequence

(***************************************************************************)
(* previous(): the walk along the links.                                   *)
(***************************************************************************)
(* What a table that represents s answers for its keys.                    *)
LEMMA TableFacts ==
  ASSUME TypeOK, NEW s, Distinct(s), Represents(s)
  PROVE  /\ link \in [Key -> Element \cup {NIL}]
         /\ \A i \in 0..Len(s) : link[KeyAt(s, i)] = IF i < Len(s) THEN s[i + 1] ELSE NIL
         /\ \A k \in Keys(s) : link[k] = IF Pos(s, k) < Len(s) THEN s[Pos(s, k) + 1] ELSE NIL
         /\ \A k \in Element \ ToSet(s) : link[k] = NIL
         /\ s = <<>> => last \in {NIL, FIRST}
         /\ s # <<>> => last = s[Len(s)] /\ Len(s) \in 1..Len(s)
         /\ s = <<>> <=> Len(s) = 0
         /\ \A e \in Element : ContainsKey(e) <=> e \in ToSet(s)
<1>1. /\ s \in Seq(Element) /\ Len(s) \in Nat
      /\ \A i \in 1..Len(s) : s[i] \in ToSet(s) /\ s[i] \in Element
      /\ \A k \in Keys(s) : Pos(s, k) \in 0..Len(s) /\ KeyAt(s, Pos(s, k)) = k
  BY Places
<1>2. /\ \A i \in 0..Len(s) : link[KeyAt(s, i)] = IF i < Len(s) THEN s[i + 1] ELSE NIL
      /\ \A k \in Element \ ToSet(s) : link[k] = NIL
      /\ IF s = <<>> THEN last \in {NIL, FIRST} ELSE last = s[Len(s)]
  BY DEF Represents
<1>3. \A k \in Keys(s) : link[k] = IF Pos(s, k) < Len(s) THEN s[Pos(s, k) + 1] ELSE NIL
  BY <1>1, <1>2
<1>4. s = <<>> <=> Len(s) = 0
  BY <1>1, EmptySeq
<1>5. s # <<>> => last = s[Len(s)] /\ Len(s) \in 1..Len(s)
  BY <1>1, <1>2, <1>4
<1>6. ASSUME NEW e \in Element PROVE ContainsKey(e) <=> e \in ToSet(s)
  <2>1. CASE e \notin ToSet(s)
    <3>1. link[e] = NIL
      BY <1>2, <2>1
    <3>2. e # last
      BY <1>1, <1>2, <1>5, <2>1, Values
    <3> QED BY <2>1, <3>1, <3>2 DEF ContainsKey
  <2>2. CASE e \in ToSet(s)
    <3>1. /\ Pos(s, e) \in 1..Len(s) /\ s[Pos(s, e)] = e /\ e \in Keys(s)
      BY <2>2, Places DEF Keys
    <3>2. CASE Pos(s, e) < Len(s)
      <4>1. Pos(s, e) + 1 \in 1..Len(s)
        BY <1>1, <3>1, <3>2
      <4>2. link[e] = s[Pos(s, e) + 1]
        BY <1>3, <3>1, <3>2
      <4> QED BY <1>1, <2>2, <4>1, <4>2, Values DEF ContainsKey
    <3>3. CASE Pos(s, e) = Len(s)
      <4>1. e = last
        BY <1>1, <1>4, <1>5, <3>1, <3>3
      <4> QED BY <2>2, <4>1 DEF ContainsKey
    <3> QED BY <1>1, <3>1, <3>2, <3>3
  <2> QED BY <2>1, <2>2
<1> QED BY <1>1, <1>2, <1>3, <1>4, <1>5, <1>6 DEF TypeOK

(* A walk from a key visits that key and those after it; one from a value  *)
(* that is not in the set ends at once.                                    *)
LEMMA WalkedKeys ==
  ASSUME TypeOK, NEW s, Distinct(s), Represents(s), NEW start \in Key
  PROVE  Walked(start) = IF start \in Keys(s) THEN {KeyAt(s, i) : i \in Pos(s, start)..Len(s)}
                         ELSE {start}
<1>0. /\ Len(s) \in Nat /\ Keys(s) \subseteq Key
      /\ \A i \in 0..Len(s) : KeyAt(s, i) \in Keys(s)
      /\ \A i \in 1..Len(s) : KeyAt(s, i) = s[i] /\ s[i] # NIL
      /\ \A i \in 0..Len(s) : link[KeyAt(s, i)] = IF i < Len(s) THEN s[i + 1] ELSE NIL
  BY Places, TableFacts, Values
<1>1. CASE start \in Keys(s)
  <2> DEFINE p == Pos(s, start)
             after == {KeyAt(s, i) : i \in p..Len(s)}
  <2>1. p \in 0..Len(s) /\ KeyAt(s, p) = start
    BY <1>1, Places
  <2>2. \A i \in p..Len(s) : i \in 0..Len(s)
    BY <1>0, <2>1
  <2> HIDE DEF p
  <2>3. after \in SUBSET Key /\ start \in after
    <3>1. p \in p..Len(s)
      BY <1>0, <2>1
    <3> QED BY <1>0, <2>1, <2>2, <3>1
  <2>4. Closed(after)
    <3> SUFFICES ASSUME NEW i \in p..Len(s), link[KeyAt(s, i)] # NIL
                 PROVE  link[KeyAt(s, i)] \in after
      BY DEF Closed
    <3>1. i < Len(s) /\ link[KeyAt(s, i)] = s[i + 1]
      BY <1>0, <2>2
    <3>2. i + 1 \in p..Len(s) /\ i + 1 \in 1..Len(s)
      BY <1>0, <2>1, <2>2, <3>1
    <3> QED BY <1>0, <3>1, <3>2
  <2>5. Walked(start) \subseteq after
    BY <2>3, <2>4 DEF Walked
  <2>6. ASSUME NEW S \in SUBSET Key, start \in S, Closed(S) PROVE after \subseteq S
    <3> DEFINE Missed == {i \in Nat : i \in p..Len(s) /\ KeyAt(s, i) \notin S}
    <3>1. Missed = {}
      <4> SUFFICES ASSUME Missed # {} PROVE FALSE
        OBVIOUS
      <4>1. PICK m \in Missed : \A n \in Missed : m <= n
        <5>1. Missed \in SUBSET Nat
          OBVIOUS
        <5> HIDE DEF Missed
        <5> QED BY <5>1, LeastNatural
      <4>2. m \in Nat /\ m \in p..Len(s) /\ KeyAt(s, m) \notin S
        OBVIOUS
      <4>3. m # p
        BY <2>1, <2>6, <4>2
      <4>4. m - 1 \in Nat /\ m - 1 \in p..Len(s) /\ m - 1 \in 0..Len(s) /\ m - 1 < Len(s)
            /\ m \in 1..Len(s) /\ (m - 1) + 1 = m
        BY <1>0, <2>1, <4>2, <4>3
      <4>5. KeyAt(s, m - 1) \in S
        BY <4>1, <4>4
      <4>6. link[KeyAt(s, m - 1)] = s[m] /\ s[m] # NIL /\ KeyAt(s, m) = s[m]
        BY <1>0, <4>4
      <4> QED BY <2>6, <4>2, <4>5, <4>6 DEF Closed
    <3>2. \A i \in p..Len(s) : i \in Nat
      BY <2>1
    <3> QED BY <3>1, <3>2
  <2>7. after \subseteq Walked(start)
    BY <2>3, <2>6 DEF Walked
  <2> QED BY <1>1, <2>5, <2>7 DEF p
<1>2. CASE start \notin Keys(s)
  <2>1. start \in Element \ ToSet(s)
    BY <1>2 DEF Key, Keys
  <2>2. link[start] = NIL
    BY <2>1, TableFacts
  <2>3. {start} \in SUBSET Key /\ Closed({start})
    BY <2>2 DEF Closed
  <2>4. Walked(start) \subseteq {start} /\ start \in Walked(start)
    BY <2>3 DEF Walked
  <2> QED BY <1>2, <2>4
<1> QED BY <1>1, <1>2

(* previous(): the key before the value, if the walk meets the value.      *)
LEMMA PreviousKey ==
  ASSUME TypeOK, NEW s, Distinct(s), Represents(s), NEW e \in Element, NEW start \in Key
  PROVE  Previous(e, start) = KeyBefore(s, e, start)
<1> DEFINE found == {k \in Walked(start) : link[k] = e}
<1>0. /\ Len(s) \in Nat
      /\ \A i \in 1..Len(s) : s[i] \in ToSet(s) /\ Pos(s, s[i]) = i
      /\ \A i \in 0..Len(s) : link[KeyAt(s, i)] = IF i < Len(s) THEN s[i + 1] ELSE NIL
      /\ ContainsKey(e) <=> e \in ToSet(s)
      /\ e # NIL
  BY Places, TableFacts, Values
<1>1. ASSUME start \in Keys(s), NEW i \in Pos(s, start)..Len(s), link[KeyAt(s, i)] = e
      PROVE  Found(s, e, start) /\ i = Pos(s, e) - 1
  <2>1. Pos(s, start) \in 0..Len(s)
    BY <1>1, Places
  <2>2. i \in 0..Len(s)
    BY <1>0, <2>1
  <2>3. i < Len(s) /\ s[i + 1] = e
    BY <1>0, <1>1, <2>2
  <2>4. i + 1 \in 1..Len(s)
    BY <1>0, <2>2, <2>3
  <2>5. e \in ToSet(s) /\ Pos(s, e) = i + 1
    BY <1>0, <2>3, <2>4
  <2>6. Pos(s, start) < Pos(s, e)
    BY <2>1, <2>2, <2>5
  <2> QED BY <1>1, <2>2, <2>5, <2>6 DEF Found
<1>2. CASE Found(s, e, start)
  <2>1. e \in ToSet(s) /\ start \in Keys(s) /\ Pos(s, start) < Pos(s, e)
    BY <1>2 DEF Found
  <2>2. Pos(s, e) \in 1..Len(s) /\ s[Pos(s, e)] = e /\ Pos(s, start) \in 0..Len(s)
    BY <2>1, Places
  <2> DEFINE i == Pos(s, e) - 1
  <2>3. i \in Pos(s, start)..Len(s) /\ i \in 0..Len(s) /\ i < Len(s) /\ i + 1 = Pos(s, e)
    BY <1>0, <2>1, <2>2
  <2> HIDE DEF i
  <2>4. link[KeyAt(s, i)] = e
    BY <1>0, <2>2, <2>3
  <2>5. Walked(start) = {KeyAt(s, j) : j \in Pos(s, start)..Len(s)}
    BY <2>1, WalkedKeys
  <2>6. \A k \in found : k = KeyAt(s, i)
    BY <1>1, <2>1, <2>5 DEF i
  <2>7. KeyAt(s, i) \in found
    BY <2>3, <2>4, <2>5
  <2>8. found = {KeyAt(s, i)}
    BY <2>6, <2>7
  <2>9. Previous(e, start) = KeyAt(s, i)
    BY <1>0, <2>1, <2>8 DEF Previous
  <2> QED BY <1>2, <2>9 DEF KeyBefore, i
<1>3. CASE ~Found(s, e, start)
  <2>1. CASE start \in Keys(s)
    <3>1. Walked(start) = {KeyAt(s, j) : j \in Pos(s, start)..Len(s)}
      BY <2>1, WalkedKeys
    <3>2. found = {}
      BY <1>1, <1>3, <2>1, <3>1
    <3> QED BY <1>3, <3>2 DEF Previous, KeyBefore
  <2>2. CASE start \notin Keys(s)
    <3>1. Walked(start) = {start} /\ start \in Element \ ToSet(s)
      BY <2>2, WalkedKeys DEF Key, Keys
    <3>2. link[start] = NIL
      BY <3>1, TableFacts
    <3>3. found = {}
      BY <1>0, <3>1, <3>2
    <3> QED BY <1>3, <3>3 DEF Previous, KeyBefore
  <2> QED BY <2>1, <2>2
<1> QED BY <1>2, <1>3

(***************************************************************************)
(* The methods, each by its effect on the sequence.                        *)
(***************************************************************************)
(* Linking a new value after a key puts it there in the sequence.          *)
LEMMA LinkedIn ==
  ASSUME TypeOK, NEW s, Distinct(s), Represents(s), NEW e \in Element \ ToSet(s),
         NEW p \in Keys(s), NEW t, Distinct(t),
         Len(t) = Len(s) + 1, ToSet(t) = ToSet(s) \cup {e},
         \A j \in 1..(Len(s) + 1) :
           t[j] = IF j < Pos(s, p) + 1 THEN s[j] ELSE IF j = Pos(s, p) + 1 THEN e ELSE s[j - 1],
         \A k \in Key : link'[k] = IF k = p THEN e ELSE IF k = e THEN link[p] ELSE link[k],
         last' = IF link[p] = NIL THEN e ELSE last
  PROVE  Represents(t)'
<1> DEFINE i == Pos(s, p)
<1>0. /\ Len(s) \in Nat /\ KeyAt(s, i) = p /\ i \in 0..Len(s) /\ p # e /\ e # NIL /\ e # FIRST
      /\ Keys(s) \subseteq Key /\ e \in Key /\ e \notin Keys(s) /\ p \in Key
      /\ \A j \in 0..Len(s) : KeyAt(s, j) \in Keys(s) /\ Pos(s, KeyAt(s, j)) = j
      /\ \A j \in 1..Len(s) : s[j] # NIL
  BY Places, Values DEF Keys, Key
<1>1. /\ \A j \in 0..Len(s) : link[KeyAt(s, j)] = IF j < Len(s) THEN s[j + 1] ELSE NIL
      /\ \A k \in Element \ ToSet(s) : link[k] = NIL
      /\ s # <<>> => last = s[Len(s)]
      /\ s = <<>> <=> Len(s) = 0
  BY TableFacts
<1> HIDE DEF i
<1>2. /\ Len(t) = Len(s) + 1
      /\ \A j \in 1..(Len(s) + 1) :
           t[j] = IF j < i + 1 THEN s[j] ELSE IF j = i + 1 THEN e ELSE s[j - 1]
  BY DEF i
<1>3. link[p] = NIL <=> i = Len(s)
  <2>1. link[p] = IF i < Len(s) THEN s[i + 1] ELSE NIL
    BY <1>0, <1>1
  <2>2. i < Len(s) => i + 1 \in 1..Len(s)
    BY <1>0
  <2> QED BY <2>1, <2>2, <1>0
<1>4. t # <<>> /\ last' = t[Len(t)]
  <2>1. t # <<>>
    BY <1>0, <1>2, EmptySeq DEF Distinct
  <2>2. CASE i = Len(s)
    BY <1>0, <1>2, <1>3, <2>1, <2>2
  <2>3. CASE i < Len(s)
    <3>1. Len(s) # 0 /\ last' = last
      BY <1>0, <1>3, <2>3
    <3>2. t[Len(s) + 1] = s[Len(s)]
      BY <1>0, <1>2, <2>3
    <3> QED BY <1>1, <1>2, <2>1, <3>1, <3>2
  <2> QED BY <1>0, <2>2, <2>3
<1>5. ASSUME NEW j \in 0..Len(t)
      PROVE  link'[KeyAt(t, j)] = IF j < Len(t) THEN t[j + 1] ELSE NIL
  <2>0. j \in 0..(Len(s) + 1)
    BY <1>2
  <2>1. CASE j < i
    <3>1. KeyAt(t, j) = KeyAt(s, j)
      BY <1>0, <1>2, <2>0, <2>1 DEF KeyAt
    <3>2. j \in 0..Len(s) /\ j < Len(s) /\ KeyAt(s, j) # p /\ KeyAt(s, j) \in Keys(s)
      BY <1>0, <2>0, <2>1
    <3>3. link'[KeyAt(s, j)] = s[j + 1]
      BY <1>0, <1>1, <3>2
    <3>4. t[j + 1] = s[j + 1] /\ j < Len(t)
      BY <1>0, <1>2, <2>0, <2>1
    <3> QED BY <3>1, <3>3, <3>4
  <2>2. CASE j = i
    <3>1. KeyAt(t, j) = p
      BY <1>0, <1>2, <2>0, <2>2 DEF KeyAt
    <3>2. t[j + 1] = e /\ j < Len(t)
      BY <1>0, <1>2, <2>0, <2>2
    <3> QED BY <3>1, <3>2, <1>0
  <2>3. CASE j = i + 1
    <3>1. KeyAt(t, j) = e
      BY <1>0, <1>2, <2>0, <2>3 DEF KeyAt
    <3>2. link'[e] = IF i < Len(s) THEN s[i + 1] ELSE NIL
      BY <1>0, <1>1
    <3>3. i < Len(s) => t[j + 1] = s[i + 1]
      BY <1>0, <1>2, <2>0, <2>3
    <3> QED BY <1>0, <1>2, <2>3, <3>1, <3>2, <3>3
  <2>4. CASE j > i + 1
    <3>1. KeyAt(t, j) = KeyAt(s, j - 1)
      BY <1>0, <1>2, <2>0, <2>4 DEF KeyAt
    <3>2. j - 1 \in 0..Len(s) /\ KeyAt(s, j - 1) # p /\ KeyAt(s, j - 1) \in Keys(s)
      BY <1>0, <2>0, <2>4
    <3>3. link'[KeyAt(s, j - 1)] = IF j - 1 < Len(s) THEN s[j] ELSE NIL
      <4>1. (j - 1) + 1 = j
        BY <2>0
      <4> QED BY <1>0, <1>1, <3>2, <4>1
    <3>4. j - 1 < Len(s) => t[j + 1] = s[j]
      BY <1>0, <1>2, <2>0, <2>4
    <3>5. j < Len(t) <=> j - 1 < Len(s)
      BY <1>0, <1>2, <2>0
    <3> QED BY <3>1, <3>3, <3>4, <3>5
  <2> QED BY <1>0, <2>0, <2>1, <2>2, <2>3, <2>4
<1>6. \A k \in Element \ ToSet(t) : link'[k] = NIL
  <2> SUFFICES ASSUME NEW k \in Element, k \notin ToSet(t) PROVE link'[k] = NIL
    OBVIOUS
  <2>1. k \notin ToSet(s) /\ k # e /\ k # p /\ k \in Key
    BY Values DEF Keys, Key
  <2> QED BY <1>1, <2>1
<1> QED BY <1>4, <1>5, <1>6 DEF Represents

(* A sequence with a value put in: after a key, or at the end.             *)
LEMMA InsertedValues ==
  ASSUME NEW s, Distinct(s), NEW e \in Element \ ToSet(s), NEW q \in Keys(s) \cup {NIL}
  PROVE  LET t == Inserted(s, e, q)
             p == IF q = NIL THEN KeyAt(s, Len(s)) ELSE q IN
         /\ CanInsert(s, e, q) /\ Distinct(t) /\ p \in Keys(s)
         /\ Len(t) = Len(s) + 1 /\ ToSet(t) = ToSet(s) \cup {e}
         /\ \A j \in 1..(Len(s) + 1) :
              t[j] = IF j < Pos(s, p) + 1 THEN s[j] ELSE IF j = Pos(s, p) + 1 THEN e ELSE s[j - 1]
<1>0. /\ s \in Seq(Element) /\ NoRepeats(s) /\ Len(s) \in Nat
      /\ \A i \in 0..Len(s) : KeyAt(s, i) \in Keys(s) /\ Pos(s, KeyAt(s, i)) = i
      /\ \A k \in Keys(s) : Pos(s, k) \in 0..Len(s)
      /\ NIL \notin Keys(s) /\ CanInsert(s, e, q)
  BY Places, Values DEF Keys, CanInsert, Key
<1>1. /\ Distinct(Inserted(s, e, q)) /\ ToSet(Inserted(s, e, q)) = ToSet(s) \cup {e}
  BY <1>0, Values, InsertedFacts DEF Distinct
<1>2. CASE q = NIL
  <2>1. Inserted(s, e, q) = Append(s, e)
    BY <1>0, <1>2 DEF Inserted
  <2>2. Len(s) \in 0..Len(s)
    BY <1>0
  <2>3. KeyAt(s, Len(s)) \in Keys(s) /\ Pos(s, KeyAt(s, Len(s))) = Len(s)
    BY <1>0, <2>2
  <2>4. /\ Len(Append(s, e)) = Len(s) + 1
        /\ \A j \in 1..(Len(s) + 1) : Append(s, e)[j] = IF j = Len(s) + 1 THEN e ELSE s[j]
    BY <1>0
  <2>5. \A j \in 1..(Len(s) + 1) : Append(s, e)[j] =
          IF j < Len(s) + 1 THEN s[j] ELSE IF j = Len(s) + 1 THEN e ELSE s[j - 1]
    BY <1>0, <2>4
  <2> QED BY <1>0, <1>1, <1>2, <2>1, <2>3, <2>4, <2>5
<1>3. CASE q # NIL
  <2>1. Inserted(s, e, q) = InsertAt(s, Pos(s, q) + 1, e) /\ q \in Keys(s)
    BY <1>0, <1>3 DEF Inserted
  <2>2. Pos(s, q) + 1 \in 1..(Len(s) + 1)
    BY <1>0, <2>1
  <2>3. /\ Len(InsertAt(s, Pos(s, q) + 1, e)) = Len(s) + 1
        /\ \A j \in 1..(Len(s) + 1) : InsertAt(s, Pos(s, q) + 1, e)[j] =
             IF j < Pos(s, q) + 1 THEN s[j] ELSE IF j = Pos(s, q) + 1 THEN e ELSE s[j - 1]
    BY <1>0, <2>2, InsertAtFacts
  <2> QED BY <1>0, <1>1, <1>3, <2>1, <2>3
<1> QED BY <1>2, <1>3

(* The record of the last value, when the set may be empty.                *)
LEMMA LastKey ==
  ASSUME TypeOK, NEW s, Distinct(s), Represents(s)
  PROVE  (IF last = NIL THEN FIRST ELSE last) = KeyAt(s, Len(s)) /\ link[KeyAt(s, Len(s))] = NIL
<1>1. /\ Len(s) \in Nat /\ KeyAt(s, 0) = FIRST
      /\ \A i \in 1..Len(s) : KeyAt(s, i) = s[i] /\ s[i] \in Element
      /\ s = <<>> => last \in {NIL, FIRST}
      /\ s # <<>> => last = s[Len(s)] /\ Len(s) \in 1..Len(s)
      /\ s = <<>> <=> Len(s) = 0
      /\ \A i \in 0..Len(s) : link[KeyAt(s, i)] = IF i < Len(s) THEN s[i + 1] ELSE NIL
  BY Places, TableFacts
<1>2. Len(s) \in 0..Len(s) /\ ~(Len(s) < Len(s))
  BY <1>1
<1> QED BY <1>1, <1>2, Values

(* The end of insert, pushfront and pushback.                              *)
LEMMA LinkedTypes ==
  ASSUME TypeOK, NEW e \in Element, NEW p \in Key, p # e, link[e] = NIL,
         \/ LinkAfter(e, p)
         \/ /\ p = FIRST /\ link' = [link EXCEPT ![e] = link[FIRST], ![FIRST] = e]
            /\ last' = (IF link[FIRST] = NIL THEN e ELSE last) /\ result' = e
         \/ /\ link[p] = NIL
            /\ link' = [link EXCEPT ![p] = e] /\ last' = e /\ result' = e
  PROVE  /\ TypeOK' /\ result' = e
         /\ \A k \in Key : link'[k] = IF k = p THEN e ELSE IF k = e THEN link[p] ELSE link[k]
         /\ last' = IF link[p] = NIL THEN e ELSE last
<1>1. /\ link \in [Key -> Element \cup {NIL}] /\ last \in Key \cup {NIL} /\ e \in Key
      /\ FIRST \in Key
  BY DEF TypeOK, Key
<1>2. CASE LinkAfter(e, p) /\ link[p] = NIL
  <2>1. last' = e /\ link' = [link EXCEPT ![p] = e] /\ result' = e
    BY <1>2 DEF LinkAfter
  <2> QED BY <1>1, <1>2, <2>1 DEF TypeOK
<1>3. CASE LinkAfter(e, p) /\ link[p] # NIL
  <2>1. last' = last /\ link' = [link EXCEPT ![e] = link[p], ![p] = e] /\ result' = e
    BY <1>3 DEF LinkAfter
  <2> QED BY <1>1, <1>3, <2>1 DEF TypeOK
<1>4. CASE /\ p = FIRST /\ link' = [link EXCEPT ![e] = link[FIRST], ![FIRST] = e]
           /\ last' = (IF link[FIRST] = NIL THEN e ELSE last) /\ result' = e
  BY <1>1, <1>4 DEF TypeOK
<1>5. CASE /\ link[p] = NIL
           /\ link' = [link EXCEPT ![p] = e] /\ last' = e /\ result' = e
  BY <1>1, <1>5 DEF TypeOK
<1> QED BY <1>2, <1>3, <1>4, <1>5

(* A method that refuses changes nothing.                                  *)
LEMMA Refused ==
  ASSUME TypeOK, NEW s, Represents(s), Refuse
  PROVE  TypeOK' /\ Represents(s)' /\ result' = NIL
BY DEF Refuse, TypeOK, Represents

(* insert() does to the table what Inserted does to its sequence.          *)
LEMMA InsertEffect ==
  ASSUME TypeOK, NEW s, Distinct(s), Represents(s),
         NEW e \in Element, NEW q \in Key \cup {NIL}, Insert(e, q)
  PROVE  /\ TypeOK' /\ Distinct(Inserted(s, e, q)) /\ Represents(Inserted(s, e, q))'
         /\ result' = IF CanInsert(s, e, q) THEN e ELSE NIL
<1> DEFINE p == IF q = NIL THEN KeyAt(s, Len(s)) ELSE q
<1>0. /\ \A x \in Element : ContainsKey(x) <=> x \in ToSet(s)
      /\ \A k \in Element \ ToSet(s) : link[k] = NIL
      /\ Keys(s) \subseteq Key /\ FIRST \in Keys(s) /\ NIL \notin Keys(s)
      /\ \A k \in Key : k \in Keys(s) <=> k = FIRST \/ ContainsKey(k)
  BY TableFacts, Places, Values DEF Keys, Key
<1>1. CASE e \notin ToSet(s) /\ q \in Keys(s) \cup {NIL}
  <2>1. LinkAfter(e, p)
    <3>1. ~ContainsKey(e)
      BY <1>0, <1>1
    <3>2. CASE q = NIL
      BY <3>1, <3>2, LastKey DEF Insert
    <3>3. CASE q # NIL
      BY <1>0, <1>1, <3>1, <3>3 DEF Insert
    <3> QED BY <3>2, <3>3
  <2>2. /\ CanInsert(s, e, q) /\ Distinct(Inserted(s, e, q)) /\ p \in Keys(s)
        /\ Len(Inserted(s, e, q)) = Len(s) + 1 /\ ToSet(Inserted(s, e, q)) = ToSet(s) \cup {e}
        /\ \A j \in 1..(Len(s) + 1) : Inserted(s, e, q)[j] =
             IF j < Pos(s, p) + 1 THEN s[j] ELSE IF j = Pos(s, p) + 1 THEN e ELSE s[j - 1]
    BY <1>1, InsertedValues
  <2> HIDE DEF p
  <2>3. p \in Key /\ p # e /\ link[e] = NIL
    BY <1>0, <1>1, <2>2, Values DEF Keys
  <2>4. /\ TypeOK' /\ result' = e
        /\ \A k \in Key : link'[k] = IF k = p THEN e ELSE IF k = e THEN link[p] ELSE link[k]
        /\ last' = IF link[p] = NIL THEN e ELSE last
    BY <2>1, <2>3, LinkedTypes
  <2>5. Represents(Inserted(s, e, q))'
    <3> DEFINE t == Inserted(s, e, q)
    <3>1. /\ Distinct(t) /\ p \in Keys(s)
          /\ Len(t) = Len(s) + 1 /\ ToSet(t) = ToSet(s) \cup {e}
          /\ \A j \in 1..(Len(s) + 1) : t[j] =
               IF j < Pos(s, p) + 1 THEN s[j] ELSE IF j = Pos(s, p) + 1 THEN e ELSE s[j - 1]
      BY <2>2
    <3>2. e \in Element \ ToSet(s)
      BY <1>1
    <3> HIDE DEF t
    <3>3. Represents(t)'
      BY <2>4, <3>1, <3>2, LinkedIn
    <3> QED BY <3>3 DEF t
  <2> QED BY <2>2, <2>4, <2>5
<1>2. CASE e \in ToSet(s) \/ q \notin Keys(s) \cup {NIL}
  <2>1. ~CanInsert(s, e, q)
    BY <1>2 DEF CanInsert
  <2>2. Inserted(s, e, q) = s
    BY <2>1 DEF Inserted
  <2>3. Refuse
    BY <1>0, <1>2 DEF Insert
  <2> QED BY <2>1, <2>2, <2>3, Refused
<1> QED BY <1>1, <1>2

(* Likewise pushfront() and pushback(), which insert at the two ends.      *)
LEMMA PushEffect ==
  ASSUME TypeOK, NEW s, Distinct(s), Represents(s), NEW e \in Element,
         NEW q, (q = FIRST /\ PushFront(e)) \/ (q = NIL /\ PushBack(e))
  PROVE  /\ TypeOK' /\ Distinct(Inserted(s, e, q)) /\ Represents(Inserted(s, e, q))'
         /\ result' = IF CanInsert(s, e, q) THEN e ELSE NIL
<1> DEFINE p == IF q = NIL THEN KeyAt(s, Len(s)) ELSE q
           t == Inserted(s, e, q)
<1>0. /\ ContainsKey(e) <=> e \in ToSet(s)
      /\ e \notin ToSet(s) => link[e] = NIL
      /\ Keys(s) \subseteq Key /\ q \in Keys(s) \cup {NIL}
  BY TableFacts, Places DEF Keys
<1>1. CASE e \notin ToSet(s)
  <2>1. /\ CanInsert(s, e, q) /\ Distinct(t) /\ p \in Keys(s)
        /\ Len(t) = Len(s) + 1 /\ ToSet(t) = ToSet(s) \cup {e}
        /\ \A j \in 1..(Len(s) + 1) : t[j] =
             IF j < Pos(s, p) + 1 THEN s[j] ELSE IF j = Pos(s, p) + 1 THEN e ELSE s[j - 1]
    <3>1. e \in Element \ ToSet(s) /\ q \in Keys(s) \cup {NIL}
      BY <1>0, <1>1
    <3> QED BY ONLY Distinct(s), <3>1, InsertedValues
  <2>2. \/ /\ p = FIRST /\ link' = [link EXCEPT ![e] = link[FIRST], ![FIRST] = e]
           /\ last' = (IF link[FIRST] = NIL THEN e ELSE last) /\ result' = e
        \/ /\ link[p] = NIL
           /\ link' = [link EXCEPT ![p] = e] /\ last' = e /\ result' = e
    <3>1. CASE q = FIRST /\ PushFront(e)
      BY <1>0, <1>1, <3>1, Values DEF PushFront
    <3>2. CASE q = NIL /\ PushBack(e)
      BY <1>0, <1>1, <3>2, LastKey DEF PushBack
    <3> QED BY <3>1, <3>2
  <2> HIDE DEF p, t
  <2>3. p \in Key /\ p # e /\ link[e] = NIL
    BY <1>0, <1>1, <2>1, Values DEF Keys
  <2>4. /\ TypeOK' /\ result' = e
        /\ \A k \in Key : link'[k] = IF k = p THEN e ELSE IF k = e THEN link[p] ELSE link[k]
        /\ last' = IF link[p] = NIL THEN e ELSE last
    BY <2>2, <2>3, LinkedTypes
  <2>5. Represents(t)'
    BY <1>1, <2>1, <2>4, LinkedIn
  <2> QED BY <2>1, <2>4, <2>5 DEF t
<1>2. CASE e \in ToSet(s)
  <2>1. ~CanInsert(s, e, q)
    BY <1>2 DEF CanInsert
  <2>2. Inserted(s, e, q) = s
    BY <2>1 DEF Inserted
  <2>3. Refuse
    BY <1>0, <1>2 DEF PushFront, PushBack
  <2> QED BY <2>1, <2>2, <2>3, Refused
<1> QED BY <1>1, <1>2

(* Unlinking a value takes it out of the sequence.                         *)
LEMMA LinkedOut ==
  ASSUME TypeOK, NEW s, Distinct(s), Represents(s), NEW e \in ToSet(s), NEW t, Distinct(t),
         Len(t) = Len(s) - 1, ToSet(t) = ToSet(s) \ {e},
         \A j \in 1..(Len(s) - 1) : t[j] = IF j < Pos(s, e) THEN s[j] ELSE s[j + 1],
         NEW prev, prev = KeyAt(s, Pos(s, e) - 1),
         \A k \in Key : link'[k] = IF k = prev THEN link[e] ELSE IF k = e THEN NIL ELSE link[k],
         \/ last' = IF last = e THEN prev ELSE last
         \/ last = e /\ prev = FIRST /\ last' = NIL
  PROVE  Represents(t)'
<1> DEFINE i == Pos(s, e)
<1>0. /\ Len(s) \in Nat /\ i \in 1..Len(s) /\ s[i] = e /\ e \in Element /\ e # NIL /\ e # FIRST
      /\ Keys(s) \subseteq Key /\ e \in Keys(s) /\ KeyAt(s, i) = e /\ KeyAt(s, 0) = FIRST
      /\ \A j \in 0..Len(s) : KeyAt(s, j) \in Keys(s) /\ Pos(s, KeyAt(s, j)) = j
      /\ \A j \in 1..Len(s) : KeyAt(s, j) = s[j] /\ s[j] \in Element /\ s[j] # FIRST
  BY Places, Values DEF Keys
<1>1. /\ \A j \in 0..Len(s) : link[KeyAt(s, j)] = IF j < Len(s) THEN s[j + 1] ELSE NIL
      /\ \A k \in Element \ ToSet(s) : link[k] = NIL
      /\ s # <<>> => last = s[Len(s)]
      /\ s = <<>> <=> Len(s) = 0
  BY TableFacts
<1>2. /\ prev = KeyAt(s, i - 1)
      /\ \A j \in 1..(Len(s) - 1) : t[j] = IF j < i THEN s[j] ELSE s[j + 1]
  OBVIOUS
<1> HIDE DEF i
<1>3. /\ i - 1 \in 0..Len(s) /\ prev \in Keys(s) /\ Pos(s, prev) = i - 1 /\ prev # e
      /\ (i - 1) + 1 = i
  BY <1>0, <1>2
<1>4. last = s[Len(s)] /\ Len(s) \in 1..Len(s) /\ (last = e <=> i = Len(s))
  <2>1. Len(s) # 0 /\ Len(s) \in 1..Len(s)
    BY <1>0
  <2>2. last = s[Len(s)]
    BY <1>1, <2>1
  <2>3. last = e => i = Len(s)
    <3>1. Pos(s, KeyAt(s, Len(s))) = Len(s) /\ Pos(s, KeyAt(s, i)) = i
      BY <1>0, <2>1
    <3> QED BY <1>0, <2>1, <2>2, <3>1
  <2> QED BY <1>0, <2>1, <2>2, <2>3
<1>5. t = <<>> <=> Len(t) = 0
  BY EmptySeq DEF Distinct
<1>6. IF t = <<>> THEN last' \in {NIL, FIRST} ELSE last' = t[Len(t)]
  <2>1. CASE Len(s) = 1
    <3>1. t = <<>> /\ i = 1 /\ prev = FIRST /\ last = e
      BY <1>0, <1>2, <1>4, <1>5, <2>1
    <3> QED BY <3>1
  <2>2. CASE Len(s) > 1 /\ i = Len(s)
    <3>1. t # <<>> /\ Len(t) \in 1..(Len(s) - 1) /\ Len(t) < i /\ Len(t) = i - 1
      BY <1>0, <1>5, <2>2
    <3>2. t[Len(t)] = s[i - 1] /\ i - 1 \in 1..Len(s)
      BY <1>0, <1>2, <3>1
    <3>3. prev = s[i - 1] /\ prev # FIRST
      BY <1>0, <1>2, <3>2
    <3> QED BY <1>4, <2>2, <3>1, <3>2, <3>3
  <2>3. CASE Len(s) > 1 /\ i < Len(s)
    <3>1. t # <<>> /\ Len(t) \in 1..(Len(s) - 1) /\ ~(Len(t) < i) /\ Len(t) + 1 = Len(s)
      BY <1>0, <1>5, <2>3
    <3>2. t[Len(t)] = s[Len(s)]
      BY <1>2, <3>1
    <3>3. last # e
      BY <1>0, <1>4, <2>3
    <3> QED BY <1>4, <3>1, <3>2, <3>3
  <2> QED BY <1>0, <2>1, <2>2, <2>3
<1>7. ASSUME NEW j \in 0..Len(t)
      PROVE  link'[KeyAt(t, j)] = IF j < Len(t) THEN t[j + 1] ELSE NIL
  <2>0. j \in 0..(Len(s) - 1)
    OBVIOUS
  <2>1. CASE j < i - 1
    <3>1. KeyAt(t, j) = KeyAt(s, j)
      BY <1>0, <1>2, <2>0, <2>1 DEF KeyAt
    <3>2. /\ j \in 0..Len(s) /\ j < Len(s) /\ KeyAt(s, j) \in Keys(s)
          /\ KeyAt(s, j) # prev /\ KeyAt(s, j) # e
      BY <1>0, <1>3, <2>0, <2>1
    <3>3. link'[KeyAt(s, j)] = s[j + 1]
      BY <1>0, <1>1, <3>2
    <3>4. t[j + 1] = s[j + 1] /\ j < Len(t)
      BY <1>0, <1>2, <2>0, <2>1
    <3> QED BY <3>1, <3>3, <3>4
  <2>2. CASE j = i - 1
    <3>1. KeyAt(t, j) = prev
      BY <1>0, <1>2, <2>0, <2>2 DEF KeyAt
    <3>2. link'[prev] = IF i < Len(s) THEN s[i + 1] ELSE NIL
      <4>1. i \in 0..Len(s)
        BY <1>0
      <4> QED BY <1>0, <1>1, <1>3, <4>1
    <3>3. j < Len(t) => t[j + 1] = s[i + 1]
      BY <1>0, <1>2, <2>0, <2>2
    <3>4. j < Len(t) <=> i < Len(s)
      BY <1>0, <2>0, <2>2
    <3> QED BY <3>1, <3>2, <3>3, <3>4
  <2>3. CASE j > i - 1
    <3>1. KeyAt(t, j) = KeyAt(s, j + 1)
      BY <1>0, <1>2, <2>0, <2>3 DEF KeyAt
    <3>2. /\ j + 1 \in 0..Len(s) /\ KeyAt(s, j + 1) \in Keys(s)
          /\ KeyAt(s, j + 1) # prev /\ KeyAt(s, j + 1) # e
      BY <1>0, <1>3, <2>0, <2>3
    <3>3. link'[KeyAt(s, j + 1)] = IF j + 1 < Len(s) THEN s[(j + 1) + 1] ELSE NIL
      BY <1>0, <1>1, <3>2
    <3>4. j < Len(t) => t[j + 1] = s[(j + 1) + 1]
      BY <1>0, <1>2, <2>0, <2>3
    <3>5. j < Len(t) <=> j + 1 < Len(s)
      BY <1>0, <2>0
    <3> QED BY <3>1, <3>3, <3>4, <3>5
  <2> QED BY <1>0, <2>0, <2>1, <2>2, <2>3
<1>8. \A k \in Element \ ToSet(t) : link'[k] = NIL
  <2> SUFFICES ASSUME NEW k \in Element, k \notin ToSet(t) PROVE link'[k] = NIL
    OBVIOUS
  <2>1. k \in Key /\ k # FIRST
    BY Values DEF Key
  <2>2. CASE k = e
    BY <1>3, <2>1, <2>2
  <2>3. CASE k # e
    <3>1. k \notin ToSet(s) /\ k # prev
      BY <1>3, <2>1, <2>3 DEF Keys
    <3> QED BY <1>1, <2>1, <2>3, <3>1
  <2> QED BY <2>2, <2>3
<1> QED BY <1>6, <1>7, <1>8 DEF Represents

(* A sequence with a value taken out.                                      *)
LEMMA RemovedValues ==
  ASSUME NEW s, Distinct(s), NEW e \in ToSet(s)
  PROVE  LET t == RemoveAt(s, Pos(s, e)) IN
         /\ Distinct(t) /\ Len(t) = Len(s) - 1 /\ ToSet(t) = ToSet(s) \ {e}
         /\ \A j \in 1..(Len(s) - 1) : t[j] = IF j < Pos(s, e) THEN s[j] ELSE s[j + 1]
<1>1. s \in Seq(Element) /\ NoRepeats(s) /\ Pos(s, e) \in 1..Len(s)
  BY Places
<1>2. /\ Distinct(RemoveAt(s, Pos(s, e))) /\ ToSet(RemoveAt(s, Pos(s, e))) = ToSet(s) \ {e}
  BY <1>1, Values, RemoveAtDistinct DEF Distinct
<1>3. /\ Len(RemoveAt(s, Pos(s, e))) = Len(s) - 1
      /\ \A j \in 1..(Len(s) - 1) :
           RemoveAt(s, Pos(s, e))[j] = IF j < Pos(s, e) THEN s[j] ELSE s[j + 1]
  BY <1>1, RemoveAtFacts
<1> QED BY <1>2, <1>3

(* The key before a value that a walk meets.                               *)
LEMMA KeyBeforeValue ==
  ASSUME TypeOK, NEW s, Distinct(s), Represents(s), NEW e, NEW start, Found(s, e, start)
  PROVE  /\ KeyBefore(s, e, start) = KeyAt(s, Pos(s, e) - 1)
         /\ KeyAt(s, Pos(s, e) - 1) \in Keys(s) \ {e}
         /\ e \in Element /\ e \in ToSet(s) /\ NIL \notin Keys(s) /\ Keys(s) \subseteq Key
         /\ last = e => link[e] = NIL
<1>1. e \in ToSet(s)
  BY DEF Found
<1>2. /\ Pos(s, e) \in 1..Len(s) /\ Len(s) \in Nat /\ e \in Element /\ NIL \notin Keys(s)
      /\ \A i \in 0..Len(s) : KeyAt(s, i) \in Keys(s) /\ Pos(s, KeyAt(s, i)) = i
      /\ \A i \in 1..Len(s) : Pos(s, s[i]) = i
      /\ Keys(s) \subseteq Key /\ e \in Keys(s)
  BY <1>1, Places, Values DEF Keys
<1>3. Pos(s, e) - 1 \in 0..Len(s)
  BY <1>2
<1>4. KeyAt(s, Pos(s, e) - 1) # e
  BY <1>2, <1>3
<1>5. last = e => link[e] = NIL
  <2>1. s # <<>> => last = s[Len(s)] /\ Len(s) \in 1..Len(s)
    BY TableFacts
  <2>2. s = <<>> <=> Len(s) = 0
    BY TableFacts
  <2>3. last = e => Pos(s, e) = Len(s)
    BY <1>2, <2>1, <2>2
  <2>4. link[e] = IF Pos(s, e) < Len(s) THEN s[Pos(s, e) + 1] ELSE NIL
    BY <1>2, TableFacts
  <2> QED BY <1>2, <2>3, <2>4
<1> QED BY <1>1, <1>2, <1>3, <1>4, <1>5 DEF KeyBefore

(* Likewise remove().                                                      *)
LEMMA RemoveEffect ==
  ASSUME TypeOK, NEW s, Distinct(s), Represents(s),
         NEW e \in Element, NEW start \in Key, RemoveValue(e, start)
  PROVE  /\ TypeOK' /\ Distinct(Removed(s, e, start)) /\ Represents(Removed(s, e, start))'
         /\ result' = IF Found(s, e, start) THEN e ELSE NIL
<1> DEFINE prev == KeyAt(s, Pos(s, e) - 1)
           t == RemoveAt(s, Pos(s, e))
<1>1. Previous(e, start) = KeyBefore(s, e, start)
  BY PreviousKey
<1>2. CASE Found(s, e, start)
  <2>1. /\ Previous(e, start) = prev /\ prev \in Keys(s) \ {e} /\ prev # NIL
        /\ e \in ToSet(s) /\ prev \in Key /\ e \in Key
        /\ last = e => link[e] = NIL
    BY <1>1, <1>2, KeyBeforeValue DEF Key
  <2>2. Removed(s, e, start) = t
    BY <1>2 DEF Removed
  <2>3. /\ Distinct(t) /\ Len(t) = Len(s) - 1 /\ ToSet(t) = ToSet(s) \ {e}
        /\ \A j \in 1..(Len(s) - 1) : t[j] = IF j < Pos(s, e) THEN s[j] ELSE s[j + 1]
    BY <2>1, RemovedValues
  <2>4. prev = KeyAt(s, Pos(s, e) - 1)
    OBVIOUS
  <2> HIDE DEF prev, t
  <2>5. /\ last' = IF last = e THEN prev ELSE last
        /\ link' = IF last = e THEN [link EXCEPT ![prev] = link[e]]
                   ELSE [link EXCEPT ![prev] = link[e], ![e] = NIL]
        /\ result' = e
    BY <2>1 DEF RemoveValue
  <2>6. /\ TypeOK'
        /\ \A k \in Key : link'[k] = IF k = prev THEN link[e] ELSE IF k = e THEN NIL ELSE link[k]
    <3>1. CASE last = e
      BY <2>1, <2>5, <3>1 DEF TypeOK
    <3>2. CASE last # e
      BY <2>1, <2>5, <3>2 DEF TypeOK
    <3> QED BY <3>1, <3>2
  <2>7. Represents(t)'
    <3>1. \/ last' = IF last = e THEN prev ELSE last
          \/ last = e /\ prev = FIRST /\ last' = NIL
      BY <2>5
    <3>2. \A k \in Key :
            link'[k] = IF k = prev THEN link[e] ELSE IF k = e THEN NIL ELSE link[k]
      BY <2>6
    <3>3. e \in ToSet(s)
      BY <2>1
    <3> QED BY ONLY TypeOK, Distinct(s), Represents(s), <2>3, <2>4, <3>1, <3>2, <3>3, LinkedOut
  <2> QED BY <1>2, <2>2, <2>3, <2>5, <2>6, <2>7
<1>3. CASE ~Found(s, e, start)
  <2>1. Removed(s, e, start) = s /\ Previous(e, start) = NIL
    BY <1>1, <1>3 DEF Removed, KeyBefore
  <2>2. Refuse
    BY <2>1 DEF RemoveValue
  <2> QED BY <1>3, <2>1, <2>2, Refused
<1> QED BY <1>2, <1>3

(* Likewise popfront().                                                    *)
LEMMA PopFrontEffect ==
  ASSUME TypeOK, NEW s, Distinct(s), Represents(s), PopFront
  PROVE  LET t == IF s = <<>> THEN <<>> ELSE Tail(s) IN
         /\ TypeOK' /\ Distinct(t) /\ Represents(t)'
         /\ result' = ValueAfter(s, FIRST)
<1>0. /\ Len(s) \in Nat /\ s \in Seq(Element) /\ Pos(s, FIRST) = 0 /\ KeyAt(s, 0) = FIRST
      /\ FIRST \in Keys(s) /\ FIRST \in Key
      /\ \A i \in 1..Len(s) : s[i] \in ToSet(s) /\ s[i] \in Element /\ s[i] # NIL
                              /\ Pos(s, s[i]) = i
      /\ s = <<>> <=> Len(s) = 0
  BY Places, TableFacts, Values DEF Keys, Key
<1>1. link[FIRST] = IF 0 < Len(s) THEN s[1] ELSE NIL
  <2>1. link[FIRST] = IF Pos(s, FIRST) < Len(s) THEN s[Pos(s, FIRST) + 1] ELSE NIL
    BY <1>0, TableFacts
  <2> QED BY <1>0, <2>1
<1>2. ValueAfter(s, FIRST) = IF 0 < Len(s) THEN s[1] ELSE NIL
  BY <1>0 DEF ValueAfter
<1>3. CASE s = <<>>
  <2>1. last' = NIL /\ result' = NIL /\ link' = link
    BY <1>0, <1>1, <1>3 DEF PopFront
  <2>2. TypeOK' /\ Represents(s)'
    BY <1>3, <2>1 DEF TypeOK, Represents
  <2> QED BY <1>0, <1>2, <1>3, <2>1, <2>2
<1>4. CASE s # <<>>
  <2> DEFINE e == s[1]
             t == RemoveAt(s, Pos(s, e))
  <2>1. /\ 0 < Len(s) /\ 1 \in 1..Len(s) /\ e \in ToSet(s) /\ e \in Element /\ e # NIL
        /\ Pos(s, e) = 1 /\ link[FIRST] = e
    BY <1>0, <1>1, <1>4
  <2>2. /\ Distinct(t) /\ Len(t) = Len(s) - 1 /\ ToSet(t) = ToSet(s) \ {e}
        /\ \A j \in 1..(Len(s) - 1) : t[j] = IF j < Pos(s, e) THEN s[j] ELSE s[j + 1]
    BY <2>1, RemovedValues
  <2> HIDE DEF t
  <2>3. t = Tail(s)
    <3>1. Tail(s) \in Seq(Element) /\ Len(Tail(s)) = Len(s) - 1
          /\ \A j \in 1..(Len(s) - 1) : Tail(s)[j] = s[j + 1]
      BY <1>0, <1>4, HeadTailProperties
    <3>2. \A j \in 1..Len(t) : t[j] = Tail(s)[j]
      BY <2>1, <2>2, <3>1
    <3> QED BY <2>2, <3>1, <3>2, SeqEqual DEF Distinct
  <2>4. /\ Found(s, e, FIRST)
        /\ KeyAt(s, Pos(s, e) - 1) = FIRST /\ FIRST # e /\ e \in Key
    BY <1>0, <2>1, Values DEF Found, Key
  <2>5. last = e <=> link[e] = NIL
    <3>1. s # <<>> => last = s[Len(s)] /\ Len(s) \in 1..Len(s)
      BY TableFacts
    <3>2. link[e] = IF 1 < Len(s) THEN s[1 + 1] ELSE NIL
      <4>1. e \in Keys(s)
        BY <2>1 DEF Keys
      <4> QED BY <2>1, <4>1, TableFacts
    <3>3. last = e => Len(s) = 1
      BY <1>0, <1>4, <2>1, <3>1
    <3>4. 1 < Len(s) => s[1 + 1] # NIL
      BY <1>0
    <3> QED BY <1>0, <1>4, <2>1, <3>1, <3>2, <3>3, <3>4
  <2> HIDE DEF e
  <2>6. /\ link' = IF link[e] = NIL THEN [link EXCEPT ![FIRST] = NIL]
                   ELSE [link EXCEPT ![FIRST] = link[e], ![e] = NIL]
        /\ last' = IF link[e] = NIL THEN NIL ELSE last
        /\ result' = e
    BY <2>1 DEF PopFront
  <2>7. /\ TypeOK'
        /\ \A k \in Key : link'[k] = IF k = FIRST THEN link[e] ELSE IF k = e THEN NIL ELSE link[k]
    <3>1. CASE link[e] = NIL
      BY <1>0, <2>1, <2>4, <2>6, <3>1 DEF TypeOK
    <3>2. CASE link[e] # NIL
      BY <1>0, <2>1, <2>4, <2>6, <3>2 DEF TypeOK
    <3> QED BY <3>1, <3>2
  <2>8. \/ last' = IF last = e THEN FIRST ELSE last
        \/ last = e /\ FIRST = FIRST /\ last' = NIL
    BY <2>5, <2>6
  <2>9. Represents(t)'
    BY <2>1, <2>2, <2>4, <2>7, <2>8, LinkedOut
  <2> QED BY <1>2, <1>4, <2>1, <2>2, <2>3, <2>6, <2>7, <2>9 DEF e
<1> QED BY <1>3, <1>4

(* Likewise replace().                                                     *)
LEMMA ReplaceEffect ==
  ASSUME TypeOK, NEW s, Distinct(s), Represents(s),
         NEW old \in Element, NEW new \in Element, NEW start \in Key, Replace(old, new, start)
  PROVE  LET t == Replaced(s, old, new, start) IN
         /\ TypeOK' /\ Distinct(t) /\ Represents(t)'
         /\ result' = IF CanReplace(s, old, new, start) THEN old ELSE NIL
<1> DEFINE prev == KeyAt(s, Pos(s, old) - 1)
           i == Pos(s, old)
           t == ReplaceAt(s, i, new)
<1>1. Previous(old, start) = KeyBefore(s, old, start)
  BY PreviousKey
<1>2. ContainsKey(new) <=> new \in ToSet(s)
  BY TableFacts
<1>3. CASE CanReplace(s, old, new, start)
  <2>0. Found(s, old, start) /\ new \notin ToSet(s)
    BY <1>3 DEF CanReplace
  <2>1. /\ Previous(old, start) = prev /\ prev \in Keys(s) \ {old} /\ prev # NIL
        /\ old \in ToSet(s) /\ prev \in Key /\ old \in Key /\ new \in Key /\ prev # new
        /\ old # new
        /\ last = old => link[old] = NIL
    BY <1>1, <2>0, KeyBeforeValue, Values DEF Key, Keys
  <2>2. Replaced(s, old, new, start) = t
    BY <1>3 DEF Replaced
  <2>3. /\ s \in Seq(Element) /\ NoRepeats(s) /\ Len(s) \in Nat /\ i \in 1..Len(s) /\ s[i] = old
        /\ KeyAt(s, 0) = FIRST /\ DOMAIN s = 1..Len(s)
        /\ \A j \in 1..Len(s) : s[j] \in ToSet(s) /\ Pos(s, s[j]) = j /\ s[j] # FIRST
        /\ \A j \in 0..Len(s) : KeyAt(s, j) \in Keys(s) /\ Pos(s, KeyAt(s, j)) = j
    BY <2>1, Places, Values, LenProperties
  <2>4. i - 1 \in 0..Len(s) /\ Pos(s, prev) = i - 1 /\ (i - 1) + 1 = i /\ prev = KeyAt(s, i - 1)
    BY <2>3
  <2> HIDE DEF i, prev
  <2>5. /\ t \in Seq(Element) /\ Len(t) = Len(s)
        /\ \A j \in 1..Len(s) : t[j] = IF j = i THEN new ELSE s[j]
        /\ DOMAIN t = 1..Len(s)
    BY <2>3, ExceptSeq, LenProperties DEF ReplaceAt
  <2> HIDE DEF t
  <2>6. Distinct(t)
    BY <2>0, <2>3, <2>5 DEF Distinct, NoRepeats
  <2>7. /\ last' = IF old = last THEN new ELSE last
        /\ link' = IF old = last THEN [link EXCEPT ![prev] = new, ![new] = link[old]]
                   ELSE [link EXCEPT ![prev] = new, ![new] = link[old], ![old] = NIL]
        /\ result' = old
    BY <1>2, <2>0, <2>1 DEF Replace
  <2>8. /\ TypeOK'
        /\ \A k \in Key : link'[k] = IF k = prev THEN new ELSE IF k = new THEN link[old]
                                     ELSE IF k = old THEN NIL ELSE link[k]
    <3>1. CASE old = last
      BY <2>1, <2>7, <3>1 DEF TypeOK
    <3>2. CASE old # last
      BY <2>1, <2>7, <3>2 DEF TypeOK
    <3> QED BY <3>1, <3>2
  <2>9. Represents(t)'
    <3>0. /\ \A j \in 0..Len(s) : link[KeyAt(s, j)] = IF j < Len(s) THEN s[j + 1] ELSE NIL
          /\ \A k \in Element \ ToSet(s) : link[k] = NIL
          /\ s # <<>> => last = s[Len(s)]
          /\ s = <<>> <=> Len(s) = 0
          /\ Keys(s) \subseteq Key
      BY TableFacts, Places
    <3>1. t # <<>> /\ last' = t[Len(t)]
      <4>1. Len(s) \in 1..Len(s) /\ last = s[Len(s)]
        BY <2>3, <3>0
      <4>2. t # <<>>
        BY <2>5, <4>1, EmptySeq
      <4>3. last = old <=> i = Len(s)
        BY <2>3, <4>1
      <4> QED BY <2>5, <2>7, <4>1, <4>2, <4>3
    <3>2. ASSUME NEW j \in 0..Len(t)
          PROVE  link'[KeyAt(t, j)] = IF j < Len(t) THEN t[j + 1] ELSE NIL
      <4>0. j \in 0..Len(s)
        BY <2>5
      <4>1. CASE j = i
        <5>1. KeyAt(t, j) = new
          BY <2>3, <2>5, <4>1 DEF KeyAt
        <5>2. link'[new] = link[old] /\ KeyAt(s, j) = old
          BY <2>1, <2>3, <2>8, <4>1 DEF KeyAt
        <5>3. j < Len(s) => t[j + 1] = s[j + 1]
          BY <2>3, <2>5, <4>0, <4>1
        <5> QED BY <2>5, <3>0, <4>0, <5>1, <5>2, <5>3
      <4>2. CASE j # i
        <5>1. KeyAt(t, j) = KeyAt(s, j)
          BY <2>3, <2>5, <4>0, <4>2 DEF KeyAt
        <5>2. KeyAt(s, j) \in Keys(s) /\ Pos(s, KeyAt(s, j)) = j /\ KeyAt(s, j) \in Key
              /\ KeyAt(s, j) # old /\ KeyAt(s, j) # new
          BY <2>0, <2>1, <2>3, <3>0, <4>0, <4>2, Values DEF Keys, i
        <5>3. CASE j = i - 1
          <6>1. KeyAt(s, j) = prev /\ j < Len(t) /\ t[j + 1] = new
            BY <2>3, <2>4, <2>5, <5>3
          <6> QED BY <2>1, <2>8, <5>1, <6>1
        <5>4. CASE j # i - 1
          <6>1. KeyAt(s, j) # prev
            BY <2>4, <5>2, <5>4
          <6>2. link'[KeyAt(s, j)] = IF j < Len(s) THEN s[j + 1] ELSE NIL
            BY <2>8, <3>0, <4>0, <5>2, <6>1
          <6>3. j < Len(s) => t[j + 1] = s[j + 1]
            BY <2>3, <2>5, <4>0, <5>4
          <6> QED BY <2>5, <5>1, <6>2, <6>3
        <5> QED BY <5>3, <5>4
      <4> QED BY <4>1, <4>2
    <3>3. \A k \in Element \ ToSet(t) : link'[k] = NIL
      <4> SUFFICES ASSUME NEW k \in Element, k \notin ToSet(t) PROVE link'[k] = NIL
        OBVIOUS
      <4>1. k \in Key /\ k # FIRST /\ k # new
        BY <2>3, <2>5, Values DEF Key, ToSet
      <4>2. k \in ToSet(s) => k = old
        <5>1. ASSUME NEW j \in 1..Len(s), k = s[j] PROVE k = old
          BY <2>3, <2>5, <5>1 DEF ToSet
        <5> QED BY <2>3, <5>1 DEF ToSet
      <4>3. k # prev
        BY <2>1, <4>1, <4>2 DEF Keys
      <4> QED BY <2>8, <3>0, <4>1, <4>2, <4>3
    <3> QED BY <3>1, <3>2, <3>3 DEF Represents
  <2> QED BY <1>3, <2>2, <2>6, <2>7, <2>8, <2>9
<1>4. CASE ~CanReplace(s, old, new, start)
  <2>1. Replaced(s, old, new, start) = s
    BY <1>4 DEF Replaced
  <2>2. Previous(old, start) = NIL \/ ContainsKey(new)
    BY <1>1, <1>2, <1>4 DEF CanReplace, KeyBefore
  <2>3. Refuse
    BY <2>2 DEF Replace
  <2> QED BY <1>4, <2>1, <2>3, Refused
<1> QED BY <1>3, <1>4

(***************************************************************************)
(* The steps.                                                              *)
(***************************************************************************)
(* What a call, or none, does to the sequence the table stands for.        *)
Called(s, t) ==
  \/ \E e \in Element, p \in Key \cup {NIL} :
       /\ call' = <<"insert", e, p>> /\ t = Inserted(s, e, p)
       /\ result' = IF CanInsert(s, e, p) THEN e ELSE NIL
  \/ \E e \in Element, p \in Key :
       /\ call' = <<"remove", e, p>> /\ t = Removed(s, e, p)
       /\ result' = IF Found(s, e, p) THEN e ELSE NIL
  \/ \E old, new \in Element, p \in Key :
       /\ call' = <<"replace", old, new, p>> /\ t = Replaced(s, old, new, p)
       /\ result' = IF CanReplace(s, old, new, p) THEN old ELSE NIL
  \/ \E e \in Element :
       /\ call' = <<"pushfront", e>> /\ t = Inserted(s, e, FIRST)
       /\ result' = IF CanInsert(s, e, FIRST) THEN e ELSE NIL
  \/ \E e \in Element :
       /\ call' = <<"pushback", e>> /\ t = Inserted(s, e, NIL)
       /\ result' = IF CanInsert(s, e, NIL) THEN e ELSE NIL
  \/ /\ call' = <<"popfront">> /\ t = IF s = <<>> THEN <<>> ELSE Tail(s)
     /\ result' = ValueAfter(s, FIRST)
  \/ t = s /\ call' = call /\ result' = result

(* Every call does to the table what the specification says of its sequence. *)
LEMMA EveryStep ==
  ASSUME TypeOK, NEW s, Distinct(s), Represents(s), [Next]_vars
  PROVE  /\ TypeOK'
         /\ \E t : Distinct(t) /\ Represents(t)' /\ Called(s, t)
<1>1. ASSUME NEW e \in Element, NEW p \in Key \cup {NIL}, call' = <<"insert", e, p>>, Insert(e, p)
      PROVE  TypeOK' /\ \E t : Distinct(t) /\ Represents(t)' /\ Called(s, t)
  <2>1. /\ TypeOK' /\ Distinct(Inserted(s, e, p)) /\ Represents(Inserted(s, e, p))'
        /\ result' = IF CanInsert(s, e, p) THEN e ELSE NIL
    BY <1>1, InsertEffect
  <2>2. Called(s, Inserted(s, e, p))
    BY <1>1, <2>1 DEF Called
  <2> QED BY <2>1, <2>2
<1>2. ASSUME NEW e \in Element, NEW p \in Key, call' = <<"remove", e, p>>, RemoveValue(e, p)
      PROVE  TypeOK' /\ \E t : Distinct(t) /\ Represents(t)' /\ Called(s, t)
  <2>1. /\ TypeOK' /\ Distinct(Removed(s, e, p)) /\ Represents(Removed(s, e, p))'
        /\ result' = IF Found(s, e, p) THEN e ELSE NIL
    BY <1>2, RemoveEffect
  <2>2. Called(s, Removed(s, e, p))
    BY <1>2, <2>1 DEF Called
  <2> QED BY <2>1, <2>2
<1>3. ASSUME NEW old \in Element, NEW new \in Element, NEW p \in Key,
             call' = <<"replace", old, new, p>>, Replace(old, new, p)
      PROVE  TypeOK' /\ \E t : Distinct(t) /\ Represents(t)' /\ Called(s, t)
  <2>1. /\ TypeOK' /\ Distinct(Replaced(s, old, new, p)) /\ Represents(Replaced(s, old, new, p))'
        /\ result' = IF CanReplace(s, old, new, p) THEN old ELSE NIL
    BY <1>3, ReplaceEffect
  <2>2. Called(s, Replaced(s, old, new, p))
    BY <1>3, <2>1 DEF Called
  <2> QED BY <2>1, <2>2
<1>4. ASSUME NEW e \in Element, call' = <<"pushfront", e>>, PushFront(e)
      PROVE  TypeOK' /\ \E t : Distinct(t) /\ Represents(t)' /\ Called(s, t)
  <2>1. /\ TypeOK' /\ Distinct(Inserted(s, e, FIRST)) /\ Represents(Inserted(s, e, FIRST))'
        /\ result' = IF CanInsert(s, e, FIRST) THEN e ELSE NIL
    BY <1>4, PushEffect
  <2>2. Called(s, Inserted(s, e, FIRST))
    BY <1>4, <2>1 DEF Called
  <2> QED BY <2>1, <2>2
<1>5. ASSUME NEW e \in Element, call' = <<"pushback", e>>, PushBack(e)
      PROVE  TypeOK' /\ \E t : Distinct(t) /\ Represents(t)' /\ Called(s, t)
  <2>1. /\ TypeOK' /\ Distinct(Inserted(s, e, NIL)) /\ Represents(Inserted(s, e, NIL))'
        /\ result' = IF CanInsert(s, e, NIL) THEN e ELSE NIL
    BY <1>5, PushEffect
  <2>2. Called(s, Inserted(s, e, NIL))
    BY <1>5, <2>1 DEF Called
  <2> QED BY <2>1, <2>2
<1>6. ASSUME call' = <<"popfront">>, PopFront
      PROVE  TypeOK' /\ \E t : Distinct(t) /\ Represents(t)' /\ Called(s, t)
  <2> DEFINE t == IF s = <<>> THEN <<>> ELSE Tail(s)
  <2>1. TypeOK' /\ Distinct(t) /\ Represents(t)' /\ result' = ValueAfter(s, FIRST)
    BY <1>6, PopFrontEffect
  <2>2. Called(s, t)
    BY <1>6, <2>1 DEF Called
  <2> QED BY <2>1, <2>2
<1>7. ASSUME UNCHANGED vars
      PROVE  TypeOK' /\ \E t : Distinct(t) /\ Represents(t)' /\ Called(s, t)
  BY <1>7 DEF vars, TypeOK, Represents, Called
<1> QED BY <1>1, <1>2, <1>3, <1>4, <1>5, <1>6, <1>7 DEF Next

(* Every step keeps a table that represents a sequence.                    *)
LEMMA Inductive == LInv /\ [Next]_vars => LInv'
<1> SUFFICES ASSUME LInv, [Next]_vars PROVE LInv'
  OBVIOUS
<1>1. PICK s \in Seq(Element) : Distinct(s) /\ Represents(s)
  BY DEF LInv, Distinct
<1>2. TypeOK' /\ \E t : Distinct(t) /\ Represents(t)'
  BY <1>1, EveryStep DEF LInv
<1> QED BY <1>2 DEF LInv, Distinct

(* The empty table is the linked form of the empty sequence.               *)
LEMMA StartsEmpty ==
  ASSUME Init
  PROVE  TypeOK /\ Distinct(<<>>) /\ Represents(<<>>)
<1>1. /\ link = [k \in Key |-> NIL] /\ last = NIL /\ result = NIL
  BY DEF Init
<1>2. <<>> \in Seq(Element) /\ Len(<<>>) = 0 /\ ToSet(<<>>) = {} /\ NoRepeats(<<>>)
  BY DEF ToSet, NoRepeats
<1>3. \A i \in 0..Len(<<>>) : KeyAt(<<>>, i) = FIRST
  BY <1>2 DEF KeyAt
<1>4. Represents(<<>>)
  BY <1>1, <1>2, <1>3 DEF Represents, Key
<1> QED BY <1>1, <1>2, <1>4 DEF TypeOK, Key, Distinct

(* The table is always a well-formed list of distinct values, whatever     *)
(* sequence of calls is made on it.                                        *)
THEOREM AlwaysWellLinked == Spec => []WellLinked
<1>1. Init => LInv
  BY StartsEmpty DEF LInv, Distinct
<1>2. LInv => WellLinked
  <2> SUFFICES ASSUME LInv PROVE WellLinked
    OBVIOUS
  <2>1. PICK s \in Seq(Element) : Distinct(s) /\ Represents(s)
    BY DEF LInv, Distinct
  <2>2. s \in Orders
    BY <2>1, OrdersAreDistinct
  <2> QED BY <2>1, <2>2 DEF LInv, WellLinked
<1> QED BY <1>1, <1>2, Inductive, PTL DEF Spec

(* The abstract module's operators on sequences are those of this one.     *)
LEMMA SameOperators ==
  \A s, e, f, k :
    /\ Abstract!CanInsert(s, e, k) <=> CanInsert(s, e, k)
    /\ Abstract!Inserted(s, e, k) = Inserted(s, e, k)
    /\ Abstract!Found(s, e, k) <=> Found(s, e, k)
    /\ Abstract!Removed(s, e, k) = Removed(s, e, k)
    /\ Abstract!CanReplace(s, e, f, k) <=> CanReplace(s, e, f, k)
    /\ Abstract!Replaced(s, e, f, k) = Replaced(s, e, f, k)
    /\ Abstract!ValueAfter(s, k) = ValueAfter(s, k)
<1>1. /\ \A s : Abstract!ToSet(s) = ToSet(s)
      /\ \A s, i, e : Abstract!InsertAt(s, i, e) = InsertAt(s, i, e)
      /\ \A s, i, e : Abstract!ReplaceAt(s, i, e) = ReplaceAt(s, i, e)
      /\ \A s, i : Abstract!RemoveAt(s, i) = RemoveAt(s, i)
  BY DEF Abstract!ToSet, ToSet, Abstract!InsertAt, InsertAt, Abstract!ReplaceAt, ReplaceAt,
         Abstract!RemoveAt, RemoveAt
<1>2. \A s : Abstract!Keys(s) = Keys(s)
  BY <1>1 DEF Abstract!Keys, Keys
<1>3. \A s, k : Abstract!Pos(s, k) = Pos(s, k)
  BY DEF Abstract!Pos, Pos
<1>4. \A s, e, k : (Abstract!CanInsert(s, e, k) <=> CanInsert(s, e, k))
  BY <1>1, <1>2 DEF Abstract!CanInsert, CanInsert
<1>5. \A s, e, k : (Abstract!Found(s, e, k) <=> Found(s, e, k))
  BY <1>1, <1>2, <1>3 DEF Abstract!Found, Found
<1>6. \A s, e, f, k : (Abstract!CanReplace(s, e, f, k) <=> CanReplace(s, e, f, k))
  BY <1>1, <1>5 DEF Abstract!CanReplace, CanReplace
<1>7. \A s, e, k : Abstract!Inserted(s, e, k) = Inserted(s, e, k)
  BY <1>1, <1>3, <1>4 DEF Abstract!Inserted, Inserted
<1>8. \A s, e, k : Abstract!Removed(s, e, k) = Removed(s, e, k)
  BY <1>1, <1>3, <1>5 DEF Abstract!Removed, Removed
<1>9. \A s, e, f, k : Abstract!Replaced(s, e, f, k) = Replaced(s, e, f, k)
  BY <1>1, <1>3, <1>6 DEF Abstract!Replaced, Replaced
<1>10. \A s, k : Abstract!ValueAfter(s, k) = ValueAfter(s, k)
  BY <1>2, <1>3 DEF Abstract!ValueAfter, ValueAfter
<1> QED BY <1>4, <1>5, <1>6, <1>7, <1>8, <1>9, <1>10

(* A step that calls a method is the call of that method on the sequence.  *)
LEMMA CallsAreAbstract ==
  ASSUME NEW s, NEW t, Order = s, Order' = t, Called(s, t)
  PROVE  [Abstract!ANext]_(Abstract!avars)
<1> HIDE DEF Order
<1>0. Key = Element \cup {FIRST} /\ Key \cup {NIL} = Element \cup {FIRST, NIL}
  BY DEF Key
<1>1. ASSUME NEW e \in Element, NEW p \in Key \cup {NIL},
             call' = <<"insert", e, p>>, t = Inserted(s, e, p),
             result' = IF CanInsert(s, e, p) THEN e ELSE NIL
      PROVE  Abstract!ANext
  BY <1>0, <1>1, SameOperators DEF Abstract!ANext, Abstract!AInsert
<1>2. ASSUME NEW e \in Element, NEW p \in Key,
             call' = <<"remove", e, p>>, t = Removed(s, e, p),
             result' = IF Found(s, e, p) THEN e ELSE NIL
      PROVE  Abstract!ANext
  BY <1>0, <1>2, SameOperators DEF Abstract!ANext, Abstract!ARemove
<1>3. ASSUME NEW old \in Element, NEW new \in Element, NEW p \in Key,
             call' = <<"replace", old, new, p>>, t = Replaced(s, old, new, p),
             result' = IF CanReplace(s, old, new, p) THEN old ELSE NIL
      PROVE  Abstract!ANext
  BY <1>0, <1>3, SameOperators DEF Abstract!ANext, Abstract!AReplace
<1>4. ASSUME NEW e \in Element, call' = <<"pushfront", e>>, t = Inserted(s, e, FIRST),
             result' = IF CanInsert(s, e, FIRST) THEN e ELSE NIL
      PROVE  Abstract!ANext
  BY <1>4, SameOperators DEF Abstract!ANext, Abstract!APushFront, Abstract!AInsert
<1>5. ASSUME NEW e \in Element, call' = <<"pushback", e>>, t = Inserted(s, e, NIL),
             result' = IF CanInsert(s, e, NIL) THEN e ELSE NIL
      PROVE  Abstract!ANext
  BY <1>5, SameOperators DEF Abstract!ANext, Abstract!APushBack, Abstract!AInsert
<1>6. ASSUME call' = <<"popfront">>, t = IF s = <<>> THEN <<>> ELSE Tail(s),
             result' = ValueAfter(s, FIRST)
      PROVE  Abstract!ANext
  BY <1>6, SameOperators DEF Abstract!ANext, Abstract!APopFront
<1>7. ASSUME t = s, call' = call, result' = result
      PROVE  UNCHANGED Abstract!avars
  BY <1>7 DEF Abstract!avars
<1> QED BY <1>1, <1>2, <1>3, <1>4, <1>5, <1>6, <1>7 DEF Called

(* A client that sees only calls and results cannot tell the table from a  *)
(* sequence: the initial table maps to the empty sequence and every call   *)
(* to the call of AbstractOrderedSet with the same arguments and result.   *)
THEOREM TableImplementsSequence == Spec => ImplementsSequence
<1>1. Init => LInv
  BY StartsEmpty DEF LInv, Distinct
<1>2. Init => Abstract!AInit
  <2> SUFFICES ASSUME Init PROVE Abstract!AInit
    OBVIOUS
  <2>1. Order = <<>>
    BY StartsEmpty, OrderIs
  <2> QED BY <2>1 DEF Init, Abstract!AInit
<1>3. LInv /\ [Next]_vars => [Abstract!ANext]_(Abstract!avars)
  <2> SUFFICES ASSUME LInv, [Next]_vars PROVE [Abstract!ANext]_(Abstract!avars)
    OBVIOUS
  <2>1. PICK s \in Seq(Element) : Distinct(s) /\ Represents(s)
    BY DEF LInv, Distinct
  <2>2. PICK t : Distinct(t) /\ Represents(t)' /\ Called(s, t)
    BY <2>1, EveryStep DEF LInv
  <2>3. Order = s /\ Order' = t
    BY <2>1, <2>2, OrderIs, OrderBecomes
  <2> QED BY <2>2, <2>3, CallsAreAbstract
<1> QED BY <1>1, <1>2, <1>3, Inductive, PTL DEF Spec, ImplementsSequence, Abstract!ASpec
=============================================================================
