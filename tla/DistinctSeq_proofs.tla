------------------------- MODULE DistinctSeq_proofs -------------------------
(***************************************************************************)
(* Facts about the operators of DistinctSeq: the positions of the values   *)
(* of a sequence without repetition after one is put in or taken out.      *)
(***************************************************************************)
EXTENDS DistinctSeq, TLAPS, SequenceTheorems, WellFoundedInduction

(* Insertion shifts the values from position i on by one.                  *)
LEMMA InsertAtFacts ==
  ASSUME NEW S, NEW s \in Seq(S), NEW e \in S, NEW i \in 1..(Len(s) + 1)
  PROVE  /\ InsertAt(s, i, e) \in Seq(S)
         /\ Len(InsertAt(s, i, e)) = Len(s) + 1
         /\ \A j \in 1..(Len(s) + 1) :
              InsertAt(s, i, e)[j] =
                IF j < i THEN s[j] ELSE IF j = i THEN e ELSE s[j - 1]
<1> DEFINE a == SubSeq(s, 1, i-1)
           b == SubSeq(s, i, Len(s))
<1>1. a \in Seq(S) /\ Len(a) = i-1 /\ \A j \in 1..i-1 : a[j] = s[j]
  BY SubSeqProperties
<1>2. b \in Seq(S) /\ Len(b) = Len(s)-i+1 /\ \A j \in 1..Len(s)-i+1 : b[j] = s[i+j-1]
  BY SubSeqProperties
<1>3. <<e>> \in Seq(S) /\ Len(<<e>>) = 1 /\ <<e>>[1] = e
  OBVIOUS
<1> DEFINE ae == a \o <<e>>
<1> HIDE DEF a, b
<1>4. ae \in Seq(S) /\ Len(ae) = i /\ \A j \in 1..i : ae[j] = IF j < i THEN s[j] ELSE e
  BY <1>1, <1>3, ConcatProperties
<1> HIDE DEF ae
<1>5. /\ ae \o b \in Seq(S) /\ Len(ae \o b) = Len(s)+1
      /\ \A j \in 1..Len(s)+1 : (ae \o b)[j] = IF j <= i THEN ae[j] ELSE b[j-i]
  <2>1. Len(ae)+Len(b) = Len(s)+1
    BY <1>2, <1>4
  <2>2. /\ ae \o b \in Seq(S) /\ Len(ae \o b) = Len(ae)+Len(b)
        /\ \A j \in 1..Len(ae)+Len(b) : (ae \o b)[j] = IF j <= Len(ae) THEN ae[j] ELSE b[j-Len(ae)]
    <3>1. ae \in Seq(S) /\ b \in Seq(S)
      BY <1>4, <1>2
    <3> QED BY ONLY <3>1, ConcatProperties, Zenon
  <2> QED BY <1>4, <2>1, <2>2
<1>6. InsertAt(s,i,e) = ae \o b
  BY DEF InsertAt, a, b, ae
<1>7. ASSUME NEW j \in 1..Len(s)+1, j > i PROVE b[j-i] = s[j-1]
  BY <1>2, <1>7
<1> QED BY <1>5, <1>6, <1>7, <1>4

(* Removal shifts the values after position i back by one.                 *)
LEMMA RemoveAtFacts ==
  ASSUME NEW S, NEW s \in Seq(S), NEW i \in 1..Len(s)
  PROVE  /\ RemoveAt(s, i) \in Seq(S)
         /\ Len(RemoveAt(s, i)) = Len(s) - 1
         /\ \A j \in 1..(Len(s) - 1) :
              RemoveAt(s, i)[j] = IF j < i THEN s[j] ELSE s[j + 1]
<1> DEFINE a == SubSeq(s, 1, i-1)
           b == SubSeq(s, i+1, Len(s))
<1>1. a \in Seq(S) /\ Len(a) = i-1 /\ \A j \in 1..i-1 : a[j] = s[j]
  BY SubSeqProperties
<1>2. b \in Seq(S) /\ Len(b) = Len(s)-i /\ \A j \in 1..Len(s)-i : b[j] = s[i+j]
  BY SubSeqProperties
<1>3. RemoveAt(s,i) = a \o b
  BY DEF RemoveAt
<1> HIDE DEF a, b
<1>4. Len(a) + Len(b) = Len(s)-1
  BY <1>1, <1>2
<1>5. /\ a \o b \in Seq(S) /\ Len(a \o b) = Len(s)-1
      /\ \A j \in 1..Len(s)-1 : (a \o b)[j] = IF j <= Len(a) THEN a[j] ELSE b[j-Len(a)]
  <2>2. /\ a \o b \in Seq(S) /\ Len(a \o b) = Len(a)+Len(b)
        /\ \A j \in 1..Len(a)+Len(b) : (a \o b)[j] = IF j <= Len(a) THEN a[j] ELSE b[j-Len(a)]
    <3>1. a \in Seq(S) /\ b \in Seq(S)
      BY <1>1, <1>2
    <3> QED BY ONLY <3>1, ConcatProperties, Zenon
  <2> QED BY <1>4, <2>2
<1>7. ASSUME NEW j \in 1..Len(s)-1, ~(j < i) PROVE b[j-Len(a)] = s[j+1]
  BY <1>2, <1>7, <1>1
<1>8. ASSUME NEW j \in 1..Len(s)-1
      PROVE  (a \o b)[j] = IF j < i THEN s[j] ELSE s[j+1]
  <2>1. j < i <=> j <= Len(a)
    BY <1>1
  <2>2. j < i => j \in 1..i-1
    OBVIOUS
  <2> QED BY <2>1, <2>2, <1>1, <1>5, <1>7
<1> QED BY <1>5, <1>3, <1>8

(* A value of a sequence without repetition has one position.              *)
LEMMA PosFacts ==
  ASSUME NEW S, FIRST \notin S, NEW s \in Seq(S), NoRepeats(s)
  PROVE  /\ Pos(s, FIRST) = 0
         /\ \A e \in ToSet(s) : Pos(s, e) \in 1..Len(s) /\ s[Pos(s, e)] = e
         /\ \A i \in 1..Len(s) : s[i] \in ToSet(s) /\ Pos(s, s[i]) = i
         /\ ToSet(s) \subseteq S /\ FIRST \notin ToSet(s)
         /\ Len(s) \in Nat
<1>1. DOMAIN s = 1..Len(s) /\ Len(s) \in Nat
  BY LenProperties
<1>2. \A i \in 1..Len(s) : s[i] \in S /\ s[i] \in ToSet(s)
  BY <1>1, ElementOfSeq DEF ToSet
<1>3. ToSet(s) \subseteq S
  BY <1>1, <1>2 DEF ToSet
<1>4. ASSUME NEW e \in ToSet(s) PROVE Pos(s, e) \in 1..Len(s) /\ s[Pos(s, e)] = e
  <2>1. \E i \in 1..Len(s) : s[i] = e
    BY <1>1 DEF ToSet
  <2>2. Pos(s, e) = CHOOSE i \in 1..Len(s) : s[i] = e
    BY <1>3 DEF Pos
  <2> QED BY <2>1, <2>2
<1>5. ASSUME NEW i \in 1..Len(s) PROVE Pos(s, s[i]) = i
  <2>1. Pos(s, s[i]) \in 1..Len(s) /\ s[Pos(s, s[i])] = s[i]
    BY <1>2, <1>4
  <2> QED BY <2>1, <1>1 DEF NoRepeats
<1> QED BY <1>1, <1>2, <1>3, <1>4, <1>5 DEF Pos

(* Any sequence that is injective on its range has no repetition.          *)
LEMMA AppendDistinct ==
  ASSUME NEW S, FIRST \notin S, NEW s \in Seq(S), NoRepeats(s),
         NEW e \in S, e \notin ToSet(s)
  PROVE  /\ Append(s, e) \in Seq(S) /\ NoRepeats(Append(s, e))
         /\ ToSet(Append(s, e)) = ToSet(s) \cup {e}
         /\ Pos(Append(s, e), e) = Len(s) + 1
         /\ \A k \in Keys(s) : Pos(Append(s, e), k) = Pos(s, k)
<1> DEFINE t == Append(s, e)
<1>1. /\ t \in Seq(S) /\ Len(t) = Len(s) + 1 /\ DOMAIN t = 1..(Len(s) + 1)
      /\ \A i \in 1..Len(s) : t[i] = s[i]
      /\ t[Len(s) + 1] = e
      /\ Len(s) \in Nat /\ DOMAIN s = 1..Len(s)
  BY LenProperties
<1>2. \A i \in 1..Len(s) : s[i] # e /\ s[i] \in ToSet(s)
  BY PosFacts
<1> HIDE DEF t
<1>3. NoRepeats(t)
  <2> SUFFICES ASSUME NEW i \in 1..(Len(s) + 1), NEW j \in 1..(Len(s) + 1), t[i] = t[j]
               PROVE  i = j
    BY <1>1 DEF NoRepeats
  <2>1. CASE i \in 1..Len(s) /\ j \in 1..Len(s)
    BY <2>1, <1>1 DEF NoRepeats
  <2>2. CASE i = Len(s) + 1 \/ j = Len(s) + 1
    BY <2>2, <1>1, <1>2
  <2> QED BY <2>1, <2>2, <1>1
<1>4. ToSet(t) = ToSet(s) \cup {e}
  <2>1. ToSet(t) \subseteq ToSet(s) \cup {e}
    BY <1>1, <1>2 DEF ToSet
  <2>2. ToSet(s) \subseteq ToSet(t) /\ e \in ToSet(t)
    BY <1>1 DEF ToSet
  <2> QED BY <2>1, <2>2
<1>5. Pos(t, t[Len(s) + 1]) = Len(s) + 1 /\ Pos(t, FIRST) = 0
  BY <1>1, <1>3, PosFacts
<1>6. ASSUME NEW k \in ToSet(s) PROVE Pos(t, k) = Pos(s, k)
  <2>1. Pos(s, k) \in 1..Len(s) /\ s[Pos(s, k)] = k
    BY PosFacts
  <2>2. t[Pos(s, k)] = k /\ Pos(s, k) \in 1..Len(t)
    BY <2>1, <1>1
  <2> QED BY <2>2, <1>1, <1>3, PosFacts
<1> QED BY <1>1, <1>3, <1>4, <1>5, <1>6, PosFacts DEF Keys, t

(* InsertAt of a new value. *)
LEMMA InsertAtDistinct ==
  ASSUME NEW S, FIRST \notin S, NEW s \in Seq(S), NoRepeats(s),
         NEW e \in S, e \notin ToSet(s), NEW i \in 1..(Len(s) + 1)
  PROVE  /\ InsertAt(s, i, e) \in Seq(S) /\ NoRepeats(InsertAt(s, i, e))
         /\ ToSet(InsertAt(s, i, e)) = ToSet(s) \cup {e}
         /\ Pos(InsertAt(s, i, e), e) = i
         /\ \A k \in Keys(s) : Pos(InsertAt(s, i, e), k) =
              IF Pos(s, k) < i THEN Pos(s, k) ELSE Pos(s, k) + 1
<1> DEFINE t == InsertAt(s, i, e)
<1>1. /\ t \in Seq(S) /\ Len(t) = Len(s) + 1 /\ DOMAIN t = 1..(Len(s) + 1)
      /\ \A j \in 1..(Len(s) + 1) :
           t[j] = IF j < i THEN s[j] ELSE IF j = i THEN e ELSE s[j - 1]
      /\ Len(s) \in Nat /\ DOMAIN s = 1..Len(s)
  <2>1. /\ t \in Seq(S) /\ Len(t) = Len(s) + 1
        /\ \A j \in 1..(Len(s) + 1) :
             t[j] = IF j < i THEN s[j] ELSE IF j = i THEN e ELSE s[j - 1]
    <3>1. s \in Seq(S) /\ e \in S /\ i \in 1..(Len(s) + 1)
      OBVIOUS
    <3> QED BY ONLY <3>1, InsertAtFacts, SMT
  <2>2. DOMAIN t = 1..Len(t) /\ Len(s) \in Nat /\ DOMAIN s = 1..Len(s)
    BY <2>1, LenProperties
  <2> QED BY <2>1, <2>2
<1>2. \A j \in 1..Len(s) : s[j] # e /\ s[j] \in ToSet(s)
  BY PosFacts
<1> HIDE DEF t
<1>3. NoRepeats(t)
  <2> SUFFICES ASSUME NEW j \in 1..(Len(s) + 1), NEW k \in 1..(Len(s) + 1), t[j] = t[k]
               PROVE  j = k
    BY <1>1 DEF NoRepeats
  <2> DEFINE old(m) == IF m < i THEN m ELSE m - 1
  <2>1. \A m \in 1..(Len(s) + 1) : m # i => old(m) \in 1..Len(s) /\ t[m] = s[old(m)]
    BY <1>1
  <2>2. CASE j # i /\ k # i
    <3>1. s[old(j)] = s[old(k)] /\ old(j) \in 1..Len(s) /\ old(k) \in 1..Len(s)
      BY <2>1, <2>2
    <3>2. old(j) = old(k)
      <4> HIDE DEF old
      <4> QED BY <3>1, <1>1 DEF NoRepeats
    <3> QED BY <3>2, <2>2, <1>1
  <2>3. CASE j = i \/ k = i
    BY <2>1, <2>3, <1>1, <1>2
  <2> QED BY <2>2, <2>3
<1>4. \A j \in 1..Len(s) : /\ (j < i => j \in 1..(Len(s) + 1) /\ t[j] = s[j])
                           /\ (j >= i => j + 1 \in 1..(Len(s) + 1) /\ t[j + 1] = s[j])
  BY <1>1
<1>5. ToSet(t) = ToSet(s) \cup {e}
  <2>1. ToSet(t) \subseteq ToSet(s) \cup {e}
    <3> SUFFICES ASSUME NEW j \in 1..(Len(s) + 1), j # i PROVE t[j] \in ToSet(s)
      BY <1>1 DEF ToSet
    <3> QED BY <1>1, <1>2
  <2>2. e \in ToSet(t)
    BY <1>1 DEF ToSet
  <2>3. ASSUME NEW j \in 1..Len(s) PROVE s[j] \in ToSet(t)
    <3>1. \E m \in 1..(Len(s) + 1) : t[m] = s[j]
      <4>1. CASE j < i
        BY <4>1, <1>4
      <4>2. CASE j >= i
        BY <4>2, <1>4
      <4> QED BY <4>1, <4>2, <1>1
    <3> QED BY <3>1, <1>1 DEF ToSet
  <2> QED BY <2>1, <2>2, <2>3, <1>1 DEF ToSet
<1>6. Pos(t, e) = i /\ Pos(t, FIRST) = 0
  <2>1. t[i] = e
    BY <1>1
  <2> QED BY <2>1, <1>1, <1>3, PosFacts
<1>7. ASSUME NEW k \in ToSet(s)
      PROVE  Pos(t, k) = IF Pos(s, k) < i THEN Pos(s, k) ELSE Pos(s, k) + 1
  <2>1. Pos(s, k) \in 1..Len(s) /\ s[Pos(s, k)] = k
    BY PosFacts
  <2> DEFINE m == IF Pos(s, k) < i THEN Pos(s, k) ELSE Pos(s, k) + 1
  <2>2. m \in 1..Len(t) /\ t[m] = k
    BY <2>1, <1>1, <1>4
  <2>3. Pos(t, t[m]) = m
    BY <2>2, <1>1, <1>3, PosFacts
  <2> QED BY <2>2, <2>3
<1> QED BY <1>1, <1>3, <1>5, <1>6, <1>7, PosFacts DEF Keys, t

(* RemoveAt the position of a value. *)
LEMMA RemoveAtDistinct ==
  ASSUME NEW S, FIRST \notin S, NEW s \in Seq(S), NoRepeats(s), NEW e \in ToSet(s)
  PROVE  /\ RemoveAt(s, Pos(s, e)) \in Seq(S) /\ NoRepeats(RemoveAt(s, Pos(s, e)))
         /\ ToSet(RemoveAt(s, Pos(s, e))) = ToSet(s) \ {e}
         /\ \A k \in Keys(s) \ {e} : Pos(RemoveAt(s, Pos(s, e)), k) =
              IF Pos(s, k) < Pos(s, e) THEN Pos(s, k) ELSE Pos(s, k) - 1
<1> DEFINE i == Pos(s, e)
           t == RemoveAt(s, i)
<1>0. i \in 1..Len(s) /\ s[i] = e
  BY PosFacts
<1> HIDE DEF i
<1>1. /\ t \in Seq(S) /\ Len(t) = Len(s) - 1 /\ DOMAIN t = 1..(Len(s) - 1)
      /\ \A j \in 1..(Len(s) - 1) : t[j] = IF j < i THEN s[j] ELSE s[j + 1]
      /\ Len(s) \in Nat /\ DOMAIN s = 1..Len(s)
  BY <1>0, RemoveAtFacts, LenProperties
<1>2. \A j, k \in 1..Len(s) : s[j] = s[k] => j = k
  BY <1>1 DEF NoRepeats
<1> HIDE DEF t
<1> DEFINE old(m) == IF m < i THEN m ELSE m + 1
<1>3. \A m \in 1..(Len(s) - 1) : old(m) \in 1..Len(s) /\ old(m) # i /\ t[m] = s[old(m)]
  BY <1>0, <1>1
<1>4. NoRepeats(t)
  <2> SUFFICES ASSUME NEW j \in 1..(Len(s) - 1), NEW k \in 1..(Len(s) - 1), t[j] = t[k]
               PROVE  j = k
    BY <1>1 DEF NoRepeats
  <2>1. old(j) = old(k)
    BY <1>2, <1>3
  <2> QED BY <2>1, <1>0, <1>1
<1>5. \A j \in 1..Len(s) : /\ (j < i => j \in 1..(Len(s) - 1) /\ t[j] = s[j])
                           /\ (j > i => j - 1 \in 1..(Len(s) - 1) /\ t[j - 1] = s[j])
  BY <1>0, <1>1
<1>6. ToSet(t) = ToSet(s) \ {e}
  <2>1. ASSUME NEW m \in 1..(Len(s) - 1) PROVE t[m] \in ToSet(s) /\ t[m] # e
    <3>1. old(m) \in 1..Len(s) /\ old(m) # i /\ t[m] = s[old(m)]
      BY <1>3
    <3> QED BY <3>1, <1>0, <1>1, <1>2 DEF ToSet
  <2>2. ASSUME NEW j \in 1..Len(s), s[j] # e PROVE s[j] \in ToSet(t)
    <3>1. j < i \/ j > i
      BY <2>2, <1>0
    <3> QED BY <3>1, <1>1, <1>5 DEF ToSet
  <2> QED BY <2>1, <2>2, <1>1 DEF ToSet
<1>7. Pos(t, FIRST) = 0
  BY DEF Pos
<1>8. ASSUME NEW k \in ToSet(s), k # e
      PROVE  Pos(t, k) = IF Pos(s, k) < i THEN Pos(s, k) ELSE Pos(s, k) - 1
  <2>1. Pos(s, k) \in 1..Len(s) /\ s[Pos(s, k)] = k /\ Pos(s, k) # i
    BY <1>0, <1>8, PosFacts
  <2> DEFINE m == IF Pos(s, k) < i THEN Pos(s, k) ELSE Pos(s, k) - 1
  <2>2. m \in 1..Len(t) /\ t[m] = k
    BY <2>1, <1>0, <1>1, <1>5
  <2>3. Pos(t, t[m]) = m
    <3>1. t \in Seq(S) /\ NoRepeats(t)
      BY <1>1, <1>4
    <3> HIDE DEF m
    <3> QED BY <3>1, <2>2, PosFacts
  <2> QED BY <2>2, <2>3
<1>9. Pos(s, FIRST) = 0 /\ 0 < i
  BY <1>0, PosFacts
<1> QED BY <1>1, <1>4, <1>6, <1>7, <1>8, <1>9, PosFacts DEF Keys, t, i

(* Inserted keeps the set a sequence without repetition, adds the value    *)
(* only when it can, and leaves the other keys in their order.             *)
LEMMA InsertedFacts ==
  ASSUME NEW S, FIRST \notin S, NIL \notin S, NIL # FIRST,
         NEW s \in Seq(S), NoRepeats(s), NEW e \in S, NEW p
  PROVE  /\ Inserted(s, e, p) \in Seq(S) /\ NoRepeats(Inserted(s, e, p))
         /\ ToSet(Inserted(s, e, p)) =
              IF CanInsert(s, e, p) THEN ToSet(s) \cup {e} ELSE ToSet(s)
         /\ \A k, l \in Keys(s) : Pos(s, k) < Pos(s, l) =>
              Pos(Inserted(s, e, p), k) < Pos(Inserted(s, e, p), l)
         /\ p = NIL => \A k \in Keys(s) : Pos(Inserted(s, e, p), k) = Pos(s, k)
         /\ p = NIL /\ CanInsert(s, e, p) => Pos(Inserted(s, e, p), e) = Len(s) + 1
<1> DEFINE t == Inserted(s, e, p)
<1>0. \A k \in Keys(s) : Pos(s, k) \in 0..Len(s)
  BY PosFacts DEF Keys
<1>1. CASE ~CanInsert(s, e, p)
  BY <1>1 DEF Inserted
<1>2. CASE CanInsert(s, e, p) /\ p = NIL
  <2>1. t = Append(s, e) /\ e \notin ToSet(s)
    BY <1>2 DEF Inserted, CanInsert
  <2> HIDE DEF t
  <2> QED BY <2>1, <1>2, AppendDistinct DEF t
<1>3. CASE CanInsert(s, e, p) /\ p # NIL
  <2> DEFINE i == Pos(s, p) + 1
  <2>1. t = InsertAt(s, i, e) /\ e \notin ToSet(s) /\ p \in Keys(s)
    BY <1>3 DEF Inserted, CanInsert
  <2>2. i \in 1..(Len(s) + 1) /\ Len(s) \in Nat
    BY <2>1, <1>0, PosFacts
  <2> HIDE DEF t, i
  <2>3. /\ t \in Seq(S) /\ NoRepeats(t) /\ ToSet(t) = ToSet(s) \cup {e}
        /\ \A k \in Keys(s) : Pos(t, k) = IF Pos(s, k) < i THEN Pos(s, k) ELSE Pos(s, k) + 1
    BY <2>1, <2>2, InsertAtDistinct
  <2>4. ASSUME NEW k \in Keys(s), NEW l \in Keys(s), Pos(s, k) < Pos(s, l)
        PROVE  Pos(t, k) < Pos(t, l)
    <3>1. Pos(s, k) \in Int /\ Pos(s, l) \in Int /\ i \in Int
      BY <1>0, <2>2
    <3> QED BY <3>1, <2>3, <2>4
  <2> QED BY <2>3, <2>4, <1>3 DEF t
<1> QED BY <1>1, <1>2, <1>3

(* A value that is inserted after a key stands right after it, and the     *)
(* keys behind move down by one.                                           *)
LEMMA InsertedAfterFacts ==
  ASSUME NEW S, FIRST \notin S, NIL \notin S, NIL # FIRST,
         NEW s \in Seq(S), NoRepeats(s), NEW e \in S, e \notin ToSet(s),
         NEW p \in Keys(s)
  PROVE  /\ Inserted(s, e, p) = InsertAt(s, Pos(s, p) + 1, e)
         /\ Pos(Inserted(s, e, p), e) = Pos(s, p) + 1
         /\ \A k \in Keys(s) : Pos(Inserted(s, e, p), k) =
              IF Pos(s, k) <= Pos(s, p) THEN Pos(s, k) ELSE Pos(s, k) + 1
<1> DEFINE i == Pos(s, p) + 1
<1>1. \A k \in Keys(s) : Pos(s, k) \in 0..Len(s) /\ Len(s) \in Nat
  BY PosFacts DEF Keys
<1>2. p # NIL
  BY PosFacts DEF Keys
<1>3. Inserted(s, e, p) = InsertAt(s, i, e)
  BY <1>2 DEF Inserted, CanInsert
<1>4. i \in 1..(Len(s) + 1)
  BY <1>1
<1> HIDE DEF i
<1>5. /\ Pos(InsertAt(s, i, e), e) = i
      /\ \A k \in Keys(s) : Pos(InsertAt(s, i, e), k) =
           IF Pos(s, k) < i THEN Pos(s, k) ELSE Pos(s, k) + 1
  BY <1>4, InsertAtDistinct
<1> QED BY <1>1, <1>3, <1>5 DEF i

(* Removed takes the value out when it is met from start, and the keys     *)
(* after it move up by one.                                                *)
LEMMA RemovedFacts ==
  ASSUME NEW S, FIRST \notin S, NEW s \in Seq(S), NoRepeats(s), NEW e \in S, NEW start
  PROVE  /\ Removed(s, e, start) \in Seq(S) /\ NoRepeats(Removed(s, e, start))
         /\ ToSet(Removed(s, e, start)) =
              IF Found(s, e, start) THEN ToSet(s) \ {e} ELSE ToSet(s)
         /\ Found(s, e, start) => \A k \in Keys(s) \ {e} :
              Pos(Removed(s, e, start), k) =
                IF Pos(s, k) < Pos(s, e) THEN Pos(s, k) ELSE Pos(s, k) - 1
<1>1. CASE ~Found(s, e, start)
  BY <1>1 DEF Removed
<1>2. CASE Found(s, e, start)
  <2>1. Removed(s, e, start) = RemoveAt(s, Pos(s, e)) /\ e \in ToSet(s)
    BY <1>2 DEF Removed, Found
  <2> QED BY <2>1, <1>2, RemoveAtDistinct
<1> QED BY <1>1, <1>2

(* The two parts of a sequence without repetition share no value.          *)
LEMMA SplitFacts ==
  ASSUME NEW S, FIRST \notin S, NEW s \in Seq(S), NoRepeats(s), NEW n \in 0..Len(s)
  PROVE  /\ SubSeq(s, 1, n) \in Seq(S) /\ NoRepeats(SubSeq(s, 1, n))
         /\ SubSeq(s, n + 1, Len(s)) \in Seq(S) /\ NoRepeats(SubSeq(s, n + 1, Len(s)))
         /\ ToSet(SubSeq(s, 1, n)) \cap ToSet(SubSeq(s, n + 1, Len(s))) = {}
         /\ ToSet(SubSeq(s, 1, n)) \cup ToSet(SubSeq(s, n + 1, Len(s))) = ToSet(s)
<1> DEFINE a == SubSeq(s, 1, n)
           b == SubSeq(s, n + 1, Len(s))
<1>1. /\ a \in Seq(S) /\ Len(a) = n /\ \A i \in 1..n : a[i] = s[i]
  BY SubSeqProperties
<1>2. b \in Seq(S) /\ Len(b) = Len(s) - n /\ \A i \in 1..(Len(s) - n) : b[i] = s[n + i]
  BY SubSeqProperties
<1>3. DOMAIN s = 1..Len(s) /\ Len(s) \in Nat
  BY LenProperties
<1> HIDE DEF a, b
<1>4. DOMAIN a = 1..n /\ DOMAIN b = 1..(Len(s) - n)
  BY <1>1, <1>2, LenProperties
<1>5. \A i, j \in 1..Len(s) : s[i] = s[j] => i = j
  BY <1>3 DEF NoRepeats
<1>6. NoRepeats(a)
  BY <1>1, <1>4, <1>5 DEF NoRepeats
<1>7. NoRepeats(b)
  <2> SUFFICES ASSUME NEW i \in 1..(Len(s) - n), NEW j \in 1..(Len(s) - n), b[i] = b[j]
               PROVE  i = j
    BY <1>4 DEF NoRepeats
  <2>1. s[n + i] = s[n + j] /\ n + i \in 1..Len(s) /\ n + j \in 1..Len(s)
    BY <1>2, <1>3
  <2> QED BY <2>1, <1>5
<1>8. ToSet(a) \cap ToSet(b) = {}
  <2> SUFFICES ASSUME NEW i \in 1..n, NEW j \in 1..(Len(s) - n), a[i] = b[j]
               PROVE  FALSE
    BY <1>4 DEF ToSet
  <2>1. s[i] = s[n + j] /\ i \in 1..Len(s) /\ n + j \in 1..Len(s)
    BY <1>1, <1>2, <1>3
  <2> QED BY <2>1, <1>5
<1>9. ToSet(a) \cup ToSet(b) = ToSet(s)
  <2>1. \A i \in 1..n : a[i] \in ToSet(s)
    BY <1>1, <1>3 DEF ToSet
  <2>2. ASSUME NEW i \in 1..(Len(s) - n) PROVE b[i] \in ToSet(s)
    <3>1. b[i] = s[n + i] /\ n + i \in DOMAIN s
      BY <1>2, <1>3
    <3> QED BY <3>1 DEF ToSet
  <2>3. ASSUME NEW i \in 1..Len(s) PROVE s[i] \in ToSet(a) \cup ToSet(b)
    <3>1. CASE i \in 1..n
      BY <3>1, <1>1, <1>4 DEF ToSet
    <3>2. CASE i > n
      <4>1. i - n \in 1..(Len(s) - n) /\ n + (i - n) = i
        BY <3>2
      <4> QED BY <4>1, <1>2, <1>4 DEF ToSet
    <3> QED BY <3>1, <3>2
  <2> QED BY <2>1, <2>2, <2>3, <1>3, <1>4 DEF ToSet
<1> QED BY <1>1, <1>2, <1>6, <1>7, <1>8, <1>9 DEF a, b

(* Joining two sequences that share no value; the keys of the first keep   *)
(* their positions.                                                        *)
LEMMA JoinFacts ==
  ASSUME NEW S, FIRST \notin S, NEW s \in Seq(S), NEW t \in Seq(S),
         NoRepeats(s), NoRepeats(t), ToSet(s) \cap ToSet(t) = {}
  PROVE  /\ s \o t \in Seq(S) /\ NoRepeats(s \o t)
         /\ ToSet(s \o t) = ToSet(s) \cup ToSet(t)
<1> DEFINE u == s \o t
<1>1. /\ u \in Seq(S) /\ Len(u) = Len(s) + Len(t)
      /\ \A i \in 1..(Len(s) + Len(t)) : u[i] = IF i <= Len(s) THEN s[i] ELSE t[i - Len(s)]
  BY ONLY s \in Seq(S), t \in Seq(S), ConcatProperties, Zenon
<1>2. /\ DOMAIN s = 1..Len(s) /\ Len(s) \in Nat
      /\ DOMAIN t = 1..Len(t) /\ Len(t) \in Nat
  BY LenProperties
<1> HIDE DEF u
<1>3. DOMAIN u = 1..(Len(s) + Len(t))
  BY <1>1, LenProperties
<1>4. \A i \in 1..Len(s) : i \in DOMAIN u /\ u[i] = s[i] /\ s[i] \in ToSet(s)
  BY <1>1, <1>2, <1>3 DEF ToSet
<1>5. \A i \in 1..Len(t) : Len(s) + i \in DOMAIN u /\ u[Len(s) + i] = t[i] /\ t[i] \in ToSet(t)
  <2> TAKE i \in 1..Len(t)
  <2>1. Len(s) + i \in 1..(Len(s) + Len(t)) /\ ~(Len(s) + i <= Len(s)) /\ (Len(s) + i) - Len(s) = i
    BY <1>2
  <2> QED BY <2>1, <1>1, <1>2, <1>3 DEF ToSet
<1>6. ASSUME NEW i \in DOMAIN u
      PROVE  i \in 1..Len(s) \/ (i - Len(s) \in 1..Len(t) /\ i = Len(s) + (i - Len(s)))
  BY <1>2, <1>3
<1>7. NoRepeats(u)
  <2> SUFFICES ASSUME NEW i \in DOMAIN u, NEW j \in DOMAIN u, u[i] = u[j]
               PROVE  i = j
    BY DEF NoRepeats
  <2>0. i \in Int /\ j \in Int
    BY <1>2, <1>3
  <2>1. CASE i \in 1..Len(s) /\ j \in 1..Len(s)
    BY <2>1, <1>2, <1>4 DEF NoRepeats
  <2>2. CASE i - Len(s) \in 1..Len(t) /\ j - Len(s) \in 1..Len(t)
    <3>1. t[i - Len(s)] = t[j - Len(s)]
      BY <2>2, <1>5, <1>6, <1>2, <2>0
    <3>2. i - Len(s) = j - Len(s)
      BY <3>1, <2>2, <1>2 DEF NoRepeats
    <3> QED BY <3>2, <2>0, <1>2
  <2>3. CASE i \in 1..Len(s) /\ j - Len(s) \in 1..Len(t)
    <3>1. u[i] \in ToSet(s) /\ u[j] \in ToSet(t)
      BY <2>3, <2>0, <1>2, <1>4, <1>5
    <3> QED BY <3>1
  <2>4. CASE j \in 1..Len(s) /\ i - Len(s) \in 1..Len(t)
    <3>1. u[j] \in ToSet(s) /\ u[i] \in ToSet(t)
      BY <2>4, <2>0, <1>2, <1>4, <1>5
    <3> QED BY <3>1
  <2> QED BY <2>1, <2>2, <2>3, <2>4, <1>6
<1>8. ToSet(u) = ToSet(s) \cup ToSet(t)
  <2>1. ASSUME NEW i \in DOMAIN u PROVE u[i] \in ToSet(s) \cup ToSet(t)
    <3>1. CASE i \in 1..Len(s)
      BY <3>1, <1>4
    <3>2. CASE i - Len(s) \in 1..Len(t)
      BY <3>2, <1>5, <1>6
    <3> QED BY <3>1, <3>2, <1>6
  <2>2. ToSet(s) \subseteq ToSet(u)
    BY <1>2, <1>4 DEF ToSet
  <2>3. ToSet(t) \subseteq ToSet(u)
    BY <1>2, <1>5 DEF ToSet
  <2> QED BY <2>1, <2>2, <2>3 DEF ToSet
<1> QED BY <1>1, <1>7, <1>8 DEF u

(* A set of natural numbers has a least member: what inductions along a    *)
(* list rest on.                                                            *)
LEMMA LeastNatural ==
  ASSUME NEW S \in SUBSET Nat, S # {}
  PROVE  \E m \in S : \A n \in S : m <= n
<1> DEFINE R == {ss \in Nat \X Nat : ss[1] < ss[2]}
<1>1. IsWellFoundedOn(R, Nat)
  BY NatLessThanWellFounded DEF OpToRel
<1>2. PICK m \in S : \A n \in S : ~ (<<n, m>> \in R)
  <2> HIDE DEF R
  <2> QED BY <1>1, WFMin
<1>3. ASSUME NEW n \in S, n < m PROVE <<n, m>> \in R
  BY <1>3
<1>4. S \subseteq Nat
  OBVIOUS
<1> HIDE DEF R
<1>5. \A n \in S : ~ (n < m)
  BY <1>2, <1>3
<1> QED BY <1>4, <1>5

=============================================================================
