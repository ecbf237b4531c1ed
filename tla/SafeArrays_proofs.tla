------------------------- MODULE SafeArrays_proofs -------------------------
(***************************************************************************)
(* The DLL of the array component stays loaded while it is needed, and     *)
(* SetArray() fetches elements of its array only, all of them in the order *)
(* of nested loops: for any clients, callers and numbers of references,    *)
(* and for arrays of any number of dimensions.                             *)
(***************************************************************************)
EXTENDS SafeArrays, FiniteSetTheorems, SequenceTheorems, TLAPS

(***************************************************************************)
(* The inductive invariant.  That of the order of elements follows below.  *)
(***************************************************************************)
\* The dimensions that an array can have.
Dims == {b \in Seq(Bound) \ {<< >>} : \A n \in DOMAIN b : b[n].cElements > 0}

\* Index n of ix is one that dimension n has; it is the first past those.
InRange(b, ix, n) == ix[n] \in b[n].lLbound..b[n].lLbound + b[n].cElements - 1
Past(b, ix, n) == ix[n] = b[n].lLbound + b[n].cElements

\* The array has elements where dimensions b say so, and only there.
Has(array, b) ==
    DOMAIN array.elements = {ix \in [DOMAIN b -> Int] : \A n \in DOMAIN b : InRange(b, ix, n)}

\* An array as its maker described it, with the bounds in the opposite order.
WellMade(array) == \E b \in Dims : array.rgsabound = Reverse(b) /\ Has(array, b)

CallRecord(at, array, bounds, indices, j, last) ==
    [at |-> at, array |-> array, bounds |-> bounds, indices |-> indices,
     j |-> j, last |-> last]

\* A call under way: all its indices are in range when it fetches an element,
\* and in inc_indices() all but the one that was counted up last, which may have
\* just left its range; for the first one the loop would have ended the call.
Traversal(k) ==
    /\ k = CallRecord(k.at, k.array, k.bounds, k.indices, k.j, k.last)
    /\ k.at \in {"element", "carry"}
    /\ k.bounds \in Dims
    /\ DOMAIN k.array.rgsabound = DOMAIN k.bounds
    /\ Has(k.array, k.bounds)
    /\ k.indices \in [DOMAIN k.bounds -> Int]
    /\ k.j \in DOMAIN k.bounds
    /\ \A n \in DOMAIN k.bounds :
          \/ InRange(k.bounds, k.indices, n)
          \/ k.at = "carry" /\ n = k.j /\ Past(k.bounds, k.indices, n)
    /\ k.at = "carry" /\ k.j = 1 /\ Over(k.bounds, k.indices, 1) => Len(k.bounds) = 1

Counted ==
    /\ refs \in [Client -> 0..MaxRefs]
    /\ factory \in [Client -> 0..1] /\ proxies \in [Client -> 0..1]
    /\ registry \subseteq {"server", "proxy"} /\ loaded \in BOOLEAN

\* Only a DLL that is its own proxy hands out references to it, and no client
\* makes a call without a reference.
LoadedIfUsed ==
    /\ \A c \in Client : proxies[c] > 0 => build = "merged"
    /\ \A c \in Client : factory[c] > 0 \/ refs[c] > 0 \/ proxies[c] > 0 => loaded
    /\ \A c \in Client : call[c] # Idle => refs[c] > 0

\* Calls under way are traversals, and clients hold arrays that methods made.
CallsInRange ==
    /\ DOMAIN call = Client /\ DOMAIN held = Client
    /\ \A c \in Client : call[c] # Idle => c \in Caller /\ Traversal(call[c])
    /\ \A c \in Client : held[c] = NoArray \/ WellMade(held[c])

StrayIsOfVector ==
    stray # "no" => \E c \in Caller : call[c] # Idle /\ Len(call[c].bounds) = 1

SafeInv == Counted /\ LoadedIfUsed /\ CallsInRange /\ StrayIsOfVector

-----------------------------------------------------------------------------
(* Arrays.                                                                 *)

(* SetArray() turns the bounds of any array back to the order they had     *)
(* when it was made: each dimension of the first half changes places, the  *)
(* one in the middle stays.                                                *)
LEMMA InvertUndoes ==
  ASSUME NEW S, NEW b \in Seq(S)
  PROVE  /\ InvertArrayBounds(Reverse(b)) = b
         /\ DOMAIN Reverse(b) = DOMAIN b
<1> DEFINE r == Reverse(b)
<1>1. /\ Len(b) \in Nat /\ DOMAIN b = 1..Len(b) /\ DOMAIN r = 1..Len(b)
      /\ \A n \in 1..Len(b) : r[n] = b[Len(b) - n + 1]
      /\ b = [n \in 1..Len(b) |-> b[n]]
  BY DEF Reverse
<1>2. Len(r) = Len(b)
  BY <1>1 DEF Reverse
<1> HIDE DEF r
<1>3. ASSUME NEW n \in 1..Len(b)
      PROVE  InvertArrayBounds(r)[n] = b[n]
  <2> DEFINE other == Len(b) + 1 - n
  <2>1. other \in 1..Len(b) /\ Len(b) - other + 1 = n
    BY <1>1
  <2>2. r[other] = b[n]
    BY <1>1, <2>1
  <2>3. InvertArrayBounds(r)[n] =
          IF n <= Len(b) \div 2 \/ other <= Len(b) \div 2 THEN r[other] ELSE r[n]
    BY <1>1, <1>2 DEF InvertArrayBounds
  <2>4. n > Len(b) \div 2 /\ other > Len(b) \div 2 => other = n
    BY <1>1
  <2>5. n \in Int /\ Len(b) \div 2 \in Int
    BY <1>1
  <2> HIDE DEF other
  <2> QED BY <2>1, <2>2, <2>3, <2>4, <2>5
<1>4. DOMAIN InvertArrayBounds(r) = 1..Len(b)
  BY <1>1 DEF InvertArrayBounds
<1>5. InvertArrayBounds(r) = b
  <2>1. InvertArrayBounds(r) = [n \in 1..Len(b) |-> InvertArrayBounds(r)[n]]
    BY <1>1 DEF InvertArrayBounds
  <2> HIDE DEF r
  <2> DEFINE i == InvertArrayBounds(r)
  <2>2. i = [n \in 1..Len(b) |-> i[n]] /\ \A n \in 1..Len(b) : i[n] = b[n]
    BY <1>3, <2>1
  <2> HIDE DEF i
  <2>3. i = b
    BY <1>1, <2>2
  <2> QED BY <2>3 DEF i
<1> QED BY <1>1, <1>5 DEF r

(* What an array can have as its dimensions.                               *)
LEMMA DimsFacts ==
  ASSUME NEW b \in Dims
  PROVE  /\ b \in Seq(Bound) /\ Len(b) \in Nat \ {0} /\ DOMAIN b = 1..Len(b)
         /\ \A n \in 1..Len(b) : /\ b[n].lLbound \in Int
                                 /\ b[n].cElements \in Nat /\ b[n].cElements > 0
<1>1. b \in Seq(Bound) /\ b # << >> /\ \A n \in DOMAIN b : b[n].cElements > 0
  BY DEF Dims
<1>2. Len(b) \in Nat \ {0} /\ DOMAIN b = 1..Len(b)
  BY <1>1
<1>3. \A n \in 1..Len(b) : b[n] \in Bound
  BY <1>1
<1> QED BY <1>1, <1>2, <1>3 DEF Bound

(* The arrays of the component and those of its clients.                   *)
LEMMA MatrixIsWellMade == WellMade(GetArray)
<1> DEFINE b == <<At0(2), At0(3)>>
<1>1. b \in Dims /\ DOMAIN b = 1..2
  BY DEF Dims, At0, Bound
<1>2. GetArray.rgsabound = Reverse(b)
  BY DEF GetArray, SafeArrayCreate
<1>3. DOMAIN GetArray.elements = {<<i, j>> : i \in 0..1, j \in 0..2}
  BY DEF GetArray, SafeArrayCreate
<1>4. ASSUME NEW ix \in [1..2 -> Int], \A n \in 1..2 : InRange(b, ix, n)
      PROVE  ix \in {<<i, j>> : i \in 0..1, j \in 0..2}
  <2>1. ix[1] \in 0..1 /\ ix[2] \in 0..2
    BY <1>4 DEF InRange, At0
  <2>2. ix = <<ix[1], ix[2]>>
    BY <1>4
  <2> QED BY <2>1, <2>2
<1>5. ASSUME NEW i \in 0..1, NEW j \in 0..2
      PROVE  <<i, j>> \in [1..2 -> Int] /\ \A n \in 1..2 : InRange(b, <<i, j>>, n)
  BY DEF InRange, At0
<1>6. Has(GetArray, b)
  <2> DEFINE Elements == {ix \in [1..2 -> Int] : \A n \in 1..2 : InRange(b, ix, n)}
  <2>1. \A ix \in Elements : ix \in DOMAIN GetArray.elements
    BY <1>3, <1>4
  <2>2. \A ix \in DOMAIN GetArray.elements : ix \in Elements
    BY <1>3, <1>5
  <2> QED BY ONLY <1>1, <2>1, <2>2 DEF Has
<1> QED BY <1>1, <1>2, <1>6 DEF WellMade

LEMMA CubeIsWellMade == WellMade(GetArray432)
<1> DEFINE b == <<At0(4), At0(3), At0(2)>>
<1>1. b \in Dims /\ DOMAIN b = 1..3
  BY DEF Dims, At0, Bound
<1>2. GetArray432.rgsabound = Reverse(b)
  BY DEF GetArray432, SafeArrayCreate
<1>3. DOMAIN GetArray432.elements = {<<i, j, k>> : i \in 0..3, j \in 0..2, k \in 0..1}
  BY DEF GetArray432, SafeArrayCreate
<1>4. ASSUME NEW ix \in [1..3 -> Int], \A n \in 1..3 : InRange(b, ix, n)
      PROVE  ix \in {<<i, j, k>> : i \in 0..3, j \in 0..2, k \in 0..1}
  <2>1. ix[1] \in 0..3 /\ ix[2] \in 0..2 /\ ix[3] \in 0..1
    BY <1>4 DEF InRange, At0
  <2>2. ix = <<ix[1], ix[2], ix[3]>>
    BY <1>4
  <2> QED BY <2>1, <2>2
<1>5. ASSUME NEW i \in 0..3, NEW j \in 0..2, NEW k \in 0..1
      PROVE  /\ <<i, j, k>> \in [1..3 -> Int]
             /\ \A n \in 1..3 : InRange(b, <<i, j, k>>, n)
  BY DEF InRange, At0
<1>6. Has(GetArray432, b)
  <2> DEFINE Elements == {ix \in [1..3 -> Int] : \A n \in 1..3 : InRange(b, ix, n)}
  <2>1. \A ix \in Elements : ix \in DOMAIN GetArray432.elements
    BY <1>3, <1>4
  <2>2. ASSUME NEW ix \in DOMAIN GetArray432.elements PROVE ix \in Elements
    <3>1. PICK i \in 0..3, j \in 0..2, k \in 0..1 : ix = <<i, j, k>>
      BY <1>3
    <3>2. /\ <<i, j, k>> \in [1..3 -> Int]
          /\ \A n \in 1..3 : InRange(b, <<i, j, k>>, n)
      BY <1>5
    <3> HIDE DEF b
    <3> QED BY ONLY <3>1, <3>2
  <2> QED BY ONLY <1>1, <2>1, <2>2 DEF Has
<1> QED BY <1>1, <1>2, <1>6 DEF WellMade

LEMMA OwnArraysAreWellMade ==
  ASSUME NEW b \in Bounds
  PROVE  WellMade(SafeArrayCreate(b, [ix \in Indices(b) |-> ix]))
<1> DEFINE a == SafeArrayCreate(b, [ix \in Indices(b) |-> ix])
<1>1. b \in Dims
  BY SafeArraysAssumption DEF Dims
<1>2. a.rgsabound = Reverse(b) /\ DOMAIN a.elements = Indices(b)
  BY DEF SafeArrayCreate
<1>3. ASSUME NEW ix \in [DOMAIN b -> Int], \A n \in DOMAIN b : InRange(b, ix, n)
      PROVE  ix \in Indices(b)
  <2> DEFINE Span(d) == d.lLbound..d.lLbound + d.cElements - 1
             All == UNION {Span(d) : d \in ToSet(b)}
  <2>1. \A n \in DOMAIN b : ix[n] \in Span(b[n]) /\ b[n] \in ToSet(b)
    BY <1>3 DEF InRange, ToSet
  <2>2. \A n \in DOMAIN b : ix[n] \in All
    BY <2>1
  <2>3. ix \in [DOMAIN b -> All]
    <3> HIDE DEF All
    <3> QED BY <2>2
  <2> QED BY <2>1, <2>3 DEF Indices
<1>4. ASSUME NEW ix \in Indices(b)
      PROVE  ix \in [DOMAIN b -> Int] /\ \A n \in DOMAIN b : InRange(b, ix, n)
  <2>1. \A n \in DOMAIN b : b[n].lLbound \in Int /\ b[n].cElements \in Nat
    BY <1>1, DimsFacts
  <2>2. \A n \in DOMAIN b : InRange(b, ix, n)
    BY DEF Indices, InRange
  <2>3. ix = [n \in DOMAIN b |-> ix[n]]
    BY DEF Indices
  <2>4. \A n \in DOMAIN b : ix[n] \in Int
    BY ONLY <2>1, <2>2 DEF InRange
  <2> QED BY ONLY <2>2, <2>3, <2>4
<1> HIDE DEF a
<1>6. Has(a, b)
  <2> DEFINE Elements == {ix \in [DOMAIN b -> Int] : \A n \in DOMAIN b : InRange(b, ix, n)}
  <2>1. \A ix \in Elements : ix \in Indices(b)
    BY <1>3
  <2>2. \A ix \in Indices(b) : ix \in Elements
    BY <1>4
  <2> QED BY ONLY <1>2, <2>1, <2>2 DEF Has
<1>5. WellMade(a)
  BY <1>1, <1>2, <1>6 DEF WellMade
<1> QED BY <1>5 DEF a

-----------------------------------------------------------------------------
(* The loops of SetArray().                                                *)

(* The fields of the record of a call.                                     *)
LEMMA CallFields ==
  ASSUME NEW at, NEW array, NEW b, NEW ix, NEW j, NEW last
  PROVE  LET k == CallRecord(at, array, b, ix, j, last)
         IN  /\ k.at = at /\ k.array = array /\ k.bounds = b /\ k.indices = ix
             /\ k.j = j
             /\ k = CallRecord(k.at, k.array, k.bounds, k.indices, k.j, k.last)
BY DEF CallRecord

\* The record of a call that has printed an element.
Printed(k, ix, d, last) ==
    [k EXCEPT !.at = "carry", !.j = d, !.indices = ix, !.last = last]

(* The record of a call after an iteration.                                *)
LEMMA ElementRecord ==
  ASSUME NEW k, k = CallRecord(k.at, k.array, k.bounds, k.indices, k.j, k.last),
         NEW ix, NEW d, NEW last
  PROVE  Printed(k, ix, d, last) = CallRecord("carry", k.array, k.bounds, ix, d, last)
<1> DEFINE a == k.array
           b == k.bounds
           old == k.indices
           at == k.at
           j == k.j
           l == k.last
<1>1. k = CallRecord(at, a, b, old, j, l)
  OBVIOUS
<1> HIDE DEF a, b, old, at, j, l
<1> DEFINE r1 == CallRecord("carry", a, b, old, j, l)
           r2 == CallRecord("carry", a, b, old, d, l)
           r3 == CallRecord("carry", a, b, ix, d, l)
           r4 == CallRecord("carry", a, b, ix, d, last)
<1>2. [k EXCEPT !.at = "carry"] = r1
  BY ONLY <1>1 DEF CallRecord
<1>3. [r1 EXCEPT !.j = d] = r2
  BY ONLY DEF CallRecord
<1>4. [r2 EXCEPT !.indices = ix] = r3
  BY ONLY DEF CallRecord
<1>5. [r3 EXCEPT !.last = last] = r4
  BY ONLY DEF CallRecord
<1> HIDE DEF r1, r2, r3, r4
<1>6. [k EXCEPT !.at = "carry", !.j = d, !.indices = ix, !.last = last] = r4
  BY ONLY <1>2, <1>3, <1>4, <1>5, Zenon
<1>7. Printed(k, ix, d, last) = r4
  BY ONLY <1>6, Zenon DEF Printed
<1> QED BY ONLY <1>7, Zenon DEF r4, a, b

(* After one of inc_indices().                                              *)
LEMMA CarryRecord ==
  ASSUME NEW k, k = CallRecord(k.at, k.array, k.bounds, k.indices, k.j, k.last),
         NEW next, NEW i
  PROVE  [k EXCEPT !.indices = next, !.j = i]
            = CallRecord(k.at, k.array, k.bounds, next, i, k.last)
<1> DEFINE a == k.array
           b == k.bounds
           old == k.indices
           at == k.at
           j == k.j
           l == k.last
<1>1. k = CallRecord(at, a, b, old, j, l)
  OBVIOUS
<1> HIDE DEF a, b, old, at, j, l
<1>2. [k EXCEPT !.indices = next] = CallRecord(at, a, b, next, j, l)
  BY ONLY <1>1 DEF CallRecord
<1>3. [CallRecord(at, a, b, next, j, l) EXCEPT !.j = i] = CallRecord(at, a, b, next, i, l)
  BY ONLY DEF CallRecord
<1> QED BY ONLY <1>2, <1>3, Zenon DEF a, b, at, l

(* And when its loop is left.                                              *)
LEMMA EndRecord ==
  ASSUME NEW k, k = CallRecord(k.at, k.array, k.bounds, k.indices, k.j, k.last)
  PROVE  [k EXCEPT !.at = "element"]
            = CallRecord("element", k.array, k.bounds, k.indices, k.j, k.last)
<1> DEFINE a == k.array
           b == k.bounds
           ix == k.indices
           at == k.at
           j == k.j
           l == k.last
<1>1. k = CallRecord(at, a, b, ix, j, l)
  OBVIOUS
<1> HIDE DEF a, b, ix, at, j, l
<1>2. [k EXCEPT !.at = "element"] = CallRecord("element", a, b, ix, j, l)
  BY ONLY <1>1 DEF CallRecord
<1> QED BY ONLY <1>2, Zenon DEF a, b, ix, j, l

(* A record of a call is a traversal if its parts are.                     *)
LEMMA TraversalParts ==
  ASSUME NEW array, NEW b \in Dims, NEW at \in {"element", "carry"}, NEW ix, NEW j,
         NEW last,
         DOMAIN array.rgsabound = DOMAIN b, Has(array, b),
         ix \in [DOMAIN b -> Int], j \in DOMAIN b,
         \A n \in DOMAIN b :
            InRange(b, ix, n) \/ (at = "carry" /\ n = j /\ Past(b, ix, n)),
         at = "carry" /\ j = 1 /\ Over(b, ix, 1) => Len(b) = 1
  PROVE  Traversal(CallRecord(at, array, b, ix, j, last))
<1> DEFINE k == CallRecord(at, array, b, ix, j, last)
<1>1. /\ k.at = at /\ k.array = array /\ k.bounds = b /\ k.indices = ix /\ k.j = j
      /\ k = CallRecord(k.at, k.array, k.bounds, k.indices, k.j, k.last)
  BY CallFields
<1> HIDE DEF k
<1>2. Traversal(k)
  BY <1>1 DEF Traversal
<1> QED BY <1>2 DEF k

\* Where SetArray() begins in an array of these bounds.
Lowest(b) == [n \in DOMAIN b |-> b[n].lLbound]

(* The call that begins is at the first element.                           *)
LEMMA TraversalBegins ==
  ASSUME NEW array, WellMade(array), NEW b, b = InvertArrayBounds(array.rgsabound)
  PROVE  Traversal(CallRecord("element", array, b, Lowest(b), Len(b), << >>))
<1>1. PICK d \in Dims : array.rgsabound = Reverse(d) /\ Has(array, d)
  BY DEF WellMade
<1>2. d \in Seq(Bound)
  BY DEF Dims
<1>3. b = d /\ DOMAIN array.rgsabound = DOMAIN d
  BY <1>1, <1>2, InvertUndoes
<1>4. Len(b) \in DOMAIN b
  BY <1>3, DimsFacts
<1>5. Lowest(b) \in [DOMAIN b -> Int] /\ \A n \in DOMAIN b : InRange(b, Lowest(b), n)
  BY <1>3, DimsFacts DEF InRange, Lowest
<1> QED BY <1>1, <1>3, <1>4, <1>5, TraversalParts

(* An index in its range that is counted up is in its range or just past   *)
(* it; one that starts again is in its range.                              *)
LEMMA OneIndex ==
  ASSUME NEW b \in Dims, NEW n \in DOMAIN b, NEW ix, NEW next
  PROVE  /\ InRange(b, ix, n) /\ next[n] = ix[n] + 1 =>
               InRange(b, next, n) \/ Past(b, next, n)
         /\ next[n] = b[n].lLbound => InRange(b, next, n)
         /\ InRange(b, ix, n) /\ next[n] = ix[n] => InRange(b, next, n)
<1> DEFINE low == b[n].lLbound
           size == b[n].cElements
<1>1. low \in Int /\ size \in Nat /\ size > 0
  BY DimsFacts
<1> HIDE DEF low, size
<1>2. \A i \in low..low + size - 1 : i + 1 \in low..low + size - 1 \/ i + 1 = low + size
  BY <1>1
<1>3. low \in low..low + size - 1
  BY <1>1
<1> QED BY <1>2, <1>3 DEF InRange, Past, low, size

(* An element has been fetched, and the last index is counted up.          *)
LEMMA ElementKeeps ==
  ASSUME NEW k, Traversal(k), k.at = "element", NEW last
  PROVE  Traversal([k EXCEPT !.at = "carry", !.j = Len(k.bounds),
                             !.indices[Len(k.bounds)] = @ + 1,
                             !.last = last])
<1> DEFINE b == k.bounds
           d == Len(b)
           ix == [k.indices EXCEPT ![d] = @ + 1]
<1>1. /\ k = CallRecord(k.at, k.array, b, k.indices, k.j, k.last)
      /\ b \in Dims /\ Has(k.array, b) /\ DOMAIN k.array.rgsabound = DOMAIN b
      /\ k.indices \in [DOMAIN b -> Int]
      /\ \A n \in DOMAIN b : InRange(b, k.indices, n)
  BY DEF Traversal
<1>2. [k EXCEPT !.at = "carry", !.j = d, !.indices[d] = @ + 1, !.last = last] =
         CallRecord("carry", k.array, b, ix, d, last)
  <2>1. [k EXCEPT !.at = "carry", !.j = d, !.indices[d] = @ + 1, !.last = last] =
           Printed(k, ix, d, last)
    BY DEF Printed
  <2>2. k = CallRecord(k.at, k.array, k.bounds, k.indices, k.j, k.last)
    BY <1>1
  <2> HIDE DEF d, ix
  <2>3. Printed(k, ix, d, last) = CallRecord("carry", k.array, k.bounds, ix, d, last)
    BY ONLY <2>2, ElementRecord, Zenon
  <2> QED BY ONLY <2>1, <2>3, Zenon
<1>3. d \in DOMAIN b /\ DOMAIN b = 1..d
  BY <1>1, DimsFacts
<1>4. /\ ix \in [DOMAIN b -> Int] /\ ix[d] = k.indices[d] + 1
      /\ \A n \in DOMAIN b : n # d => ix[n] = k.indices[n]
  <2> HIDE DEF b, d
  <2> QED BY <1>1, <1>3
<1>5. \A n \in DOMAIN b : InRange(b, ix, n) \/ (n = d /\ Past(b, ix, n))
  <2> HIDE DEF ix, b, d
  <2> QED BY ONLY <1>1, <1>4, OneIndex, Zenon
<1>6. d = 1 => Len(b) = 1
  OBVIOUS
<1> HIDE DEF ix, b, d
<1>7. Traversal(CallRecord("carry", k.array, b, ix, d, last))
  BY <1>1, <1>3, <1>4, <1>5, <1>6, TraversalParts
<1> QED BY ONLY <1>2, <1>7, Zenon DEF b, d

(* An index past its range starts again and the one before it is counted   *)
(* up.  The call is over, or goes on with that one.                        *)
LEMMA CarryKeeps ==
  ASSUME NEW k, Traversal(k), k.at = "carry", k.j > 1, Over(k.bounds, k.indices, k.j),
         NEW next, next = [k.indices EXCEPT ![k.j] = k.bounds[k.j].lLbound,
                                            ![k.j - 1] = @ + 1],
         ~(k.j = 2 /\ Over(k.bounds, next, 1))
  PROVE  Traversal([k EXCEPT !.indices = next, !.j = k.j - 1])
<1> DEFINE b == k.bounds
           j == k.j
<1>1. /\ k = CallRecord("carry", k.array, b, k.indices, j, k.last)
      /\ b \in Dims /\ Has(k.array, b) /\ DOMAIN k.array.rgsabound = DOMAIN b
      /\ k.indices \in [DOMAIN b -> Int] /\ j \in DOMAIN b
      /\ \A n \in DOMAIN b : n # j => InRange(b, k.indices, n)
  BY DEF Traversal
<1>2. [k EXCEPT !.indices = next, !.j = j - 1] =
         CallRecord("carry", k.array, b, next, j - 1, k.last)
  <2> DEFINE i == j - 1
  <2>1. k = CallRecord(k.at, k.array, k.bounds, k.indices, k.j, k.last) /\ k.at = "carry"
    BY <1>1
  <2> HIDE DEF i
  <2> QED BY ONLY <2>1, CarryRecord
<1>3. j \in 2..Len(b) /\ j - 1 \in DOMAIN b /\ DOMAIN b = 1..Len(b) /\ Len(b) \in Nat
  BY <1>1, DimsFacts
<1>4. \A n \in DOMAIN b : b[n].lLbound \in Int
  BY <1>1, DimsFacts
<1>5. next = [k.indices EXCEPT ![j] = b[j].lLbound, ![j - 1] = @ + 1]
  OBVIOUS
<1>6. /\ next \in [DOMAIN b -> Int] /\ next[j] = b[j].lLbound
      /\ next[j - 1] = k.indices[j - 1] + 1
      /\ \A n \in DOMAIN b : n # j /\ n # j - 1 => next[n] = k.indices[n]
  <2> DEFINE ix == k.indices
             v == b[j].lLbound
  <2>1. ix \in [DOMAIN b -> Int] /\ v \in Int /\ next = [ix EXCEPT ![j] = v, ![j - 1] = @ + 1]
    BY <1>1, <1>4, <1>5
  <2> HIDE DEF b, j, ix, v
  <2>2. /\ next \in [DOMAIN b -> Int] /\ next[j] = v /\ next[j - 1] = ix[j - 1] + 1
        /\ \A n \in DOMAIN b : n # j /\ n # j - 1 => next[n] = ix[n]
    BY ONLY <1>3, <2>1, j \in DOMAIN b
  <2> QED BY <2>2 DEF ix, v
<1>7. \A n \in DOMAIN b : InRange(b, next, n) \/ (n = j - 1 /\ Past(b, next, n))
  <2>1. j - 1 # j
    BY <1>3
  <2> HIDE DEF b, j
  <2> QED BY ONLY <1>1, <1>3, <1>6, <2>1, OneIndex, Zenon
<1>8. ~(j = 2 /\ Over(b, next, 1))
  OBVIOUS
<1> HIDE DEF b, j
<1>9. j - 1 = 1 /\ Over(b, next, 1) => Len(b) = 1
  BY <1>3, <1>8
<1>10. Traversal(CallRecord("carry", k.array, b, next, j - 1, k.last))
  BY ONLY <1>1, <1>3, <1>6, <1>7, <1>9, TraversalParts
<1> QED BY ONLY <1>2, <1>10, Zenon DEF j

(* The traversal of a vector begins again.                                 *)
LEMMA StrayKeeps ==
  ASSUME NEW k, Traversal(k), k.at = "carry", k.j = 1, Over(k.bounds, k.indices, 1),
         NEW q, q = [k EXCEPT !.indices[1] = k.bounds[1].lLbound, !.at = "element"]
  PROVE  Traversal(q) /\ Len(q.bounds) = 1
<1> DEFINE b == k.bounds
           ix == [k.indices EXCEPT ![1] = b[1].lLbound]
<1>1. /\ k = CallRecord("carry", k.array, b, k.indices, 1, k.last)
      /\ b \in Dims /\ Has(k.array, b) /\ DOMAIN k.array.rgsabound = DOMAIN b
      /\ k.indices \in [DOMAIN b -> Int] /\ Len(b) = 1 /\ 1 \in DOMAIN b
  BY DEF Traversal
<1>2. DOMAIN b = {1} /\ b[1].lLbound \in Int /\ b[1].cElements \in Nat
      /\ b[1].cElements > 0
  BY <1>1, DimsFacts
<1>3. q = CallRecord("element", k.array, b, ix, 1, k.last)
  <2>1. q = [k EXCEPT !.indices = ix, !.at = "element"]
    OBVIOUS
  <2> DEFINE a == k.array
             old == k.indices
             l == k.last
  <2>2. k = CallRecord("carry", a, b, old, 1, l)
    BY <1>1
  <2> HIDE DEF b, ix, a, old, l
  <2>3. [k EXCEPT !.indices = ix] = CallRecord("carry", a, b, ix, 1, l)
    BY ONLY <2>2 DEF CallRecord
  <2>4. [CallRecord("carry", a, b, ix, 1, l) EXCEPT !.at = "element"] =
           CallRecord("element", a, b, ix, 1, l)
    BY ONLY DEF CallRecord
  <2> QED BY ONLY <2>1, <2>3, <2>4, Zenon DEF a, l
<1>4. ix \in [DOMAIN b -> Int] /\ ix[1] = b[1].lLbound
  <2> HIDE DEF b
  <2> QED BY ONLY <1>1, <1>2
<1>5. \A n \in DOMAIN b : InRange(b, ix, n)
  <2> HIDE DEF b, ix
  <2> QED BY ONLY <1>2, <1>4 DEF InRange
<1> HIDE DEF ix, b
<1>6. Traversal(CallRecord("element", k.array, b, ix, 1, k.last))
  BY ONLY <1>1, <1>4, <1>5, TraversalParts
<1>7. q.bounds = b
  BY ONLY <1>3 DEF CallRecord
<1> QED BY ONLY <1>1, <1>3, <1>6, <1>7, Zenon

(* There are more elements.                                                *)
LEMMA EndKeeps ==
  ASSUME NEW k, Traversal(k), ~Over(k.bounds, k.indices, k.j)
  PROVE  Traversal([k EXCEPT !.at = "element"])
<1> DEFINE b == k.bounds
           ix == k.indices
           j == k.j
<1>1. /\ k = CallRecord(k.at, k.array, b, ix, j, k.last)
      /\ b \in Dims /\ Has(k.array, b) /\ DOMAIN k.array.rgsabound = DOMAIN b
      /\ ix \in [DOMAIN b -> Int] /\ j \in DOMAIN b
      /\ \A n \in DOMAIN b : InRange(b, ix, n) \/ (n = j /\ Past(b, ix, n))
      /\ ~Over(b, ix, j)
  BY DEF Traversal
<1>2. \A n \in DOMAIN b : ix[n] \in Int /\ b[n].lLbound \in Int /\ b[n].cElements \in Nat
  BY <1>1, DimsFacts
<1> HIDE DEF b, ix, j
<1>3. ~Past(b, ix, j)
  BY ONLY <1>1, <1>2 DEF Past, Over
<1>4. [k EXCEPT !.at = "element"] =
         CallRecord("element", k.array, b, ix, j, k.last)
  <2>1. k = CallRecord(k.at, k.array, k.bounds, k.indices, k.j, k.last)
    BY <1>1 DEF b, ix, j
  <2> QED BY ONLY <2>1, EndRecord DEF b, ix, j
<1>5. Traversal(CallRecord("element", k.array, b, ix, j, k.last))
  BY ONLY <1>1, <1>3, TraversalParts
<1> QED BY ONLY <1>4, <1>5, Zenon

-----------------------------------------------------------------------------
(* The invariant holds at the start and is kept by every action.           *)

LEMMA SafeBeginning == Init => SafeInv
<1> SUFFICES ASSUME Init PROVE SafeInv
  OBVIOUS
<1>1. Counted
  <2>1. 0 \in 0..MaxRefs /\ 0 \in 0..1
    BY SafeArraysAssumption
  <2> QED BY <2>1 DEF Init, Counted
<1>2. LoadedIfUsed
  BY DEF Init, LoadedIfUsed
<1>3. CallsInRange
  BY DEF Init, CallsInRange
<1>4. StrayIsOfVector
  BY DEF Init, StrayIsOfVector
<1> QED BY <1>1, <1>2, <1>3, <1>4 DEF SafeInv

(* The DLL may be unloaded only if no client holds anything of it.         *)
LEMMA UnloadedIfUnused ==
  ASSUME SafeInv, DllCanUnloadNow, NEW c \in Client
  PROVE  factory[c] = 0 /\ refs[c] = 0 /\ proxies[c] = 0
<1> DEFINE users == {d \in Client : refs[d] > 0}
           inUse == IF \E d \in Client : factory[d] > 0 THEN 1 ELSE 0
<1>1. /\ refs[c] \in Nat /\ factory[c] \in Nat /\ proxies[c] \in Nat
      /\ proxies[c] > 0 => build = "merged"
  BY SafeArraysAssumption DEF SafeInv, Counted, LoadedIfUsed
<1>2. IsFiniteSet(users) /\ Cardinality(users) \in Nat
  BY SafeArraysAssumption, FS_Subset, FS_CardinalityType
<1>3. Cardinality(users) + inUse = 0
  BY DEF DllCanUnloadNow, GetLockCount
<1>4. inUse \in {0, 1}
  OBVIOUS
<1>5. Cardinality(users) = 0 /\ inUse = 0
  <2> HIDE DEF users, inUse
  <2> QED BY <1>2, <1>3, <1>4
<1>6. users = {}
  BY <1>2, <1>5, FS_EmptySet
<1>7. ~(refs[c] > 0)
  BY <1>6
<1>8. ~(factory[c] > 0)
  BY <1>5
<1>9. ~(proxies[c] > 0)
  BY <1>1 DEF DllCanUnloadNow, PrxDllCanUnloadNow
<1> QED BY <1>1, <1>7, <1>8, <1>9

(* The steps of the DLL and of the holders of references.                  *)
LEMMA ServerKeeps ==
  ASSUME SafeInv, UNCHANGED <<held, call, stray>>, Counted', LoadedIfUsed'
  PROVE  SafeInv'
<1>1. CallsInRange' /\ StrayIsOfVector'
  BY DEF SafeInv, CallsInRange, StrayIsOfVector
<1> QED BY <1>1 DEF SafeInv

LEMMA RegisterKeeps ==
  ASSUME SafeInv, DllRegisterServer \/ DllUnregisterServer
  PROVE  SafeInv'
<1>1. UNCHANGED <<build, loaded, factory, refs, proxies, held, call, stray>>
  BY DEF DllRegisterServer, DllUnregisterServer
<1>2. registry' \subseteq {"server", "proxy"}
  BY DEF DllRegisterServer, DllUnregisterServer, PrxDllRegisterServer, SafeInv, Counted
<1>3. Counted' /\ LoadedIfUsed'
  BY <1>1, <1>2 DEF SafeInv, Counted, LoadedIfUsed
<1> QED BY <1>1, <1>3, ServerKeeps

LEMMA UnloadKeeps ==
  ASSUME SafeInv, Unload
  PROVE  SafeInv'
<1>1. /\ UNCHANGED <<build, registry, factory, refs, proxies, held, call, stray>>
      /\ loaded' = FALSE
  BY DEF Unload, DllMain
<1>2. \A c \in Client : factory[c] = 0 /\ refs[c] = 0 /\ proxies[c] = 0
  BY UnloadedIfUnused DEF Unload
<1>3. Counted'
  BY <1>1 DEF SafeInv, Counted
<1>4. LoadedIfUsed'
  BY <1>1, <1>2 DEF SafeInv, LoadedIfUsed
<1> QED BY <1>1, <1>3, <1>4, ServerKeeps

LEMMA ClassObjectKeeps ==
  ASSUME SafeInv, NEW c \in Client, DllGetClassObject(c)
  PROVE  SafeInv'
<1>1. /\ UNCHANGED <<build, registry, refs, held, call, stray>> /\ loaded' = TRUE
      /\ refs \in [Client -> 0..MaxRefs] /\ registry \subseteq {"server", "proxy"}
      /\ factory \in [Client -> 0..1] /\ proxies \in [Client -> 0..1]
  BY DEF DllGetClassObject, DllMain, SafeInv, Counted
<1>2. \/ /\ factory[c] = 0 /\ factory' = [factory EXCEPT ![c] = @ + 1]
         /\ proxies' = proxies
      \/ /\ build = "merged" /\ proxies[c] = 0
         /\ proxies' = [proxies EXCEPT ![c] = @ + 1]
         /\ factory' = factory
  BY DEF DllGetClassObject, PrxDllGetClassObject
<1>3. /\ factory' \in [Client -> 0..1] /\ proxies' \in [Client -> 0..1]
      /\ build = "merged" \/ proxies' = proxies
  BY <1>1, <1>2
<1>4. Counted'
  BY <1>1, <1>3 DEF Counted
<1>5. LoadedIfUsed'
  BY <1>1, <1>3 DEF SafeInv, LoadedIfUsed
<1> QED BY <1>1, <1>4, <1>5, ServerKeeps

LEMMA ReferenceKeeps ==
  ASSUME SafeInv, NEW c \in Client, CreateInstance(c) \/ AddRef(c)
  PROVE  SafeInv'
<1>1. /\ UNCHANGED <<build, registry, loaded, factory, proxies, held, call, stray>>
      /\ refs \in [Client -> 0..MaxRefs] /\ factory \in [Client -> 0..1]
      /\ MaxRefs \in Nat /\ MaxRefs > 0
  BY SafeArraysAssumption DEF CreateInstance, AddRef, SafeInv, Counted
<1>2. /\ factory[c] > 0 \/ refs[c] > 0
      /\ refs' \in [Client -> 0..MaxRefs] /\ refs'[c] > 0
      /\ \A d \in Client : d # c => refs'[d] = refs[d]
  BY <1>1 DEF CreateInstance, AddRef
<1>3. loaded
  BY <1>2 DEF SafeInv, LoadedIfUsed
<1>4. Counted'
  BY <1>1, <1>2 DEF SafeInv, Counted
<1>5. LoadedIfUsed'
  BY <1>1, <1>2, <1>3 DEF SafeInv, LoadedIfUsed
<1> QED BY <1>1, <1>4, <1>5, ServerKeeps

LEMMA ReleaseKeeps ==
  ASSUME SafeInv, NEW c \in Client, Release(c)
  PROVE  SafeInv'
<1>1. /\ UNCHANGED <<build, registry, loaded, held, call, stray>>
      /\ refs \in [Client -> 0..MaxRefs] /\ factory \in [Client -> 0..1]
      /\ proxies \in [Client -> 0..1] /\ MaxRefs \in Nat
  BY SafeArraysAssumption DEF Release, SafeInv, Counted
<1>2. /\ refs' \in [Client -> 0..MaxRefs] /\ factory' \in [Client -> 0..1]
      /\ proxies' \in [Client -> 0..1]
      /\ \A d \in Client : /\ refs'[d] <= refs[d] /\ factory'[d] <= factory[d]
                           /\ proxies'[d] <= proxies[d]
                           /\ refs[d] > 0 /\ call[d] # Idle => refs'[d] > 0
  <2>1. CASE /\ refs[c] > (IF call[c] = Idle THEN 0 ELSE 1)
             /\ refs' = [refs EXCEPT ![c] = @ - 1] /\ UNCHANGED <<factory, proxies>>
    <3>1. /\ refs'[c] = refs[c] - 1 /\ \A d \in Client : d # c => refs'[d] = refs[d]
          /\ refs[c] \in 0..MaxRefs /\ refs[c] > 0 /\ call[c] # Idle => refs[c] > 1
      BY <1>1, <2>1
    <3>2. refs' \in [Client -> 0..MaxRefs]
      BY <1>1, <2>1, <3>1
    <3> QED BY <1>1, <2>1, <3>1, <3>2
  <2>2. CASE /\ factory[c] > 0
             /\ factory' = [factory EXCEPT ![c] = @ - 1] /\ UNCHANGED <<refs, proxies>>
    BY <1>1, <2>2
  <2>3. CASE /\ proxies[c] > 0
             /\ proxies' = [proxies EXCEPT ![c] = @ - 1] /\ UNCHANGED <<refs, factory>>
    BY <1>1, <2>3
  <2> QED BY <2>1, <2>2, <2>3 DEF Release
<1>3. Counted'
  BY <1>1, <1>2 DEF SafeInv, Counted
<1>4. \A d \in Client : /\ refs[d] \in Int /\ refs'[d] \in Int /\ factory[d] \in Int
                        /\ factory'[d] \in Int /\ proxies[d] \in Int /\ proxies'[d] \in Int
  BY <1>1, <1>2
<1>5. LoadedIfUsed'
  BY <1>1, <1>2, <1>4 DEF SafeInv, LoadedIfUsed
<1> QED BY <1>1, <1>3, <1>5, ServerKeeps

(* A client gets an array that a method made.                              *)
LEMMA GetKeeps ==
  ASSUME SafeInv, NEW c \in Caller, Get(c)
  PROVE  SafeInv'
<1>1. PICK array \in {GetArray, GetArray432} : held' = [held EXCEPT ![c] = array]
  BY DEF Get
<1>2. /\ UNCHANGED <<build, registry, loaded, factory, refs, proxies, call, stray>>
      /\ WellMade(array)
  BY MatrixIsWellMade, CubeIsWellMade DEF Get, server
<1>3. Counted' /\ LoadedIfUsed' /\ StrayIsOfVector'
  BY <1>2 DEF SafeInv, Counted, LoadedIfUsed, StrayIsOfVector
<1>4. /\ DOMAIN held = Client /\ DOMAIN call = Client
      /\ \A d \in Client : held[d] = NoArray \/ WellMade(held[d])
      /\ \A d \in Client : call[d] # Idle => d \in Caller /\ Traversal(call[d])
  BY DEF SafeInv, CallsInRange
<1>5. \A d \in Client : held'[d] = array \/ held'[d] = held[d]
  BY <1>1, <1>4
<1>6. CallsInRange'
  BY <1>1, <1>2, <1>4, <1>5 DEF CallsInRange
<1> QED BY <1>3, <1>6 DEF SafeInv

(* A step of a call that leaves a traversal, or ends it.                   *)
LEMMA IterationKeeps ==
  ASSUME SafeInv, NEW c \in Caller, NEW q, call' = [call EXCEPT ![c] = q],
         UNCHANGED <<server, held>>, refs[c] > 0,
         \/ Traversal(q) /\ (stray' = stray \/ Len(q.bounds) = 1)
                         /\ (call[c] # Idle => Len(q.bounds) = Len(call[c].bounds))
         \/ q = Idle /\ stray' = stray /\ Len(call[c].bounds) # 1
  PROVE  SafeInv'
<1>1. c \in Client
  BY SafeArraysAssumption
<1>2. /\ UNCHANGED <<build, registry, loaded, factory, refs, proxies, held>>
      /\ DOMAIN held = Client /\ DOMAIN call = Client
      /\ \A d \in Client : held[d] = NoArray \/ WellMade(held[d])
      /\ \A d \in Client : call[d] # Idle => d \in Caller /\ Traversal(call[d])
  BY DEF SafeInv, CallsInRange, server
<1>3. call'[c] = q /\ DOMAIN call' = Client
      /\ \A d \in Client : d # c => call'[d] = call[d]
  BY <1>1, <1>2
<1>4. Counted' /\ LoadedIfUsed'
  BY <1>2, <1>3 DEF SafeInv, Counted, LoadedIfUsed
<1>5. CallsInRange'
  BY <1>2, <1>3 DEF CallsInRange
<1>6. Traversal(q) => q # Idle
  <2> SUFFICES ASSUME Traversal(q), q = Idle PROVE FALSE
    OBVIOUS
  <2>1. q.at = "idle"
    BY DEF Idle
  <2> QED BY <2>1 DEF Traversal
<1>7. StrayIsOfVector'
  <2>1. CASE Traversal(q) /\ stray' # stray
    BY <1>3, <1>6, <2>1 DEF StrayIsOfVector
  <2>2. CASE stray' = stray /\ stray # "no"
    <3>1. PICK d \in Caller : call[d] # Idle /\ Len(call[d].bounds) = 1
      BY <2>2 DEF SafeInv, StrayIsOfVector
    <3>2. d \in Client
      BY SafeArraysAssumption
    <3>3. CASE d # c
      BY <1>3, <3>1, <3>2, <3>3 DEF StrayIsOfVector
    <3>4. CASE d = c
      BY <1>3, <1>6, <3>1, <3>4 DEF StrayIsOfVector
    <3> QED BY <3>3, <3>4
  <2> QED BY <2>1, <2>2 DEF StrayIsOfVector
<1> QED BY <1>4, <1>5, <1>7 DEF SafeInv

(* A call begins.                                                          *)
LEMMA CallKeeps ==
  ASSUME SafeInv, NEW c \in Caller, SetArray(c)
  PROVE  SafeInv'
<1>1. /\ refs[c] > 0 /\ call[c] = Idle /\ UNCHANGED <<server, held, stray>>
      /\ c \in Client
  BY SafeArraysAssumption DEF SetArray
<1>2. PICK array \in Arrays(held[c]) :
         call' = LET bounds == InvertArrayBounds(array.rgsabound)
                 IN  [call EXCEPT ![c] =
                        [at |-> "element", array |-> array, bounds |-> bounds,
                         indices |-> [n \in DOMAIN bounds |-> bounds[n].lLbound],
                         j |-> Len(bounds), last |-> << >>]]
  BY DEF SetArray
<1> DEFINE b == InvertArrayBounds(array.rgsabound)
           q == CallRecord("element", array, b, Lowest(b), Len(b), << >>)
<1>3. call' = [call EXCEPT ![c] = q]
  BY <1>2 DEF CallRecord, Lowest
<1>4. WellMade(array)
  <2>1. held[c] = NoArray \/ WellMade(held[c])
    BY <1>1 DEF SafeInv, CallsInRange
  <2>2. CASE \E d \in Bounds : array = SafeArrayCreate(d, [ix \in Indices(d) |-> ix])
    BY <2>2, OwnArraysAreWellMade
  <2>3. CASE array \in {held[c]} \ {NoArray}
    BY <2>1, <2>3
  <2> QED BY <2>2, <2>3 DEF Arrays
<1>5. Traversal(q)
  BY <1>4, TraversalBegins
<1> HIDE DEF q
<1> QED BY <1>1, <1>3, <1>5, IterationKeeps

(* What the invariant says of a call that is under way.                    *)
LEMMA UnderWay ==
  ASSUME SafeInv, NEW c \in Caller, call[c].at \in {"element", "carry"}
  PROVE  c \in Client /\ call[c] # Idle /\ refs[c] > 0 /\ Traversal(call[c])
<1>1. c \in Client /\ call[c] # Idle
  BY SafeArraysAssumption DEF Idle
<1> QED BY <1>1 DEF SafeInv, CallsInRange, LoadedIfUsed

(* The iterations of its loops.                                            *)
LEMMA IterateKeeps ==
  ASSUME SafeInv, NEW c \in Caller, Iterate(c)
  PROVE  SafeInv'
<1>1. UNCHANGED <<server, held>>
  BY DEF Iterate, Element, Carry, CarryStrays, CarryEnds
<1>2. c \in Client /\ call[c] # Idle /\ refs[c] > 0 /\ Traversal(call[c])
  <2>1. call[c].at \in {"element", "carry"}
    BY DEF Iterate, Element, Carry, CarryStrays, CarryEnds
  <2> QED BY <2>1, UnderWay
<1> DEFINE k == call[c]
<1>3. CASE Element(c)
  <2> DEFINE last == <<k.indices, IF k.indices \in DOMAIN k.array.elements
                                  THEN k.array.elements[k.indices] ELSE "garbage">>
             q == [k EXCEPT !.at = "carry", !.j = Len(k.bounds),
                            !.indices[Len(k.bounds)] = @ + 1,
                            !.last = last]
  <2>1. k.at = "element" /\ stray' = stray /\ call' = [call EXCEPT ![c] = q]
    <3>1. call' = [call EXCEPT ![c] = q]
      BY ONLY <1>3, Zenon DEF Element
    <3>2. k.at = "element" /\ stray' = stray
      BY <1>3 DEF Element
    <3> HIDE DEF q, last
    <3> QED BY ONLY <3>1, <3>2, Zenon
  <2>2. Traversal(q)
    BY <1>2, <2>1, ElementKeeps
  <2>3. q.bounds = k.bounds
    <3>1. k = CallRecord(k.at, k.array, k.bounds, k.indices, k.j, k.last)
      BY <1>2 DEF Traversal
    <3> QED BY <3>1 DEF CallRecord
  <2> HIDE DEF q
  <2> QED BY <1>1, <1>2, <2>1, <2>2, <2>3, IterationKeeps
<1>4. CASE Carry(c)
  <2> DEFINE next == [k.indices EXCEPT ![k.j] = k.bounds[k.j].lLbound, ![k.j - 1] = @ + 1]
             q == [k EXCEPT !.indices = next, !.j = k.j - 1]
  <2>1. /\ k.at = "carry" /\ stray' = stray /\ k.j > 1 /\ Over(k.bounds, k.indices, k.j)
        /\ call' = [call EXCEPT ![c] =
                      IF k.j = 2 /\ Over(k.bounds, next, 1) THEN Idle ELSE q]
    BY <1>4 DEF Carry
  <2>2. CASE k.j = 2 /\ Over(k.bounds, next, 1)
    <3>1. Len(k.bounds) # 1
      BY <1>2, <2>1, DimsFacts DEF Traversal
    <3> HIDE DEF next, q
    <3> QED BY <1>1, <1>2, <2>1, <2>2, <3>1, IterationKeeps
  <2>3. CASE ~(k.j = 2 /\ Over(k.bounds, next, 1))
    <3>1. Traversal(q)
      <4> DEFINE n == next
      <4>1. n = [k.indices EXCEPT ![k.j] = k.bounds[k.j].lLbound, ![k.j - 1] = @ + 1]
        OBVIOUS
      <4>2. ~(k.j = 2 /\ Over(k.bounds, n, 1)) /\ q = [k EXCEPT !.indices = n, !.j = k.j - 1]
        BY <2>3
      <4>3. Traversal(k)
        BY <1>2
      <4> HIDE DEF n, q, k
      <4> QED BY ONLY <2>1, <4>1, <4>2, <4>3, CarryKeeps
    <3>2. q.bounds = k.bounds
      <4>1. k = CallRecord(k.at, k.array, k.bounds, k.indices, k.j, k.last)
        BY <1>2 DEF Traversal
      <4> HIDE DEF next
      <4> QED BY <4>1 DEF CallRecord
    <3> HIDE DEF q, next
    <3> QED BY <1>1, <1>2, <2>1, <2>3, <3>1, <3>2, IterationKeeps
  <2> QED BY <2>2, <2>3
<1>5. CASE CarryStrays(c)
  <2> DEFINE q == [k EXCEPT !.indices[1] = k.bounds[1].lLbound, !.at = "element"]
  <2>1. k.at = "carry" /\ k.j = 1 /\ Over(k.bounds, k.indices, 1)
    BY <1>5 DEF CarryStrays
  <2>2. call' = [call EXCEPT ![c] = q]
    <3>1. call' = [call EXCEPT ![c].indices[1] = k.bounds[1].lLbound, ![c].at = "element"]
      BY <1>5 DEF CarryStrays
    <3> QED BY <3>1
  <2>3. Traversal(q) /\ Len(q.bounds) = 1
    BY <1>2, <2>1, StrayKeeps
  <2>4. Len(k.bounds) = 1
    BY <1>2, <2>1 DEF Traversal
  <2> HIDE DEF q
  <2> QED BY <1>1, <1>2, <2>2, <2>3, <2>4, IterationKeeps
<1>6. CASE CarryEnds(c)
  <2> DEFINE q == [k EXCEPT !.at = "element"]
  <2>1. /\ ~Over(k.bounds, k.indices, k.j) /\ stray' = stray
        /\ call' = [call EXCEPT ![c] = q]
    BY <1>6 DEF CarryEnds
  <2>2. Traversal(q)
    BY <1>2, <2>1, EndKeeps
  <2>3. q.bounds = k.bounds
    <3>1. k = CallRecord(k.at, k.array, k.bounds, k.indices, k.j, k.last)
      BY <1>2 DEF Traversal
    <3> QED BY <3>1 DEF CallRecord
  <2> HIDE DEF q
  <2> QED BY <1>1, <1>2, <2>1, <2>2, <2>3, IterationKeeps
<1> QED BY <1>3, <1>4, <1>5, <1>6 DEF Iterate

(* One step per action.                                                    *)
LEMMA SafeStep == SafeInv /\ [Next]_vars => SafeInv'
<1> SUFFICES ASSUME SafeInv, [Next]_vars PROVE SafeInv'
  OBVIOUS
<1>1. CASE DllRegisterServer \/ DllUnregisterServer
  BY <1>1, RegisterKeeps
<1>2. CASE Unload
  BY <1>2, UnloadKeeps
<1>3. ASSUME NEW c \in Client, DllGetClassObject(c) PROVE SafeInv'
  BY <1>3, ClassObjectKeeps
<1>4. ASSUME NEW c \in Client, CreateInstance(c) \/ AddRef(c) PROVE SafeInv'
  BY <1>4, ReferenceKeeps
<1>5. ASSUME NEW c \in Client, Release(c) PROVE SafeInv'
  BY <1>5, ReleaseKeeps
<1>6. ASSUME NEW c \in Caller, Get(c) PROVE SafeInv'
  BY <1>6, GetKeeps
<1>7. ASSUME NEW c \in Caller, SetArray(c) PROVE SafeInv'
  BY <1>7, CallKeeps
<1>8. ASSUME NEW c \in Caller, Iterate(c) PROVE SafeInv'
  BY <1>8, IterateKeeps
<1>9. CASE UNCHANGED vars
  BY <1>9 DEF vars, server, SafeInv, Counted, LoadedIfUsed, CallsInRange, StrayIsOfVector
<1> QED BY <1>1, <1>2, <1>3, <1>4, <1>5, <1>6, <1>7, <1>8, <1>9 DEF Next

(* The invariant holds in every state.                                     *)
LEMMA SafeInvariance == Spec => []SafeInv
BY SafeBeginning, SafeStep, PTL DEF Spec

(***************************************************************************)
(* The DLL is in the process as long as any client holds its class object, *)
(* its object or its code for other processes, or is in a call, however    *)
(* references come and go (DllCanUnloadNow).                               *)
(***************************************************************************)
THEOREM NeededStaysLoaded == Spec => []NeededIsLoaded
<1>1. ASSUME SafeInv PROVE NeededIsLoaded
  <2>1. SafeTypeOK
    <3>1. /\ registry \subseteq {"server", "proxy"}
          /\ \A c \in Client : refs[c] \in 0..MaxRefs /\ {factory[c], proxies[c]} \subseteq 0..1
      BY <1>1 DEF SafeInv, Counted
    <3>2. \A c \in Client : call[c] # Idle => Traversal(call[c])
      BY <1>1 DEF SafeInv, CallsInRange
    <3>3. \A c \in Client : call[c] # Idle =>
             /\ DOMAIN call[c].indices = DOMAIN call[c].array.rgsabound
             /\ call[c].j \in DOMAIN call[c].indices
      BY <3>2 DEF Traversal
    <3> QED BY <3>1, <3>3 DEF SafeTypeOK
  <2>2. \A c \in Client :
           factory[c] > 0 \/ refs[c] > 0 \/ proxies[c] > 0 \/ call[c] # Idle => loaded
    BY <1>1 DEF SafeInv, LoadedIfUsed
  <2> QED BY <2>1, <2>2 DEF NeededIsLoaded
<1> QED BY <1>1, SafeInvariance, PTL

(***************************************************************************)
(* SetArray() fetches elements that its array has, whatever its bounds,    *)
(* until it leaves its indices, which only the traversal of a vector does  *)
(* (inc_indices).                                                          *)
(***************************************************************************)
THEOREM MemoryIsOwn == Spec => []OwnMemory
<1>1. ASSUME SafeInv PROVE OwnMemory
  <2>1. ASSUME NEW c \in Client, call[c].at = "element"
        PROVE  call[c].indices \in DOMAIN call[c].array.elements
    <3> DEFINE k == call[c]
    <3>1. Traversal(k)
      BY <1>1, <2>1 DEF SafeInv, CallsInRange, Idle
    <3>2. /\ Has(k.array, k.bounds) /\ k.indices \in [DOMAIN k.bounds -> Int]
          /\ \A n \in DOMAIN k.bounds : InRange(k.bounds, k.indices, n)
      BY <2>1, <3>1 DEF Traversal
    <3> QED BY <3>2 DEF Has
  <2> QED BY <1>1, <2>1 DEF OwnMemory, SafeInv, StrayIsOfVector
<1> QED BY <1>1, SafeInvariance, PTL

-----------------------------------------------------------------------------
(***************************************************************************)
(* The order of the elements.  Between two iterations the indices are      *)
(* those of the element printed last, but for the one that is counted up:  *)
(* those behind it start again, as they had come to their ends.            *)
(***************************************************************************)
\* The last indices of an array of dimensions b.
Highest(b) == [n \in DOMAIN b |-> b[n].lLbound + b[n].cElements - 1]

\* The indices of such an array.
Box(b) == {ix \in [DOMAIN b -> Int] : \A n \in DOMAIN b : InRange(b, ix, n)}

\* ix is from with index j counted up.
CountedUp(b, from, ix, j) ==
    /\ \A n \in 1..j - 1 : ix[n] = from[n]
    /\ ix[j] = from[j] + 1
    /\ \A n \in j + 1..Len(b) : ix[n] = Lowest(b)[n] /\ from[n] = Highest(b)[n]

\* When an element is fetched it is the next; in inc_indices() the last one is
\* counted up.
InOrder(k) ==
    /\ k.at = "element" => /\ k.indices \in Ahead(k)
                           /\ \A ix \in Ahead(k) : ~Earlier(ix, k.indices)
    /\ k.at = "carry" => /\ k.last # << >> /\ k.last[1] \in DOMAIN k.array.elements
                         /\ CountedUp(k.bounds, k.last[1], k.indices, k.j)

OrderInv == stray = "no" => \A c \in Client : call[c] # Idle => InOrder(call[c])

(* The first and the last index of each dimension, and what is past it.    *)
LEMMA Corners ==
  ASSUME NEW b \in Dims
  PROVE  /\ Len(b) \in Nat /\ DOMAIN b = 1..Len(b)
         /\ Lowest(b) \in [1..Len(b) -> Int] /\ Highest(b) \in [1..Len(b) -> Int]
         /\ \A ix \in [1..Len(b) -> Int], n \in 1..Len(b) :
               /\ InRange(b, ix, n) <=> Lowest(b)[n] <= ix[n] /\ ix[n] <= Highest(b)[n]
               /\ Over(b, ix, n) <=> ix[n] > Highest(b)[n]
         /\ \A n \in 1..Len(b) : Lowest(b)[n] = b[n].lLbound
<1>1. /\ Len(b) \in Nat /\ DOMAIN b = 1..Len(b)
      /\ \A n \in 1..Len(b) : b[n].lLbound \in Int /\ b[n].cElements \in Nat
  BY DimsFacts
<1>2. \A n \in 1..Len(b) : b[n].lLbound + b[n].cElements - 1 \in Int
  BY ONLY <1>1
<1>3. Lowest(b) \in [1..Len(b) -> Int] /\ Highest(b) \in [1..Len(b) -> Int]
  BY ONLY <1>1, <1>2 DEF Lowest, Highest
<1>4. ASSUME NEW ix \in [1..Len(b) -> Int], NEW n \in 1..Len(b)
      PROVE  /\ InRange(b, ix, n) <=> Lowest(b)[n] <= ix[n] /\ ix[n] <= Highest(b)[n]
             /\ Over(b, ix, n) <=> ix[n] > Highest(b)[n]
  <2> DEFINE low == b[n].lLbound
             size == b[n].cElements
  <2>1. low \in Int /\ size \in Nat /\ ix[n] \in Int
    BY <1>1
  <2>2. Lowest(b)[n] = low /\ Highest(b)[n] = low + size - 1
    BY <1>1 DEF Lowest, Highest
  <2> HIDE DEF low, size
  <2>3. ix[n] \in low..low + size - 1 <=> low <= ix[n] /\ ix[n] <= low + size - 1
    BY ONLY <2>1
  <2>4. ix[n] >= size + low <=> ix[n] > low + size - 1
    BY ONLY <2>1
  <2>5. InRange(b, ix, n) <=> ix[n] \in low..low + size - 1
    BY DEF InRange, low, size
  <2>6. Over(b, ix, n) <=> ix[n] >= size + low
    BY DEF Over, low, size
  <2> QED BY ONLY <2>2, <2>3, <2>4, <2>5, <2>6
<1>5. \A n \in 1..Len(b) : Lowest(b)[n] = b[n].lLbound
  BY ONLY <1>1 DEF Lowest
<1> QED BY ONLY <1>1, <1>3, <1>4, <1>5

(* The indices of an element lie between the corners.                      *)
LEMMA BoxFacts ==
  ASSUME NEW b \in Dims
  PROVE  \A ix : ix \in Box(b) <=>
            /\ ix \in [1..Len(b) -> Int]
            /\ \A n \in 1..Len(b) : Lowest(b)[n] <= ix[n] /\ ix[n] <= Highest(b)[n]
BY Corners DEF Box

(* No element comes before the lower bounds.                               *)
LEMMA NoneBeforeLowest ==
  ASSUME NEW b \in Dims, NEW z \in Box(b)
  PROVE  ~Earlier(z, Lowest(b))
<1>1. /\ z \in [1..Len(b) -> Int] /\ Lowest(b) \in [1..Len(b) -> Int]
      /\ \A n \in 1..Len(b) : Lowest(b)[n] <= z[n]
  BY Corners, BoxFacts
<1> QED BY ONLY <1>1 DEF Earlier

(* None comes after the upper bounds.                                      *)
LEMMA NoneAfterHighest ==
  ASSUME NEW b \in Dims, NEW z \in Box(b), NEW from \in Box(b),
         \A n \in 1..Len(b) : from[n] = Highest(b)[n]
  PROVE  ~Earlier(from, z)
<1>1. /\ z \in [1..Len(b) -> Int] /\ from \in [1..Len(b) -> Int]
      /\ Highest(b) \in [1..Len(b) -> Int]
      /\ \A n \in 1..Len(b) : z[n] <= Highest(b)[n] /\ from[n] = Highest(b)[n]
  BY Corners, BoxFacts
<1> QED BY ONLY <1>1 DEF Earlier

(* No element lies between one and the one that is counted up from it.     *)
LEMMA NoneBetween ==
  ASSUME NEW b \in Dims, NEW from \in Box(b), NEW ix \in Box(b), NEW j \in DOMAIN b,
         CountedUp(b, from, ix, j)
  PROVE  /\ Earlier(from, ix)
         /\ \A z \in Box(b) : Earlier(from, z) => ~Earlier(z, ix)
<1> DEFINE d == Len(b)
           low == Lowest(b)
           high == Highest(b)
<1>1. /\ d \in Nat /\ j \in 1..d /\ low \in [1..d -> Int] /\ high \in [1..d -> Int]
      /\ from \in [1..d -> Int] /\ ix \in [1..d -> Int]
  BY Corners, BoxFacts
<1>2. /\ \A n \in 1..j - 1 : ix[n] = from[n]
      /\ ix[j] = from[j] + 1
      /\ \A n \in j + 1..d : ix[n] = low[n] /\ from[n] = high[n]
  BY DEF CountedUp
<1>3. \A z \in Box(b) : z \in [1..d -> Int] /\ \A n \in 1..d : low[n] <= z[n] /\ z[n] <= high[n]
  BY BoxFacts
<1> HIDE DEF d, low, high
<1>4. Earlier(from, ix)
  <2>1. from[j] < ix[j] /\ \A m \in 1..j - 1 : from[m] = ix[m]
    BY ONLY <1>1, <1>2
  <2> QED BY ONLY <1>1, <2>1 DEF Earlier
<1>5. ASSUME NEW z \in Box(b), Earlier(from, z), Earlier(z, ix) PROVE FALSE
  <2>1. z \in [1..d -> Int] /\ \A n \in 1..d : low[n] <= z[n] /\ z[n] <= high[n]
    BY <1>3
  <2>2. PICK p \in 1..d : from[p] < z[p] /\ \A m \in 1..p - 1 : from[m] = z[m]
    BY <1>1, <1>5 DEF Earlier
  <2>3. PICK q \in 1..d : z[q] < ix[q] /\ \A m \in 1..q - 1 : z[m] = ix[m]
    BY <2>1, <1>5 DEF Earlier
  <2>4. p \in Int /\ q \in Int /\ j \in Int
    BY <1>1
  <2>5. /\ p \in Int /\ q \in Int /\ j \in Int
        /\ \A n \in 1..d : from[n] \in Int /\ z[n] \in Int /\ ix[n] \in Int
                           /\ low[n] \in Int /\ high[n] \in Int
    BY <1>1, <2>1
  <2>6. from[p] < z[p] /\ z[q] < ix[q]
    BY <2>2, <2>3
  <2>7. p <= j
    <3> SUFFICES ASSUME ~(p <= j) PROVE FALSE
      OBVIOUS
    <3>1. p > j
      BY ONLY <2>4, ~(p <= j)
    <3>2. p \in j + 1..d
      BY ONLY <2>4, <3>1, <1>1, p \in 1..d
    <3>3. from[p] = high[p] /\ z[p] <= high[p]
      BY ONLY <1>2, <2>1, <3>2, p \in 1..d, Zenon
    <3>4. from[p] \in Int /\ z[p] \in Int /\ high[p] \in Int
      BY ONLY <2>5, p \in 1..d, Zenon
    <3> QED BY ONLY <2>6, <3>3, <3>4
  <2>8. q <= j
    <3> SUFFICES ASSUME ~(q <= j) PROVE FALSE
      OBVIOUS
    <3>1. q > j
      BY ONLY <2>4, ~(q <= j)
    <3>2. q \in j + 1..d
      BY ONLY <2>4, <3>1, <1>1, q \in 1..d
    <3>3. ix[q] = low[q] /\ low[q] <= z[q]
      BY ONLY <1>2, <2>1, <3>2, q \in 1..d, Zenon
    <3>4. ix[q] \in Int /\ z[q] \in Int /\ low[q] \in Int
      BY ONLY <2>5, q \in 1..d, Zenon
    <3> QED BY ONLY <2>6, <3>3, <3>4
  <2>9. \A n \in 1..d : n < p => z[n] = from[n]
    <3>1. \A n \in 1..d : n < p => n \in 1..p - 1
      BY ONLY p \in 1..d
    <3> QED BY ONLY <2>2, <3>1
  <2>10. \A n \in 1..d : n < q => z[n] = ix[n]
    <3>1. \A n \in 1..d : n < q => n \in 1..q - 1
      BY ONLY q \in 1..d
    <3> QED BY ONLY <2>3, <3>1
  <2>11. \A n \in 1..d : n < j => ix[n] = from[n]
    <3>1. \A n \in 1..d : n < j => n \in 1..j - 1
      BY ONLY <1>1
    <3> QED BY ONLY <1>2, <3>1
  <2>12. ASSUME q < p PROVE FALSE
    <3>1. q < j
      BY ONLY <2>5, <2>7, <2>12
    <3>2. z[q] = ix[q]
      BY ONLY <2>9, <2>11, <2>12, <3>1, q \in 1..d, Zenon
    <3> QED BY ONLY <2>5, <2>6, <3>2, q \in 1..d
  <2>13. ASSUME p < q PROVE FALSE
    <3>1. p < j
      BY ONLY <2>5, <2>8, <2>13
    <3>2. z[p] = from[p]
      BY ONLY <2>10, <2>11, <2>13, <3>1, p \in 1..d, Zenon
    <3> QED BY ONLY <2>5, <2>6, <3>2, p \in 1..d
  <2>14. ASSUME p = q PROVE FALSE
    <3>1. from[p] \in Int /\ z[p] \in Int /\ ix[p] \in Int /\ z[p] < ix[p]
      BY ONLY <2>5, <2>6, <2>14, p \in 1..d, Zenon
    <3>2. CASE p < j
      <4>1. ix[p] = from[p]
        BY ONLY <2>11, <3>2, p \in 1..d, Zenon
      <4> QED BY ONLY <2>6, <3>1, <4>1
    <3>3. CASE p = j
      <4>1. ix[p] = from[p] + 1
        BY ONLY <1>2, <3>3, Zenon
      <4> QED BY ONLY <2>6, <3>1, <4>1
    <3> QED BY ONLY <2>5, <2>7, <3>2, <3>3
  <2> QED BY ONLY <2>5, <2>12, <2>13, <2>14
<1> QED BY <1>4, <1>5

(* An index that is past its dimension hands over to the one before it.    *)
LEMMA CarriedOn ==
  ASSUME NEW b \in Dims, NEW from \in Box(b), NEW ix \in [DOMAIN b -> Int],
         NEW j \in DOMAIN b, CountedUp(b, from, ix, j), j > 1, Over(b, ix, j),
         NEW next, next = [ix EXCEPT ![j] = b[j].lLbound, ![j - 1] = @ + 1]
  PROVE  /\ CountedUp(b, from, next, j - 1)
         /\ j = 2 /\ Over(b, next, 1) => \A n \in 1..Len(b) : from[n] = Highest(b)[n]
<1> DEFINE d == Len(b)
           low == Lowest(b)
           high == Highest(b)
<1>1. /\ d \in Nat /\ j \in 2..d /\ low \in [1..d -> Int] /\ high \in [1..d -> Int]
      /\ from \in [1..d -> Int] /\ ix \in [1..d -> Int]
      /\ \A n \in 1..d : from[n] <= high[n]
  <2>1. /\ d \in Nat /\ DOMAIN b = 1..d
        /\ low \in [1..d -> Int] /\ high \in [1..d -> Int]
    BY Corners
  <2>2. from \in [1..d -> Int] /\ \A n \in 1..d : low[n] <= from[n] /\ from[n] <= high[n]
    BY BoxFacts
  <2> HIDE DEF d, low, high
  <2>3. j \in 2..d
    BY ONLY <2>1, j \in DOMAIN b, j > 1
  <2> QED BY ONLY <2>1, <2>2, <2>3, ix \in [DOMAIN b -> Int]
<1>2. /\ \A n \in 1..j - 1 : ix[n] = from[n]
      /\ ix[j] = from[j] + 1
      /\ \A n \in j + 1..d : ix[n] = low[n] /\ from[n] = high[n]
  BY DEF CountedUp
<1>3. next = [ix EXCEPT ![j] = low[j], ![j - 1] = @ + 1] /\ ix[j] > high[j]
  <2>1. low[j] = b[j].lLbound /\ (Over(b, ix, j) <=> ix[j] > high[j])
    BY Corners
  <2> HIDE DEF low, high
  <2> QED BY <2>1
<1>4. next \in [1..d -> Int] => (Over(b, next, 1) => next[1] > high[1])
  <2>1. 1 \in 1..d
    BY <1>1
  <2> QED BY <2>1, Corners
<1> HIDE DEF d, low, high
<1>5. d \in Nat /\ j \in 2..d
  BY ONLY <1>1
<1>6. /\ next \in [1..d -> Int] /\ next[j] = low[j] /\ next[j - 1] = ix[j - 1] + 1
      /\ \A n \in 1..d : n # j /\ n # j - 1 => next[n] = ix[n]
  <2>1. j \in 1..d /\ j - 1 \in 1..d /\ j # j - 1
    BY ONLY <1>5
  <2>2. low[j] \in Int /\ ix[j - 1] \in Int /\ ix[j - 1] + 1 \in Int
    BY ONLY <1>1, <2>1
  <2> QED BY ONLY <1>1, <1>3, <2>1, <2>2
<1>7. from[j] = high[j]
  <2>1. from[j] \in Int /\ high[j] \in Int /\ from[j] <= high[j]
    BY ONLY <1>1
  <2> QED BY ONLY <1>2, <1>3, <2>1
<1>8. \A n \in j - 1 + 1..d : next[n] = low[n] /\ from[n] = high[n]
  <2> SUFFICES ASSUME NEW n \in j - 1 + 1..d
               PROVE  next[n] = low[n] /\ from[n] = high[n]
    OBVIOUS
  <2>1. CASE n = j
    BY ONLY <1>6, <1>7, <2>1
  <2>2. CASE n # j
    <3>1. n \in j + 1..d /\ n \in 1..d /\ n # j - 1
      BY ONLY <1>5, <2>2, n \in j - 1 + 1..d
    <3> QED BY ONLY <1>2, <1>6, <2>2, <3>1
  <2> QED BY <2>1, <2>2
<1>9. (\A n \in 1..j - 1 - 1 : next[n] = from[n]) /\ next[j - 1] = from[j - 1] + 1
  <2>1. j - 1 \in 1..j - 1
    BY ONLY <1>5
  <2>2. \A n \in 1..j - 1 - 1 : n \in 1..d /\ n \in 1..j - 1 /\ n # j /\ n # j - 1
    BY ONLY <1>5
  <2> QED BY ONLY <1>2, <1>6, <2>1, <2>2
<1>10. CountedUp(b, from, next, j - 1)
  BY ONLY <1>8, <1>9 DEF CountedUp, d, low, high
<1>11. ASSUME j = 2, Over(b, next, 1) PROVE \A n \in 1..d : from[n] = high[n]
  <2>1. next[1] > high[1]
    BY <1>4, <1>6, <1>11
  <2>2. from[1] = high[1]
    BY ONLY <1>1, <1>9, <1>11, <2>1
  <2>3. \A n \in 1..d : n = 1 \/ n \in j - 1 + 1..d
    BY ONLY <1>1, <1>11
  <2> QED BY ONLY <1>8, <2>2, <2>3
<1> QED BY ONLY <1>10, <1>11 DEF d, high

(* What InOrder says of a record.                                          *)
LEMMA OrderParts ==
  ASSUME NEW array, NEW b, NEW ix, NEW j, NEW last
  PROVE  /\ last # << >> /\ last[1] \in DOMAIN array.elements /\ CountedUp(b, last[1], ix, j)
               => InOrder(CallRecord("carry", array, b, ix, j, last))
         /\ /\ ix \in DOMAIN array.elements
            /\ last = << >> \/ Earlier(last[1], ix)
            /\ \A z \in DOMAIN array.elements :
                  (last = << >> \/ Earlier(last[1], z)) => ~Earlier(z, ix)
            => InOrder(CallRecord("element", array, b, ix, j, last))
<1> DEFINE c == CallRecord("carry", array, b, ix, j, last)
           e == CallRecord("element", array, b, ix, j, last)
<1>1. /\ c.at = "carry" /\ c.array = array /\ c.bounds = b /\ c.indices = ix
      /\ c.j = j /\ c.last = last
  BY DEF CallRecord
<1>2. e.at = "element" /\ e.array = array /\ e.indices = ix /\ e.last = last
  BY DEF CallRecord
<1> HIDE DEF c, e
<1>3. /\ last # << >> /\ last[1] \in DOMAIN array.elements /\ CountedUp(b, last[1], ix, j)
         => InOrder(c)
  BY <1>1 DEF InOrder
<1>4. Ahead(e) = {z \in DOMAIN array.elements : last = << >> \/ Earlier(last[1], z)}
  BY <1>2 DEF Ahead
<1>5. /\ ix \in DOMAIN array.elements
      /\ last = << >> \/ Earlier(last[1], ix)
      /\ \A z \in DOMAIN array.elements :
            (last = << >> \/ Earlier(last[1], z)) => ~Earlier(z, ix)
      => InOrder(e)
  BY <1>2, <1>4 DEF InOrder
<1> QED BY <1>3, <1>5 DEF c, e

(* The elements of the array of a call, and its record.                    *)
LEMMA CallElements ==
  ASSUME NEW k, Traversal(k)
  PROVE  /\ k = CallRecord(k.at, k.array, k.bounds, k.indices, k.j, k.last)
         /\ k.bounds \in Dims /\ DOMAIN k.array.elements = Box(k.bounds)
         /\ k.j \in DOMAIN k.bounds /\ k.indices \in [DOMAIN k.bounds -> Int]
BY DEF Traversal, Has, Box

(* SetArray() begins with the first element.                               *)
LEMMA BeginsInOrder ==
  ASSUME NEW array, NEW b, NEW j,
         Traversal(CallRecord("element", array, b, Lowest(b), j, << >>))
  PROVE  InOrder(CallRecord("element", array, b, Lowest(b), j, << >>))
<1> DEFINE k == CallRecord("element", array, b, Lowest(b), j, << >>)
<1>1. k.array = array /\ k.bounds = b /\ k.indices = Lowest(b) /\ k.at = "element"
  BY DEF CallRecord
<1> HIDE DEF k
<1>2. Traversal(k)
  BY DEF k
<1>3. b \in Dims /\ DOMAIN array.elements = Box(b)
  BY <1>1, <1>2, CallElements
<1>4. Lowest(b) \in Box(b)
  BY <1>1, <1>2 DEF Traversal, Box
<1>5. \A z \in Box(b) : ~Earlier(z, Lowest(b))
  BY <1>3, NoneBeforeLowest
<1> QED BY <1>3, <1>4, <1>5, OrderParts

(* The next element is printed with its own indices.                       *)
LEMMA ElementInOrder ==
  ASSUME NEW k, Traversal(k), k.at = "element", InOrder(k), NEW value,
         value = IF k.indices \in DOMAIN k.array.elements
                 THEN k.array.elements[k.indices] ELSE "garbage",
         NEW q, q = [k EXCEPT !.at = "carry", !.j = Len(k.bounds),
                              !.indices[Len(k.bounds)] = @ + 1,
                              !.last = <<k.indices, value>>]
  PROVE  /\ InOrder(q)
         /\ \E ix \in Ahead(k) : /\ \A iy \in Ahead(k) : ~Earlier(iy, ix)
                                 /\ q.last = <<ix, k.array.elements[ix]>>
<1> DEFINE b == k.bounds
           d == Len(b)
           old == k.indices
           ix == [old EXCEPT ![d] = @ + 1]
           last == <<old, value>>
<1>1. /\ k = CallRecord(k.at, k.array, b, old, k.j, k.last)
      /\ b \in Dims /\ DOMAIN k.array.elements = Box(b) /\ old \in [DOMAIN b -> Int]
  BY CallElements
<1>2. /\ old \in Ahead(k) /\ old \in DOMAIN k.array.elements
      /\ \A z \in Ahead(k) : ~Earlier(z, old)
  BY DEF InOrder, Ahead
<1>3. q = CallRecord("carry", k.array, b, ix, d, last)
  <2>1. q = Printed(k, ix, d, last)
    BY DEF Printed
  <2>2. k = CallRecord(k.at, k.array, k.bounds, k.indices, k.j, k.last)
    BY <1>1
  <2> HIDE DEF d, ix, last
  <2>3. Printed(k, ix, d, last) = CallRecord("carry", k.array, k.bounds, ix, d, last)
    BY ONLY <2>2, ElementRecord, Zenon
  <2> QED BY ONLY <2>1, <2>3, Zenon
<1>4. d \in Nat \ {0} /\ DOMAIN b = 1..d
  BY <1>1, DimsFacts
<1>5. CountedUp(b, old, ix, d)
  <2> HIDE DEF b, d, old
  <2>1. /\ \A n \in 1..d - 1 : ix[n] = old[n]
        /\ ix[d] = old[d] + 1
    BY ONLY <1>1, <1>4
  <2>2. \A n \in d + 1..d : FALSE
    BY ONLY <1>4
  <2> QED BY <2>1, <2>2 DEF CountedUp, d
<1>6. last # << >> /\ last[1] = old /\ value = k.array.elements[old]
  BY <1>2
<1>7. q.last = last
  BY ONLY <1>3 DEF CallRecord
<1> HIDE DEF b, d, old, ix, last
<1>8. InOrder(q)
  BY <1>2, <1>3, <1>5, <1>6, OrderParts
<1>9. q.last = <<old, k.array.elements[old]>>
  BY <1>6, <1>7 DEF last
<1> QED BY <1>2, <1>8, <1>9

(* Carrying on, and what is over when the first dimension is at its end.   *)
LEMMA CarryInOrder ==
  ASSUME NEW k, Traversal(k), k.at = "carry", InOrder(k), k.j > 1,
         Over(k.bounds, k.indices, k.j),
         NEW next, next = [k.indices EXCEPT ![k.j] = k.bounds[k.j].lLbound, ![k.j - 1] = @ + 1]
  PROVE  /\ InOrder([k EXCEPT !.indices = next, !.j = k.j - 1])
         /\ k.j = 2 /\ Over(k.bounds, next, 1) => Ahead(k) = {}
<1> DEFINE b == k.bounds
           j == k.j
           old == k.indices
           last == k.last
           i == j - 1
<1>1. /\ k = CallRecord("carry", k.array, b, old, j, last)
      /\ b \in Dims /\ DOMAIN k.array.elements = Box(b)
      /\ j \in DOMAIN b /\ old \in [DOMAIN b -> Int]
  BY CallElements
<1>2. last # << >> /\ last[1] \in Box(b) /\ CountedUp(b, last[1], old, j)
  BY <1>1 DEF InOrder
<1>3. j > 1 /\ Over(b, old, j) /\ next = [old EXCEPT ![j] = b[j].lLbound, ![j - 1] = @ + 1]
  OBVIOUS
<1>4. /\ CountedUp(b, last[1], next, i)
      /\ j = 2 /\ Over(b, next, 1) => \A n \in 1..Len(b) : last[1][n] = Highest(b)[n]
  <2> HIDE DEF b, j, old, last
  <2> QED BY ONLY <1>1, <1>2, <1>3, CarriedOn
<1>5. [k EXCEPT !.indices = next, !.j = i] = CallRecord("carry", k.array, b, next, i, last)
  <2>1. k = CallRecord(k.at, k.array, k.bounds, k.indices, k.j, k.last) /\ k.at = "carry"
    BY <1>1
  <2> HIDE DEF i
  <2> QED BY ONLY <2>1, CarryRecord
<1>6. InOrder(CallRecord("carry", k.array, b, next, i, last))
  <2> HIDE DEF b, j, old, last, i
  <2> QED BY <1>1, <1>2, <1>4, OrderParts
<1>7. ASSUME j = 2, Over(b, next, 1) PROVE Ahead(k) = {}
  <2>1. \A z \in Box(b) : ~Earlier(last[1], z)
    <3> HIDE DEF b, j, old, last, i
    <3> QED BY ONLY <1>1, <1>2, <1>4, <1>7, NoneAfterHighest
  <2>2. Ahead(k) = {z \in Box(b) : last = << >> \/ Earlier(last[1], z)}
    BY <1>1 DEF Ahead
  <2> QED BY ONLY <1>2, <2>1, <2>2
<1> QED BY ONLY <1>5, <1>6, <1>7 DEF b, j, i

(* The element that is counted up to is the next.                          *)
LEMMA EndInOrder ==
  ASSUME NEW k, Traversal(k), k.at = "carry", InOrder(k), ~Over(k.bounds, k.indices, k.j)
  PROVE  InOrder([k EXCEPT !.at = "element"])
<1> DEFINE b == k.bounds
           j == k.j
           ix == k.indices
           last == k.last
           q == [k EXCEPT !.at = "element"]
<1>1. /\ k = CallRecord("carry", k.array, b, ix, j, last)
      /\ b \in Dims /\ DOMAIN k.array.elements = Box(b)
      /\ j \in DOMAIN b /\ ix \in [DOMAIN b -> Int]
  BY CallElements
<1>2. last # << >> /\ last[1] \in Box(b) /\ CountedUp(b, last[1], ix, j)
  BY <1>1 DEF InOrder
<1>3. q = CallRecord("element", k.array, b, ix, j, last)
  <2>1. k = CallRecord(k.at, k.array, k.bounds, k.indices, k.j, k.last)
    BY <1>1
  <2> QED BY ONLY <2>1, EndRecord
<1>4. ix \in Box(b)
  <2>1. Traversal(q)
    BY EndKeeps
  <2>2. q.at = "element" /\ q.bounds = b /\ q.indices = ix
    BY ONLY <1>3 DEF CallRecord
  <2> QED BY ONLY <2>1, <2>2 DEF Traversal, Box
<1> HIDE DEF b, j, ix, last, q
<1>5. Earlier(last[1], ix) /\ \A z \in Box(b) : Earlier(last[1], z) => ~Earlier(z, ix)
  BY ONLY <1>1, <1>2, <1>4, NoneBetween
<1>6. InOrder(q)
  BY ONLY <1>1, <1>2, <1>3, <1>4, <1>5, OrderParts
<1> QED BY <1>6 DEF q

\* What a step may do to the call of c, when no memory was touched that is not
\* its own.
CallInOrder(c) ==
    call[c] # Idle =>
       /\ call[c].at = "element" /\ call'[c] # call[c] =>
             \E ix \in Ahead(call[c]) :
                 /\ \A iy \in Ahead(call[c]) : ~Earlier(iy, ix)
                 /\ call'[c].last = <<ix, call[c].array.elements[ix]>>
       /\ call'[c] = Idle => Ahead(call[c]) = {}

(* A step changes the call of one client only.                             *)
LEMMA OneCall ==
  ASSUME SafeInv, [Next]_vars, NEW c \in Client
  PROVE  /\ stray' = "no" => stray = "no"
         /\ \/ call'[c] = call[c]
            \/ c \in Caller /\ (SetArray(c) \/ Iterate(c))
<1>1. DOMAIN call = Client
  BY DEF SafeInv, CallsInRange
<1>2. CASE UNCHANGED vars
  BY <1>2 DEF vars
<1>3. CASE DllRegisterServer \/ DllUnregisterServer \/ Unload
  BY <1>3 DEF DllRegisterServer, DllUnregisterServer, Unload
<1>4. ASSUME NEW d \in Client,
             DllGetClassObject(d) \/ CreateInstance(d) \/ AddRef(d) \/ Release(d)
      PROVE  UNCHANGED <<call, stray>>
  BY <1>4 DEF DllGetClassObject, CreateInstance, AddRef, Release
<1>5. ASSUME NEW d \in Caller, Get(d) PROVE UNCHANGED <<call, stray>>
  BY <1>5 DEF Get
<1>6. ASSUME NEW d \in Caller, SetArray(d)
      PROVE  stray' = stray /\ (d # c => call'[c] = call[c])
  BY <1>1, <1>6 DEF SetArray
<1>7. ASSUME NEW d \in Caller, Iterate(d)
      PROVE  (stray' = "no" => stray = "no") /\ (d # c => call'[c] = call[c])
  <2>1. CASE Element(d) \/ Carry(d) \/ CarryEnds(d)
    <3>1. stray' = stray /\ \E q : call' = [call EXCEPT ![d] = q]
      BY <2>1 DEF Element, Carry, CarryEnds
    <3> QED BY <1>1, <3>1
  <2>2. CASE CarryStrays(d)
    <3>1. stray' # "no" /\ \E q : call' = [call EXCEPT ![d] = q]
      BY <2>2 DEF CarryStrays
    <3> QED BY <1>1, <3>1
  <2> QED BY <1>7, <2>1, <2>2 DEF Iterate
<1>8. CASE Next
  <2>1. \/ DllRegisterServer \/ DllUnregisterServer \/ Unload
        \/ \E d \in Client : DllGetClassObject(d) \/ CreateInstance(d) \/ AddRef(d)
                              \/ Release(d)
        \/ \E d \in Caller : Get(d) \/ SetArray(d) \/ Iterate(d)
    BY <1>8 DEF Next
  <2>2. CASE \E d \in Caller : SetArray(d) \/ Iterate(d)
    <3>1. PICK d \in Caller : SetArray(d) \/ Iterate(d)
      BY <2>2
    <3> QED BY <1>6, <1>7, <3>1
  <2> QED BY <1>3, <1>4, <1>5, <2>1, <2>2
<1> QED BY <1>2, <1>8

(* SetArray() begins in order.                                             *)
LEMMA CallBeginsInOrder ==
  ASSUME SafeInv, NEW c \in Caller, SetArray(c)
  PROVE  call'[c] # Idle => InOrder(call'[c])
<1>1. c \in Client /\ DOMAIN call = Client /\ SafeInv'
  BY CallKeeps, SafeArraysAssumption DEF SafeInv, CallsInRange
<1>2. PICK array \in Arrays(held[c]) :
         call' = LET bounds == InvertArrayBounds(array.rgsabound)
                 IN  [call EXCEPT ![c] =
                        [at |-> "element", array |-> array, bounds |-> bounds,
                         indices |-> [n \in DOMAIN bounds |-> bounds[n].lLbound],
                         j |-> Len(bounds), last |-> << >>]]
  BY DEF SetArray
<1> DEFINE b == InvertArrayBounds(array.rgsabound)
           q == CallRecord("element", array, b, Lowest(b), Len(b), << >>)
<1>3. call'[c] = q
  BY <1>1, <1>2 DEF CallRecord, Lowest
<1>4. q # Idle => Traversal(q)
  <2> HIDE DEF q
  <2> QED BY <1>1, <1>3 DEF SafeInv, CallsInRange
<1>5. q # Idle => InOrder(q)
  BY <1>4, BeginsInOrder
<1> QED BY <1>3, <1>5

(* The iterations of its loops keep to it, and the call ends after the     *)
(* last element.                                                           *)
LEMMA IterationInOrder ==
  ASSUME SafeInv, OrderInv, stray = "no", NEW c \in Caller, Iterate(c)
  PROVE  /\ stray' = "no" /\ call'[c] # Idle => InOrder(call'[c])
         /\ CallInOrder(c)
<1>1. /\ c \in Client /\ DOMAIN call = Client /\ call[c] # Idle
      /\ Traversal(call[c]) /\ InOrder(call[c])
  <2>1. call[c].at \in {"element", "carry"}
    BY DEF Iterate, Element, Carry, CarryStrays, CarryEnds
  <2>2. c \in Client /\ call[c] # Idle /\ Traversal(call[c])
    BY <2>1, UnderWay
  <2> QED BY <2>2 DEF SafeInv, CallsInRange, OrderInv
<1> DEFINE k == call[c]
<1>2. CASE Element(c)
  <2> DEFINE value == IF k.indices \in DOMAIN k.array.elements
                      THEN k.array.elements[k.indices] ELSE "garbage"
             q == [k EXCEPT !.at = "carry", !.j = Len(k.bounds),
                            !.indices[Len(k.bounds)] = @ + 1,
                            !.last = <<k.indices, value>>]
  <2>1. k.at = "element" /\ call' = [call EXCEPT ![c] = q]
    BY ONLY <1>2, Zenon DEF Element
  <2>2. /\ InOrder(q)
        /\ \E ix \in Ahead(k) : /\ \A iy \in Ahead(k) : ~Earlier(iy, ix)
                                /\ q.last = <<ix, k.array.elements[ix]>>
    <3> DEFINE v == value
    <3>1. v = IF k.indices \in DOMAIN k.array.elements
              THEN k.array.elements[k.indices] ELSE "garbage"
      OBVIOUS
    <3>2. q = [k EXCEPT !.at = "carry", !.j = Len(k.bounds),
                        !.indices[Len(k.bounds)] = @ + 1,
                        !.last = <<k.indices, v>>]
      OBVIOUS
    <3>3. Traversal(k) /\ InOrder(k)
      BY <1>1
    <3> HIDE DEF v, q, k
    <3> QED BY ONLY <2>1, <3>1, <3>2, <3>3, ElementInOrder
  <2>3. q # Idle
    <3>1. q.at = "carry"
      BY <1>1 DEF Traversal, CallRecord
    <3> QED BY <3>1 DEF Idle
  <2> HIDE DEF q
  <2>4. call'[c] = q
    BY ONLY <1>1, <2>1
  <2> HIDE DEF k
  <2> QED BY <2>2, <2>3, <2>4 DEF CallInOrder, k
<1>3. CASE Carry(c)
  <2> DEFINE next == [k.indices EXCEPT ![k.j] = k.bounds[k.j].lLbound, ![k.j - 1] = @ + 1]
             q == [k EXCEPT !.indices = next, !.j = k.j - 1]
  <2>1. /\ k.at = "carry" /\ k.j > 1 /\ Over(k.bounds, k.indices, k.j)
        /\ call' = [call EXCEPT ![c] =
                      IF k.j = 2 /\ Over(k.bounds, next, 1) THEN Idle ELSE q]
    BY <1>3 DEF Carry
  <2>2. /\ InOrder(q)
        /\ k.j = 2 /\ Over(k.bounds, next, 1) => Ahead(k) = {}
    <3> DEFINE n == next
    <3>1. n = [k.indices EXCEPT ![k.j] = k.bounds[k.j].lLbound, ![k.j - 1] = @ + 1]
      OBVIOUS
    <3>2. q = [k EXCEPT !.indices = n, !.j = k.j - 1]
      OBVIOUS
    <3>3. Traversal(k) /\ InOrder(k)
      BY <1>1
    <3> HIDE DEF n, q, k
    <3> QED BY ONLY <2>1, <3>1, <3>2, <3>3, CarryInOrder DEF n
  <2>3. q # Idle
    <3>1. k = CallRecord(k.at, k.array, k.bounds, k.indices, k.j, k.last)
      BY <1>1 DEF Traversal
    <3>2. q.at = k.at
      <4> HIDE DEF next
      <4> QED BY ONLY <3>1 DEF CallRecord
    <3> HIDE DEF q
    <3> QED BY <2>1, <3>2 DEF Idle
  <2>4. call'[c] = IF k.j = 2 /\ Over(k.bounds, next, 1) THEN Idle ELSE q
    <3> HIDE DEF q, next
    <3> QED BY ONLY <1>1, <2>1
  <2> HIDE DEF q, next
  <2>5. call'[c] # Idle => InOrder(call'[c])
    BY ONLY <2>2, <2>4
  <2>6. call'[c] = Idle => Ahead(k) = {}
    BY ONLY <2>2, <2>3, <2>4
  <2> QED BY <2>1, <2>5, <2>6 DEF CallInOrder
<1>4. CASE CarryStrays(c)
  <2>1. stray' # "no" /\ k.at = "carry"
    BY <1>4 DEF CarryStrays
  <2>2. call'[c] # Idle
    <3> DEFINE q == [k EXCEPT !.indices[1] = k.bounds[1].lLbound, !.at = "element"]
    <3>1. call' = [call EXCEPT ![c].indices[1] = k.bounds[1].lLbound, ![c].at = "element"]
      BY <1>4 DEF CarryStrays
    <3>2. call'[c] = q
      BY <1>1, <3>1
    <3>3. k = CallRecord(k.at, k.array, k.bounds, k.indices, k.j, k.last)
      BY <1>1 DEF Traversal
    <3>4. q.at = "element"
      BY <3>3 DEF CallRecord
    <3> HIDE DEF q
    <3> QED BY ONLY <3>2, <3>4 DEF Idle
  <2> QED BY <2>1, <2>2 DEF CallInOrder
<1>5. CASE CarryEnds(c)
  <2> DEFINE q == [k EXCEPT !.at = "element"]
  <2>1. /\ k.at = "carry" /\ ~Over(k.bounds, k.indices, k.j)
        /\ call' = [call EXCEPT ![c] = q]
    BY <1>5 DEF CarryEnds
  <2>2. InOrder(q)
    BY <1>1, <2>1, EndInOrder
  <2>3. q # Idle
    <3>1. k = CallRecord(k.at, k.array, k.bounds, k.indices, k.j, k.last)
      BY <1>1 DEF Traversal
    <3>2. q.at = "element"
      BY ONLY <3>1 DEF CallRecord
    <3> QED BY <3>2 DEF Idle
  <2> HIDE DEF q
  <2>4. call'[c] = q
    BY ONLY <1>1, <2>1
  <2> QED BY <2>1, <2>2, <2>3, <2>4 DEF CallInOrder
<1> QED BY <1>2, <1>3, <1>4, <1>5 DEF Iterate

(* What a step does to any call.                                           *)
LEMMA StepInOrder ==
  ASSUME SafeInv, OrderInv, stray = "no", [Next]_vars, NEW c \in Client
  PROVE  /\ stray' = "no" /\ call'[c] # Idle => InOrder(call'[c])
         /\ CallInOrder(c)
<1>1. CASE call'[c] = call[c]
  BY <1>1 DEF OrderInv, CallInOrder
<1>2. CASE c \in Caller /\ SetArray(c)
  <2>1. call[c] = Idle
    BY <1>2 DEF SetArray
  <2> QED BY <1>2, <2>1, CallBeginsInOrder DEF CallInOrder
<1>3. CASE c \in Caller /\ Iterate(c)
  BY <1>3, IterationInOrder
<1> QED BY <1>1, <1>2, <1>3, OneCall

(***************************************************************************)
(* SetArray() prints the elements of an array of any dimensions and bounds *)
(* in the order of nested loops, and all of them before it returns, as     *)
(* long as its memory is its own (inc_indices).                            *)
(***************************************************************************)
THEOREM PrintsInOrder == Spec => PrintedInOrder
<1>1. Init => OrderInv
  BY DEF Init, OrderInv
<1>2. SafeInv /\ OrderInv /\ [Next]_vars => OrderInv'
  BY StepInOrder, OneCall DEF OrderInv
<1>3. SafeInv /\ OrderInv /\ [Next]_vars =>
         [stray = "no" => \A c \in Client : CallInOrder(c)]_vars
  BY StepInOrder
<1>4. Spec => [][stray = "no" => \A c \in Client : CallInOrder(c)]_vars
  BY <1>1, <1>2, <1>3, SafeInvariance, PTL DEF Spec
<1> QED BY <1>4 DEF PrintedInOrder, CallInOrder

=============================================================================
