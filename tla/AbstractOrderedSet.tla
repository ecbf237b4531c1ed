------------------------- MODULE AbstractOrderedSet -------------------------
(***************************************************************************)
(* What loop.collection.OrderedSet promises its clients: a sequence of     *)
(* values without repetition, and for each call its effect on that         *)
(* sequence and the value it returns (result, NIL for none).               *)
(***************************************************************************)
EXTENDS DistinctSeq

CONSTANT Element

VARIABLES order, call, result

avars == <<order, call, result>>

AInit == order = <<>> /\ call = <<"new">> /\ result = NIL

AInsert(e, p) ==
  /\ order'  = Inserted(order, e, p)
  /\ result' = IF CanInsert(order, e, p) THEN e ELSE NIL

APushFront(e) == AInsert(e, FIRST)

APushBack(e) == AInsert(e, NIL)

APopFront ==
  /\ order'  = IF order = <<>> THEN <<>> ELSE Tail(order)
  /\ result' = ValueAfter(order, FIRST)

ARemove(e, start) ==
  /\ order'  = Removed(order, e, start)
  /\ result' = IF Found(order, e, start) THEN e ELSE NIL

AReplace(old, new, start) ==
  /\ order'  = Replaced(order, old, new, start)
  /\ result' = IF CanReplace(order, old, new, start) THEN old ELSE NIL

ANext ==
  \/ \E e \in Element, p \in Element \cup {FIRST, NIL} :
       call' = <<"insert", e, p>> /\ AInsert(e, p)
  \/ \E e \in Element, p \in Element \cup {FIRST} :
       call' = <<"remove", e, p>> /\ ARemove(e, p)
  \/ \E old, new \in Element, p \in Element \cup {FIRST} :
       call' = <<"replace", old, new, p>> /\ AReplace(old, new, p)
  \/ \E e \in Element : call' = <<"pushfront", e>> /\ APushFront(e)
  \/ \E e \in Element : call' = <<"pushback", e>> /\ APushBack(e)
  \/ call' = <<"popfront">> /\ APopFront

ASpec == AInit /\ [][ANext]_avars
=============================================================================
