----------------------------- MODULE OrderedSet -----------------------------
(***************************************************************************)
(* loop.collection.OrderedSet: a linked list kept in the instance's own    *)
(* table.  link[k] is self[k] for a value k or for k = FIRST; last is      *)
(* self[LAST].  call is the latest call made and result the value it       *)
(* returned.  A start or previous argument that is not given is FIRST in   *)
(* remove and replace (where the code makes it so) and NIL in insert.      *)
(*                                                                         *)
(* remove() of the only value leaves self[LAST] = FIRST where popfront()   *)
(* leaves nil; every other method copes with both.                         *)
(***************************************************************************)
EXTENDS DistinctSeq, FiniteSets

CONSTANT Element

ASSUME ElementAssumption ==
  /\ IsFiniteSet(Element)
  /\ FIRST \notin Element /\ NIL \notin Element /\ FIRST # NIL

VARIABLES link, last, call, result

vars == <<link, last, call, result>>

Key == Element \cup {FIRST}

TypeOK ==
  /\ link \in [Key -> Element \cup {NIL}]
  /\ last \in Key \cup {NIL}
  /\ result \in Element \cup {NIL}

Init ==
  /\ link = [k \in Key |-> NIL]
  /\ last = NIL
  /\ call = <<"new">>
  /\ result = NIL

ContainsKey(k) == link[k] # NIL \/ k = last

(* The keys a walk from start visits: the least set that has start and the *)
(* successor of each of its members.                                       *)
Closed(S) == \A k \in S : link[k] # NIL => link[k] \in S

Walked(start) ==
  {k \in Key : \A S \in SUBSET Key : start \in S /\ Closed(S) => k \in S}

(* previous(element, start); NIL when the walk ends without meeting it. *)
Previous(e, start) ==
  LET found == {k \in Walked(start) : link[k] = e} IN
  IF ContainsKey(e) /\ found # {} THEN CHOOSE k \in found : TRUE ELSE NIL

Refuse == result' = NIL /\ UNCHANGED <<link, last>>

(* The store that ends insert, with the key the value goes after. *)
LinkAfter(e, p) ==
  /\ last' = IF link[p] = NIL THEN e ELSE last
  /\ link' = IF link[p] = NIL THEN [link EXCEPT ![p] = e]
             ELSE [link EXCEPT ![e] = link[p], ![p] = e]
  /\ result' = e

(* Fault: a previous value that is not in the set is taken for none. *)
InsertAnyway(e, p) ==
  \/ /\ ~ContainsKey(e)
     /\ LinkAfter(e, IF p # NIL /\ (p = FIRST \/ ContainsKey(p)) THEN p
                     ELSE IF last = NIL THEN FIRST ELSE last)
  \/ ContainsKey(e) /\ Refuse

Insert(e, p) ==
  \/ /\ ~ContainsKey(e) /\ p = NIL
     /\ LinkAfter(e, IF last = NIL THEN FIRST ELSE last)
  \/ /\ ~ContainsKey(e) /\ p # NIL /\ (p = FIRST \/ ContainsKey(p))
     /\ LinkAfter(e, p)
  \/ /\ ContainsKey(e) \/ (p \notin {NIL, FIRST} /\ ~ContainsKey(p))
     /\ Refuse

(* Fault: the record of the last value does not follow its removal. *)
RemoveValueKeepingLast(e, start) ==
  LET prev == Previous(e, start) IN
  \/ prev = NIL /\ Refuse
  \/ /\ prev # NIL
     /\ link' = [link EXCEPT ![prev] = link[e], ![e] = NIL]
     /\ result' = e /\ UNCHANGED last

RemoveValue(e, start) ==
  LET prev == Previous(e, start) IN
  \/ prev = NIL /\ Refuse
  \/ /\ prev # NIL
     /\ last' = IF last = e THEN prev ELSE last
     /\ link' = IF last = e THEN [link EXCEPT ![prev] = link[e]]
                ELSE [link EXCEPT ![prev] = link[e], ![e] = NIL]
     /\ result' = e

Replace(old, new, start) ==
  LET prev == Previous(old, start) IN
  \/ (prev = NIL \/ ContainsKey(new)) /\ Refuse
  \/ /\ prev # NIL /\ ~ContainsKey(new)
     /\ last' = IF old = last THEN new ELSE last
     /\ link' = IF old = last
                THEN [link EXCEPT ![prev] = new, ![new] = link[old]]
                ELSE [link EXCEPT ![prev] = new, ![new] = link[old], ![old] = NIL]
     /\ result' = old

PushFront(e) ==
  \/ ContainsKey(e) /\ Refuse
  \/ /\ ~ContainsKey(e)
     /\ last' = IF link[FIRST] = NIL THEN e ELSE last
     /\ link' = [link EXCEPT ![e] = link[FIRST], ![FIRST] = e]
     /\ result' = e

PushBack(e) ==
  \/ ContainsKey(e) /\ Refuse
  \/ /\ ~ContainsKey(e)
     /\ link' = [link EXCEPT ![IF last = NIL THEN FIRST ELSE last] = e]
     /\ last' = e
     /\ result' = e

PopFront ==
  LET e == link[FIRST] IN
  \/ /\ e = NIL
     /\ last' = NIL /\ result' = NIL /\ UNCHANGED link
  \/ /\ e # NIL
     /\ link' = IF link[e] = NIL THEN [link EXCEPT ![FIRST] = NIL]
                ELSE [link EXCEPT ![FIRST] = link[e], ![e] = NIL]
     /\ last' = IF link[e] = NIL THEN NIL ELSE last
     /\ result' = e

Next ==
  \/ \E e \in Element, p \in Key \cup {NIL} :
       call' = <<"insert", e, p>> /\ Insert(e, p)
  \/ \E e \in Element, p \in Key :
       call' = <<"remove", e, p>> /\ RemoveValue(e, p)
  \/ \E old, new \in Element, p \in Key :
       call' = <<"replace", old, new, p>> /\ Replace(old, new, p)
  \/ \E e \in Element : call' = <<"pushfront", e>> /\ PushFront(e)
  \/ \E e \in Element : call' = <<"pushback", e>> /\ PushBack(e)
  \/ call' = <<"popfront">> /\ PopFront

Spec == Init /\ [][Next]_vars

(***************************************************************************)
(* The sequence a table stands for.                                        *)
(***************************************************************************)

(* The table is the linked form of s: the values of s are chained in order *)
(* from FIRST, the last one is known, and no other value has a link.       *)
Represents(s) ==
  /\ IF s = <<>> THEN last \in {NIL, FIRST} ELSE last = s[Len(s)]
  /\ \A i \in 0..Len(s) :
       link[KeyAt(s, i)] = IF i < Len(s) THEN s[i + 1] ELSE NIL
  /\ \A k \in Element \ ToSet(s) : link[k] = NIL

Orders ==
  {s \in UNION {[1..n -> Element] : n \in 0..Cardinality(Element)} :
     \A i, j \in DOMAIN s : s[i] = s[j] => i = j}

Order == CHOOSE s \in Orders : Represents(s)

Abstract == INSTANCE AbstractOrderedSet WITH order <- Order

(* Whatever sequence of calls is made, the table is a well-formed list of  *)
(* distinct values, of the types above: no cycle that would hang a walk, no link left behind   *)
(* by a value that was removed (contains would still find it), and the     *)
(* recorded last value is the one the links end at.                        *)
WellLinked == TypeOK /\ \E s \in Orders : Represents(s)

(* A client that only sees its calls and their results cannot tell the     *)
(* table from a sequence: each call has, for its arguments and whatever    *)
(* calls came before it, the effect on the sequence of values and the      *)
(* result that the documentation states (OrderedSet.html, "Methods").      *)
ImplementsSequence == Abstract!ASpec
=============================================================================
