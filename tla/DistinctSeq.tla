---------------------------- MODULE DistinctSeq ----------------------------
(***************************************************************************)
(* Operators on sequences without repetition, the value that an instance   *)
(* of loop.collection.OrderedSet stands for.  Every operator is the effect *)
(* of one method of that class, or of one table access its clients make    *)
(* (running[currentkey] in the scheduler), on the sequence of its values;  *)
(* the run ordered_set shows that the linked table of the class computes   *)
(* them.  A key is a value of the set or FIRST, the key of the table that  *)
(* holds the first value; NIL is Lua's nil, as an argument that was not    *)
(* given and as a result that is not there.                                *)
(***************************************************************************)
EXTENDS Integers, SequencesExt

CONSTANTS FIRST, NIL

NoRepeats(s) == \A i, j \in DOMAIN s : s[i] = s[j] => i = j

Keys(s) == ToSet(s) \cup {FIRST}

(* The position of a key: FIRST sits just before the first value. *)
Pos(s, k) == IF k = FIRST THEN 0 ELSE CHOOSE i \in 1..Len(s) : s[i] = k

KeyAt(s, i) == IF i = 0 THEN FIRST ELSE s[i]

(* self[k]: the value that follows key k. *)
ValueAfter(s, k) ==
  IF k \in Keys(s) /\ Pos(s, k) < Len(s) THEN s[Pos(s, k) + 1] ELSE NIL

(* e is met when the values are walked from key start. *)
Found(s, e, start) ==
  e \in ToSet(s) /\ start \in Keys(s) /\ Pos(s, start) < Pos(s, e)

(* The key that previous(e, start) returns. *)
KeyBefore(s, e, start) ==
  IF Found(s, e, start) THEN KeyAt(s, Pos(s, e) - 1) ELSE NIL

CanInsert(s, e, p) == e \notin ToSet(s) /\ p \in Keys(s) \cup {NIL}

Inserted(s, e, p) ==
  IF ~CanInsert(s, e, p) THEN s
  ELSE IF p = NIL THEN Append(s, e) ELSE InsertAt(s, Pos(s, p) + 1, e)

Removed(s, e, start) ==
  IF Found(s, e, start) THEN RemoveAt(s, Pos(s, e)) ELSE s

CanReplace(s, old, new, start) == Found(s, old, start) /\ new \notin ToSet(s)

Replaced(s, old, new, start) ==
  IF CanReplace(s, old, new, start) THEN ReplaceAt(s, Pos(s, old), new) ELSE s
=============================================================================
