-------------------------- MODULE Scheduler_proofs --------------------------
(***************************************************************************)
(* The lists of the scheduler keep their shape, for every set of routines, *)
(* every choice of delays and clock, and every call a routine or a trap    *)
(* may make.                                                               *)
(***************************************************************************)
EXTENDS IOScheduler, DistinctSeq_proofs, FiniteSetTheorems

(***************************************************************************)
(* The inductive invariant.  NeverInBoth and the part of PlaceKept about   *)
(* currentkey are kept by every operation on the lists; what suspend(),    *)
(* resume() and the removal of a dead routine need is where the routine    *)
(* that is executing stands: not asleep, and if listed after currentkey.   *)
(***************************************************************************)
QueueRecord == [run : Seq(Routine), sleep : Seq(Routine), key : Routine \cup {FIRST}]

WellFormed(q) ==
  /\ q \in QueueRecord
  /\ NoRepeats(q.run) /\ NoRepeats(q.sleep)
  /\ ToSet(q.run) \cap ToSet(q.sleep) = {}
  /\ q.key \in Keys(q.run)

Placed(q, r) ==
  /\ r \in Routine /\ r \notin ToSet(q.sleep)
  /\ r \in ToSet(q.run) => Pos(q.run, q.key) < Pos(q.run, r)
  /\ SelfCalls = {} => r \in ToSet(q.run) /\ Pos(q.run, r) = Pos(q.run, q.key) + 1

Listed(q) == ToSet(q.run) \cup ToSet(q.sleep)

(* start() does not look in sleeping: its coroutine has just been created. *)
Created(q) == \A r \in Listed(q) : status[r] # "new"

IInv ==
  /\ TypeOK
  /\ WellFormed(Queues)
  /\ Created(Queues)
  /\ phase = "routine" => Placed(Queues, current) /\ status[current] # "new"

(***************************************************************************)
(* The operations on the two lists.                                        *)
(***************************************************************************)
(* The lists are sequences without repetition of routines; a routine's     *)
(* position is a natural number.                                           *)
LEMMA Names == FIRST \notin Routine /\ NIL \notin Routine /\ NIL # FIRST
BY SchedulerAssumption

(* The places of the keys of a list.                                       *)
LEMMA Positions ==
  ASSUME NEW q, WellFormed(q)
  PROVE  /\ ToSet(q.run) \subseteq Routine /\ ToSet(q.sleep) \subseteq Routine
         /\ \A k \in Keys(q.run) : Pos(q.run, k) \in 0..Len(q.run) /\ Pos(q.run, k) \in Nat
         /\ \A r \in ToSet(q.run) : Pos(q.run, r) \in 1..Len(q.run)
         /\ \A r, s \in Keys(q.run) : Pos(q.run, r) = Pos(q.run, s) => r = s
         /\ Pos(q.run, FIRST) = 0 /\ Len(q.run) \in Nat
         /\ q.run \in Seq(Routine) /\ q.sleep \in Seq(Routine)
<1>1. q.run \in Seq(Routine) /\ q.sleep \in Seq(Routine) /\ NoRepeats(q.run) /\ NoRepeats(q.sleep)
  BY DEF WellFormed, QueueRecord
<1>2. /\ Pos(q.run, FIRST) = 0 /\ Len(q.run) \in Nat
      /\ \A r \in ToSet(q.run) : Pos(q.run, r) \in 1..Len(q.run) /\ q.run[Pos(q.run, r)] = r
      /\ ToSet(q.run) \subseteq Routine
  BY <1>1, Names, PosFacts
<1>3. ToSet(q.sleep) \subseteq Routine
  BY <1>1, Names, PosFacts
<1>4. ASSUME NEW r \in Keys(q.run), NEW s \in Keys(q.run), Pos(q.run, r) = Pos(q.run, s)
      PROVE  r = s
  <2>1. CASE r \in ToSet(q.run) /\ s \in ToSet(q.run)
    BY <2>1, <1>2, <1>4
  <2>2. CASE r = FIRST \/ s = FIRST
    BY <2>2, <1>2, <1>4 DEF Keys
  <2> QED BY <2>1, <2>2 DEF Keys
<1> QED BY <1>1, <1>2, <1>3, <1>4 DEF Keys

(* previous() of a listed routine is the key just before it.               *)
LEMMA KeyBeforeFacts ==
  ASSUME NEW q, WellFormed(q), NEW r \in ToSet(q.run)
  PROVE  LET before == KeyBefore(q.run, r, FIRST) IN
         /\ before \in Keys(q.run) /\ before # r /\ before \in Routine \cup {FIRST}
         /\ Pos(q.run, before) = Pos(q.run, r) - 1
         /\ Found(q.run, r, before)
<1> DEFINE before == KeyBefore(q.run, r, FIRST)
           i == Pos(q.run, r) - 1
<1>1. Pos(q.run, r) \in 1..Len(q.run) /\ Pos(q.run, FIRST) = 0 /\ r \in Keys(q.run) /\ r # FIRST
  BY Positions, Names DEF Keys
<1>2. Found(q.run, r, FIRST)
  BY <1>1 DEF Found, Keys
<1>3. before = KeyAt(q.run, i)
  BY <1>2 DEF KeyBefore
<1>4. i \in 0..Len(q.run) /\ i < Pos(q.run, r)
  BY <1>1
<1>5. before \in Keys(q.run) /\ Pos(q.run, before) = i
  <2>1. CASE i = 0
    BY <2>1, <1>1, <1>3 DEF KeyAt, Keys
  <2>2. CASE i \in 1..Len(q.run)
    <3>1. before = q.run[i]
      BY <2>2, <1>3 DEF KeyAt
    <3>2. q.run[i] \in ToSet(q.run) /\ Pos(q.run, q.run[i]) = i
      <4>1. q.run \in Seq(Routine) /\ NoRepeats(q.run)
        BY DEF WellFormed, QueueRecord
      <4> HIDE DEF i
      <4> QED BY <2>2, <4>1, Names, PosFacts
    <3> QED BY <3>1, <3>2 DEF Keys
  <2>3. i = 0 \/ i \in 1..Len(q.run)
    BY <1>1
  <2> QED BY <2>1, <2>2, <2>3
<1>6. before # r
  BY <1>4, <1>5
<1>7. Found(q.run, r, before)
  BY <1>4, <1>5 DEF Found
<1>8. before \in Routine \cup {FIRST}
  BY <1>5, Positions DEF Keys
<1> QED BY <1>5, <1>6, <1>7, <1>8

(* register() keeps the lists well formed, wherever the routine is put.    *)
LEMMA RegisteredKeeps ==
  ASSUME NEW q, WellFormed(q), NEW r \in Routine, NEW p
  PROVE  /\ WellFormed(Registered(q, r, p))
         /\ Registered(q, r, p).key = q.key /\ Registered(q, r, p).sleep = q.sleep
         /\ Registered(q, r, p).run =
              IF Accepted(q, r, p) THEN Inserted(q.run, r, p) ELSE q.run
<1> DEFINE t == Registered(q, r, p)
<1>1. q \in QueueRecord /\ q.run \in Seq(Routine) /\ NoRepeats(q.run)
  BY DEF WellFormed, QueueRecord
<1>2. CASE ~Accepted(q, r, p)
  BY <1>2 DEF Registered
<1>3. CASE Accepted(q, r, p)
  <2>1. t = [q EXCEPT !.run = Inserted(q.run, r, p)]
    BY <1>3 DEF Registered
  <2>2. /\ Inserted(q.run, r, p) \in Seq(Routine) /\ NoRepeats(Inserted(q.run, r, p))
        /\ ToSet(Inserted(q.run, r, p)) = ToSet(q.run) \cup {r}
    BY <1>1, <1>3, Names, InsertedFacts DEF Accepted
  <2>3. /\ t \in QueueRecord /\ t.run = Inserted(q.run, r, p)
        /\ t.sleep = q.sleep /\ t.key = q.key
    BY <1>1, <2>1, <2>2 DEF QueueRecord
  <2> HIDE DEF t
  <2>4. r \notin ToSet(q.sleep)
    BY <1>3 DEF Accepted
  <2>5. WellFormed(t)
    BY <2>2, <2>3, <2>4 DEF WellFormed, Keys
  <2> QED BY <2>3, <2>5, <1>3 DEF t
<1> QED BY <1>2, <1>3

(* register() at the end does not move the routine that executes.          *)
LEMMA RegisteredPlaces ==
  ASSUME NEW q, WellFormed(q), NEW r \in Routine, NEW c, Placed(q, c),
         SelfCalls = {} => r # c
  PROVE  Placed(Registered(q, r, NIL), c)
<1> DEFINE t == Registered(q, r, NIL)
<1>1. /\ t.key = q.key /\ t.sleep = q.sleep
      /\ t.run = IF Accepted(q, r, NIL) THEN Inserted(q.run, r, NIL) ELSE q.run
  BY RegisteredKeeps
<1> HIDE DEF t
<1>2. CASE ~Accepted(q, r, NIL)
  BY <1>1, <1>2 DEF Placed, t
<1>3. CASE Accepted(q, r, NIL)
  <2>1. t.run = Inserted(q.run, r, NIL) /\ CanInsert(q.run, r, NIL)
    BY <1>1, <1>3 DEF Accepted
  <2>2. q.run \in Seq(Routine) /\ NoRepeats(q.run) /\ q.key \in Keys(q.run)
    BY DEF WellFormed, QueueRecord
  <2>3. /\ ToSet(t.run) = ToSet(q.run) \cup {r}
        /\ \A k \in Keys(q.run) : Pos(t.run, k) = Pos(q.run, k)
        /\ Pos(t.run, r) = Len(q.run) + 1
    BY <2>1, <2>2, Names, InsertedFacts
  <2>4. Pos(q.run, q.key) \in 0..Len(q.run) /\ Len(q.run) \in Nat
    BY <2>2, Positions
  <2>5. c \in ToSet(q.run) => c \in Keys(q.run)
    BY DEF Keys
  <2>6. c \in ToSet(t.run) => Pos(t.run, t.key) < Pos(t.run, c)
    <3>1. CASE c \in ToSet(q.run)
      BY <3>1, <1>1, <2>2, <2>3, <2>5 DEF Placed
    <3>2. CASE c = r
      BY <3>2, <1>1, <2>2, <2>3, <2>4
    <3> QED BY <3>1, <3>2, <2>3
  <2>7. SelfCalls = {} => c \in ToSet(t.run) /\ Pos(t.run, c) = Pos(t.run, t.key) + 1
    BY <1>1, <2>2, <2>3, <2>5 DEF Placed
  <2> QED BY <1>1, <2>6, <2>7 DEF Placed, t
<1> QED BY <1>2, <1>3

(* Taking a routine out of running keeps the lists well formed as long as  *)
(* it is not the key the traversal continues from.                         *)
LEMMA RemovalKeeps ==
  ASSUME NEW q, WellFormed(q), NEW r \in Routine, NEW start,
         NEW k \in Keys(q.run), Found(q.run, r, start) => k # r,
         NEW t \in QueueRecord,
         t.run = Removed(q.run, r, start), t.sleep = q.sleep, t.key = k
  PROVE  WellFormed(t)
<1>1. q.run \in Seq(Routine) /\ NoRepeats(q.run)
  BY DEF WellFormed, QueueRecord
<1> DEFINE u == Removed(q.run, r, start)
<1>2. /\ NoRepeats(u)
      /\ ToSet(u) = IF Found(q.run, r, start) THEN ToSet(q.run) \ {r} ELSE ToSet(q.run)
  <2>1. NoRepeats(u)
    BY ONLY <1>1, r \in Routine, Names, RemovedFacts
  <2>2. CASE Found(q.run, r, start)
    <3>1. ToSet(u) = ToSet(q.run) \ {r}
      BY ONLY <1>1, <2>2, r \in Routine, Names, RemovedFacts
    <3> QED BY <2>1, <3>1, <2>2
  <2>3. CASE ~Found(q.run, r, start)
    BY <2>3, <1>1 DEF Removed
  <2> QED BY <2>2, <2>3
<1> QED BY <1>2 DEF WellFormed, Keys

(* remove() keeps the lists well formed: when it takes currentkey out, the *)
(* key before it becomes currentkey.                                       *)
LEMMA DroppedKeeps ==
  ASSUME NEW q, WellFormed(q), NEW r \in Routine
  PROVE  WellFormed(Dropped(q, r))
<1> DEFINE t == Dropped(q, r)
           before == KeyBefore(q.run, r, FIRST)
<1>0. /\ q \in QueueRecord /\ q.run \in Seq(Routine) /\ NoRepeats(q.run)
      /\ q.sleep \in Seq(Routine) /\ NoRepeats(q.sleep) /\ q.key \in Keys(q.run)
  BY DEF WellFormed, QueueRecord
<1>1. \A start : Removed(q.run, r, start) \in Seq(Routine)
  BY <1>0, Names, RemovedFacts
<1>2. CASE r = current
  <2>1. t = [q EXCEPT !.run = Removed(q.run, r, q.key)]
    BY <1>2 DEF Dropped
  <2>2. t \in QueueRecord /\ t.run = Removed(q.run, r, q.key) /\ t.sleep = q.sleep /\ t.key = q.key
    BY <1>0, <1>1, <2>1 DEF QueueRecord
  <2> HIDE DEF t
  <2>3. Found(q.run, r, q.key) => q.key # r
    <3>1. q.key \in Keys(q.run) => Pos(q.run, q.key) \in Nat
      BY ONLY WellFormed(q), Positions, Zenon
    <3> QED BY <3>1, <1>0 DEF Found
  <2>4. WellFormed(t)
    BY <2>2, <2>3, <1>0, RemovalKeeps
  <2> QED BY <2>4 DEF t
<1>3. CASE r # current /\ r = q.key
  <2>1. t = [q EXCEPT !.key = before, !.run = Removed(q.run, r, before)]
    BY <1>3 DEF Dropped
  <2>2. before \in Keys(q.run) /\ before # r /\ before \in Routine \cup {FIRST}
    BY <1>0, <1>3, Names, KeyBeforeFacts DEF Keys
  <2>3. t \in QueueRecord /\ t.run = Removed(q.run, r, before) /\ t.sleep = q.sleep /\ t.key = before
    BY <1>0, <1>1, <2>1, <2>2 DEF QueueRecord
  <2> HIDE DEF t, before
  <2>4. WellFormed(t)
    BY <2>2, <2>3, RemovalKeeps
  <2> QED BY <2>4 DEF t
<1>4. CASE r \notin {current, q.key} /\ r \in ToSet(q.run)
  <2>1. t = [q EXCEPT !.run = Removed(q.run, r, FIRST)]
    BY <1>4 DEF Dropped
  <2>2. t \in QueueRecord /\ t.run = Removed(q.run, r, FIRST) /\ t.sleep = q.sleep /\ t.key = q.key
    BY <1>0, <1>1, <2>1 DEF QueueRecord
  <2> HIDE DEF t
  <2>3. WellFormed(t)
    BY <2>2, <1>4, <1>0, RemovalKeeps
  <2> QED BY <2>3 DEF t
<1>5. CASE r \notin {current, q.key} /\ r \notin ToSet(q.run)
  <2>1. t = [q EXCEPT !.sleep = Removed(q.sleep, r, FIRST)]
    BY <1>5 DEF Dropped
  <2>2. /\ Removed(q.sleep, r, FIRST) \in Seq(Routine) /\ NoRepeats(Removed(q.sleep, r, FIRST))
        /\ ToSet(Removed(q.sleep, r, FIRST)) \subseteq ToSet(q.sleep)
    BY <1>0, Names, RemovedFacts
  <2>3. t \in QueueRecord /\ t.run = q.run /\ t.sleep = Removed(q.sleep, r, FIRST) /\ t.key = q.key
    BY <1>0, <2>1, <2>2 DEF QueueRecord
  <2> HIDE DEF t
  <2>4. WellFormed(t)
    BY <2>2, <2>3 DEF WellFormed
  <2> QED BY <2>4 DEF t
<1> QED BY <1>2, <1>3, <1>4, <1>5

(* remove() of another routine does not change which one is after          *)
(* currentkey; remove() of the one executing takes it out of both lists.   *)
LEMMA DroppedPlaces ==
  ASSUME NEW q, WellFormed(q), NEW r \in Routine, Placed(q, current),
         SelfCalls = {} => r # current
  PROVE  Placed(Dropped(q, r), current)
<1> DEFINE t == Dropped(q, r)
           c == current
           before == KeyBefore(q.run, r, FIRST)
<1>0. /\ q \in QueueRecord /\ q.run \in Seq(Routine) /\ NoRepeats(q.run)
      /\ q.sleep \in Seq(Routine) /\ NoRepeats(q.sleep) /\ q.key \in Keys(q.run)
  BY DEF WellFormed, QueueRecord
<1>1. /\ \A k \in Keys(q.run) : Pos(q.run, k) \in Nat
      /\ \A k \in ToSet(q.run) : 0 < Pos(q.run, k)
      /\ Pos(q.run, FIRST) = 0
  <2>1. WellFormed(q)
    OBVIOUS
  <2>2. /\ \A k \in Keys(q.run) : Pos(q.run, k) \in Nat
        /\ \A k \in ToSet(q.run) : Pos(q.run, k) \in 1..Len(q.run)
        /\ Pos(q.run, FIRST) = 0
    BY ONLY <2>1, Positions, Zenon
  <2> QED BY <2>2
<1>2. CASE r = c
  <2>1. t = [q EXCEPT !.run = Removed(q.run, r, q.key)]
    BY <1>2 DEF Dropped
  <2>2. t.run = Removed(q.run, r, q.key) /\ t.sleep = q.sleep /\ t.key = q.key
    BY <1>0, <2>1 DEF QueueRecord
  <2>3. r \notin ToSet(t.run)
    <3>1. r \in ToSet(q.run) => Found(q.run, r, q.key)
      BY <1>2, <1>0 DEF Placed, Found
    <3> QED BY <3>1, <2>2, <1>0, Names, RemovedFacts
  <2> QED BY <2>2, <2>3, <1>2 DEF Placed
<1>3. CASE r # c /\ r = q.key
  <2>1. t = [q EXCEPT !.key = before, !.run = Removed(q.run, r, before)]
    BY <1>3 DEF Dropped
  <2>2. /\ before \in Keys(q.run) /\ before # r /\ Pos(q.run, before) = Pos(q.run, r) - 1
        /\ Found(q.run, r, before)
    BY <1>0, <1>3, Names, KeyBeforeFacts DEF Keys
  <2>3. t.run = Removed(q.run, r, before) /\ t.sleep = q.sleep /\ t.key = before
    BY <1>0, <2>1 DEF QueueRecord
  <2> HIDE DEF t, before
  <2>4. /\ ToSet(t.run) = ToSet(q.run) \ {r}
        /\ \A k \in Keys(q.run) \ {r} : Pos(t.run, k) =
             IF Pos(q.run, k) < Pos(q.run, r) THEN Pos(q.run, k) ELSE Pos(q.run, k) - 1
    BY <2>2, <2>3, <1>0, Names, RemovedFacts
  <2>5. Pos(t.run, t.key) = Pos(q.run, r) - 1 /\ Pos(q.run, r) \in Nat
    BY <2>2, <2>3, <2>4, <1>1, <1>0, <1>3
  <2>6. ASSUME c \in ToSet(q.run)
        PROVE  /\ Pos(t.run, c) = Pos(q.run, c) - 1
               /\ Pos(q.run, r) < Pos(q.run, c) /\ Pos(q.run, c) \in Nat
    <3>1. c \in Keys(q.run) \ {r} /\ Pos(q.run, r) < Pos(q.run, c)
      BY <2>6, <1>3 DEF Placed, Keys
    <3>2. Pos(q.run, c) \in Nat /\ ~(Pos(q.run, c) < Pos(q.run, r))
      BY <3>1, <1>1, <2>5
    <3> QED BY <3>1, <3>2, <2>4
  <2>7. c \in ToSet(t.run) <=> c \in ToSet(q.run)
    BY <2>4, <1>3
  <2>8. c \in ToSet(t.run) => Pos(t.run, t.key) < Pos(t.run, c)
    BY <2>5, <2>6, <2>7
  <2>9. SelfCalls = {} => c \in ToSet(t.run) /\ Pos(t.run, c) = Pos(t.run, t.key) + 1
    BY <2>5, <2>6, <2>7, <1>3 DEF Placed
  <2> QED BY <2>3, <2>8, <2>9 DEF Placed, t
<1>4. CASE r \notin {c, q.key} /\ r \in ToSet(q.run)
  <2>1. t = [q EXCEPT !.run = Removed(q.run, r, FIRST)]
    BY <1>4 DEF Dropped
  <2>2. t.run = Removed(q.run, r, FIRST) /\ t.sleep = q.sleep /\ t.key = q.key
    BY <1>0, <2>1 DEF QueueRecord
  <2>3. Found(q.run, r, FIRST)
    BY <1>4, <1>1 DEF Found, Keys
  <2> HIDE DEF t
  <2>4. /\ ToSet(t.run) = ToSet(q.run) \ {r}
        /\ \A k \in Keys(q.run) \ {r} : Pos(t.run, k) =
             IF Pos(q.run, k) < Pos(q.run, r) THEN Pos(q.run, k) ELSE Pos(q.run, k) - 1
    BY <2>2, <2>3, <1>0, Names, RemovedFacts
  <2>5. c \in ToSet(t.run) <=> c \in ToSet(q.run)
    BY <2>4, <1>4
  <2>6. ASSUME c \in ToSet(q.run)
        PROVE  /\ Pos(t.run, t.key) < Pos(t.run, c)
               /\ SelfCalls = {} => Pos(t.run, c) = Pos(t.run, t.key) + 1
    <3>1. c \in Keys(q.run) \ {r} /\ q.key \in Keys(q.run) \ {r} /\ r \in Keys(q.run)
      BY <2>6, <1>4, <1>0 DEF Keys
    <3>2. /\ Pos(q.run, c) \in Nat /\ Pos(q.run, q.key) \in Nat /\ Pos(q.run, r) \in Nat
          /\ Pos(q.run, c) # Pos(q.run, r) /\ Pos(q.run, q.key) # Pos(q.run, r)
      BY <3>1, <1>1, Positions
    <3>3. Pos(q.run, q.key) < Pos(q.run, c)
      BY <2>6 DEF Placed
    <3>4. SelfCalls = {} => Pos(q.run, c) = Pos(q.run, q.key) + 1
      BY DEF Placed
    <3>5. Pos(t.run, c) =
            IF Pos(q.run, c) < Pos(q.run, r) THEN Pos(q.run, c) ELSE Pos(q.run, c) - 1
      BY <3>1, <2>4
    <3>6. Pos(t.run, t.key) = IF Pos(q.run, q.key) < Pos(q.run, r)
                              THEN Pos(q.run, q.key) ELSE Pos(q.run, q.key) - 1
      BY <3>1, <2>2, <2>4
    <3> QED BY <3>2, <3>3, <3>4, <3>5, <3>6
  <2> QED BY <2>2, <2>5, <2>6 DEF Placed, t
<1>5. CASE r \notin {c, q.key} /\ r \notin ToSet(q.run)
  <2>1. t = [q EXCEPT !.sleep = Removed(q.sleep, r, FIRST)]
    BY <1>5 DEF Dropped
  <2>2. t.run = q.run /\ t.sleep = Removed(q.sleep, r, FIRST) /\ t.key = q.key
    BY <1>0, <2>1 DEF QueueRecord
  <2>3. ToSet(t.sleep) \subseteq ToSet(q.sleep)
    BY <2>2, <1>0, Names, RemovedFacts
  <2> QED BY <2>2, <2>3 DEF Placed
<1> QED BY <1>2, <1>3, <1>4, <1>5

(* resume() keeps the lists well formed.                                   *)
LEMMA AdvancedKeeps ==
  ASSUME NEW q, WellFormed(q), NEW r \in Routine
  PROVE  WellFormed(Advanced(q, r))
<1>1. WellFormed(Registered(q, r, current)) 
  BY RegisteredKeeps
<1>2. WellFormed(Registered(Dropped(q, r), r, current))
  BY DroppedKeeps, RegisteredKeeps
<1> QED BY <1>1, <1>2 DEF Advanced

(* An operation lists no other routine than the one it names.              *)
LEMMA ListedFacts ==
  ASSUME NEW q, WellFormed(q), NEW r \in Routine, NEW p
  PROVE  /\ Listed(Registered(q, r, p)) \subseteq Listed(q) \cup {r}
         /\ Listed(Dropped(q, r)) \subseteq Listed(q)
         /\ Listed(Advanced(q, r)) \subseteq Listed(q) \cup {r}
<1>1. ASSUME NEW u, WellFormed(u), NEW k
      PROVE  Listed(Registered(u, r, k)) \subseteq Listed(u) \cup {r}
  <2>1. /\ Registered(u, r, k).sleep = u.sleep
        /\ Registered(u, r, k).run =
             IF Accepted(u, r, k) THEN Inserted(u.run, r, k) ELSE u.run
    BY <1>1, RegisteredKeeps
  <2>2. u.run \in Seq(Routine) /\ NoRepeats(u.run)
    BY <1>1 DEF WellFormed, QueueRecord
  <2>3. ToSet(Inserted(u.run, r, k)) \subseteq ToSet(u.run) \cup {r}
    BY <2>2, Names, InsertedFacts
  <2> QED BY <2>1, <2>3 DEF Listed
<1>2. Listed(Dropped(q, r)) \subseteq Listed(q)
  <2>1. /\ q \in QueueRecord
        /\ q.run \in Seq(Routine) /\ NoRepeats(q.run)
        /\ q.sleep \in Seq(Routine) /\ NoRepeats(q.sleep)
    BY DEF WellFormed, QueueRecord
  <2>2. ASSUME NEW start
        PROVE  /\ ToSet(Removed(q.run, r, start)) \subseteq ToSet(q.run)
               /\ ToSet(Removed(q.sleep, r, start)) \subseteq ToSet(q.sleep)
    BY <2>1, Names, RemovedFacts
  <2>3. \/ \E k : Dropped(q, r) = [q EXCEPT !.run = Removed(q.run, r, k)]
        \/ \E k, j : Dropped(q, r) = [q EXCEPT !.key = j, !.run = Removed(q.run, r, k)]
        \/ Dropped(q, r) = [q EXCEPT !.sleep = Removed(q.sleep, r, FIRST)]
    <3>1. CASE r = current
      BY <3>1 DEF Dropped
    <3>2. CASE r # current /\ r = q.key
      BY <3>2 DEF Dropped
    <3>3. CASE r \notin {current, q.key}
      BY <3>3 DEF Dropped
    <3> QED BY <3>1, <3>2, <3>3
  <2> QED BY <2>1, <2>2, <2>3 DEF Listed, QueueRecord
<1>3. Listed(Advanced(q, r)) \subseteq Listed(q) \cup {r}
  <2>1. Listed(Registered(q, r, current)) \subseteq Listed(q) \cup {r}
    BY <1>1
  <2>2. Listed(Registered(Dropped(q, r), r, current)) \subseteq Listed(Dropped(q, r)) \cup {r}
    BY <1>1, DroppedKeeps
  <2> QED BY <2>1, <2>2, <1>2 DEF Advanced
<1> QED BY <1>1, <1>2, <1>3

(***************************************************************************)
(* The steps.                                                              *)
(***************************************************************************)
(* Putting back well-formed lists keeps the fields that hold them typed.   *)
LEMMA SetQueuesFacts ==
  ASSUME TypeOK, NEW q, WellFormed(q), SetQueues(q)
  PROVE  /\ running' \in Seq(Routine) /\ sleeping' \in Seq(Routine)
         /\ currentkey' \in Routine \cup {FIRST}
         /\ wake' \in [Routine -> Nat] /\ due' \in [Routine -> Nat]
         /\ Queues' = q
<1>1. q \in QueueRecord
  BY DEF WellFormed
<1>2. q = [run |-> q.run, sleep |-> q.sleep, key |-> q.key]
  BY <1>1 DEF QueueRecord
<1>3. Queues' = q
  BY <1>2 DEF Queues, SetQueues
<1>4. wake' \in [Routine -> Nat] /\ due' \in [Routine -> Nat]
  BY DEF SetQueues, Priorities, TypeOK
<1> QED BY <1>1, <1>3, <1>4 DEF QueueRecord, SetQueues

(* The lists the class keeps are well formed exactly when its fields are.  *)
LEMMA WellFormedQueues ==
  ASSUME NEW run, NEW sleep, NEW key
  PROVE  WellFormed([run |-> run, sleep |-> sleep, key |-> key]) <=>
           /\ run \in Seq(Routine) /\ sleep \in Seq(Routine) /\ key \in Routine \cup {FIRST}
           /\ NoRepeats(run) /\ NoRepeats(sleep)
           /\ ToSet(run) \cap ToSet(sleep) = {}
           /\ key \in Keys(run)
BY DEF WellFormed, QueueRecord

(* Resuming the successor of a key, or ending the cycle.                   *)
LEMMA ResumeAfterKeeps ==
  ASSUME TypeOK, NEW run, NEW key,
         WellFormed([run |-> run, sleep |-> sleeping, key |-> key]),
         ResumeAfter(run, key), running' = run, sleeping' = sleeping
  PROVE  /\ current' \in Maybe(Routine) /\ currentkey' \in Routine \cup {FIRST}
         /\ resumed' \in BOOLEAN /\ phase' \in {"routine", "stepped"}
         /\ served' \subseteq Routine /\ handoff' \in Maybe(Routine)
         /\ WellFormed(Queues')
         /\ phase' = "routine" => Placed(Queues', current') /\ current' \in ToSet(run)
         /\ Listed(Queues') = ToSet(run) \cup ToSet(sleeping)
<1> DEFINE q == [run |-> run, sleep |-> sleeping, key |-> key]
           next == ValueAfter(run, key)
<1>1. /\ run \in Seq(Routine) /\ sleeping \in Seq(Routine) /\ key \in Routine \cup {FIRST}
      /\ NoRepeats(run) /\ NoRepeats(sleeping)
      /\ ToSet(run) \cap ToSet(sleeping) = {}
      /\ key \in Keys(run)
  BY WellFormedQueues
<1>2. Pos(run, key) \in 0..Len(run) /\ Len(run) \in Nat
  BY <1>1, Names, PosFacts DEF Keys
<1>3. CASE next # NIL
  <2>1. /\ current' = next /\ currentkey' = key /\ resumed' = TRUE /\ phase' = "routine"
        /\ served' = served \cup {next} /\ handoff' = NIL
    BY <1>3 DEF ResumeAfter
  <2>2. Pos(run, key) < Len(run) /\ next = run[Pos(run, key) + 1]
    BY <1>3 DEF ValueAfter
  <2>3. Pos(run, key) + 1 \in 1..Len(run)
    BY <1>2, <2>2
  <2>4. next \in ToSet(run) /\ Pos(run, next) = Pos(run, key) + 1 /\ next \in Routine
    <3>1. \A i \in 1..Len(run) : run[i] \in ToSet(run) /\ Pos(run, run[i]) = i
      BY <1>1, Names, PosFacts
    <3>2. ToSet(run) \subseteq Routine
      BY <1>1, Names, PosFacts
    <3> QED BY <3>1, <3>2, <2>2, <2>3
  <2>5. Queues' = q
    BY <2>1 DEF Queues
  <2> HIDE DEF next
  <2>6. Placed(q, next)
    <3>1. q.run = run /\ q.sleep = sleeping /\ q.key = key
      OBVIOUS
    <3>2. next \notin ToSet(sleeping)
      BY <1>1, <2>4
    <3>3. Pos(run, key) < Pos(run, next)
      BY <2>4, <1>2
    <3> HIDE DEF q
    <3> QED BY <3>1, <3>2, <3>3, <2>4 DEF Placed
  <2>7. Listed(q) = ToSet(run) \cup ToSet(sleeping)
    BY DEF Listed
  <2> HIDE DEF q
  <2> QED BY <2>1, <2>4, <2>5, <2>6, <2>7, <1>1 DEF q, Maybe, TypeOK
<1>4. CASE next = NIL
  <2>1. /\ current' = NIL /\ currentkey' = FIRST /\ phase' = "stepped" /\ handoff' = NIL
        /\ resumed' = resumed /\ served' = served
    BY <1>4 DEF ResumeAfter
  <2>2. Queues' = [run |-> run, sleep |-> sleeping, key |-> FIRST]
    BY <2>1 DEF Queues
  <2>3. WellFormed([run |-> run, sleep |-> sleeping, key |-> FIRST])
    BY <1>1, WellFormedQueues DEF Keys
  <2>4. Listed(Queues') = ToSet(run) \cup ToSet(sleeping)
    BY <2>2 DEF Listed
  <2> QED BY <2>1, <2>2, <2>3, <2>4 DEF Maybe, TypeOK
<1> QED BY <1>3, <1>4

(* What the invariant says of the fields.                                  *)
LEMMA InvariantFacts ==
  ASSUME IInv
  PROVE  /\ running \in Seq(Routine) /\ sleeping \in Seq(Routine)
         /\ NoRepeats(running) /\ NoRepeats(sleeping)
         /\ ToSet(running) \cap ToSet(sleeping) = {}
         /\ currentkey \in Keys(running) /\ currentkey \in Routine \cup {FIRST}
BY WellFormedQueues DEF IInv, Queues

(* The key traversal continues from outlives the removal of the routine    *)
(* that is executing, or has just executed.                                *)
LEMMA BuriedKeeps ==
  ASSUME IInv, NEW c \in Routine
  PROVE  LET run == Removed(running, c, currentkey) IN
         /\ WellFormed([run |-> run, sleep |-> sleeping, key |-> currentkey])
         /\ ToSet(run) \subseteq ToSet(running)
         /\ Placed(Queues, c) => c \notin ToSet(run)
<1> DEFINE run == Removed(running, c, currentkey)
           t == [run |-> run, sleep |-> sleeping, key |-> currentkey]
<1>1. /\ running \in Seq(Routine) /\ sleeping \in Seq(Routine)
      /\ NoRepeats(running) /\ NoRepeats(sleeping)
      /\ ToSet(running) \cap ToSet(sleeping) = {}
      /\ currentkey \in Keys(running) /\ currentkey \in Routine \cup {FIRST}
  BY InvariantFacts
<1>2. /\ run \in Seq(Routine) /\ NoRepeats(run)
      /\ ToSet(run) = IF Found(running, c, currentkey) THEN ToSet(running) \ {c} ELSE ToSet(running)
  BY <1>1, Names, RemovedFacts
<1>3. Found(running, c, currentkey) => c # currentkey
  <2>1. Pos(running, currentkey) \in Nat
    BY <1>1, Names, PosFacts DEF Keys
  <2> QED BY <2>1 DEF Found
<1>4. Placed(Queues, c) /\ c \in ToSet(running) => Found(running, c, currentkey)
  BY <1>1 DEF Placed, Queues, Found
<1>5. WellFormed(t)
  BY <1>1, <1>2, <1>3, WellFormedQueues DEF Keys
<1> QED BY <1>2, <1>4, <1>5

(* wakeupall moves the sleepers at the head of their list to running.      *)
LEMMA WakeUpKeeps ==
  ASSUME IInv, WakeUpAll
  PROVE  IInv'
<1>1. /\ running \in Seq(Routine) /\ sleeping \in Seq(Routine)
      /\ NoRepeats(running) /\ NoRepeats(sleeping)
      /\ ToSet(running) \cap ToSet(sleeping) = {}
      /\ currentkey \in Keys(running) /\ currentkey \in Routine \cup {FIRST}
  BY InvariantFacts
<1>2. PICK n \in 0..Len(sleeping) :
        /\ running' = running \o SubSeq(sleeping, 1, n)
        /\ sleeping' = SubSeq(sleeping, n + 1, Len(sleeping))
        /\ wake' = Priorities(sleeping', wake) /\ due' = Priorities(sleeping', due)
  BY DEF WakeUpAll
<1> DEFINE awake == SubSeq(sleeping, 1, n)
           rest == SubSeq(sleeping, n + 1, Len(sleeping))
<1>3. /\ awake \in Seq(Routine) /\ NoRepeats(awake)
      /\ rest \in Seq(Routine) /\ NoRepeats(rest)
      /\ ToSet(awake) \cap ToSet(rest) = {}
      /\ ToSet(awake) \cup ToSet(rest) = ToSet(sleeping)
  BY <1>1, Names, SplitFacts
<1> HIDE DEF awake, rest
<1>4. /\ running \o awake \in Seq(Routine) /\ NoRepeats(running \o awake)
      /\ ToSet(running \o awake) = ToSet(running) \cup ToSet(awake)
  <2>1. ToSet(running) \cap ToSet(awake) = {}
    BY <1>1, <1>3
  <2> QED BY <1>1, <1>3, <2>1, Names, JoinFacts
<1>5. running' = running \o awake /\ sleeping' = rest
  BY <1>2 DEF awake, rest
<1>6. /\ currentkey' = currentkey /\ phase' = "cycle" /\ resumed' = FALSE /\ served' = {}
      /\ woken' \in BOOLEAN
      /\ current' = current /\ halted' = halted /\ status' = status /\ clock' = clock
      /\ limit' = limit /\ parked' = parked /\ handoff' = handoff
  BY DEF WakeUpAll, SomeoneSleeps
<1>7. WellFormed(Queues')
  <2>1. ToSet(running \o awake) \cap ToSet(rest) = {}
    BY <1>1, <1>3, <1>4
  <2>2. currentkey \in Keys(running \o awake)
    BY <1>1, <1>4 DEF Keys
  <2>3. Queues' = [run |-> running \o awake, sleep |-> rest, key |-> currentkey]
    BY <1>5, <1>6 DEF Queues
  <2> QED BY <2>1, <2>2, <2>3, <1>1, <1>3, <1>4, WellFormedQueues
<1>10. Created(Queues)'
  <2>1. ToSet(running') \cup ToSet(sleeping') = ToSet(running) \cup ToSet(sleeping)
    BY <1>3, <1>4, <1>5
  <2> QED BY <2>1, <1>6 DEF Created, Listed, Queues, IInv
<1>8. wake' \in [Routine -> Nat] /\ due' \in [Routine -> Nat]
  BY <1>2 DEF Priorities, IInv, TypeOK
<1>9. TypeOK'
  BY <1>1, <1>3, <1>4, <1>5, <1>6, <1>8 DEF IInv, TypeOK
<1> QED BY <1>6, <1>7, <1>9, <1>10 DEF IInv

(* register(), remove() and the calls that change no list.                 *)
LEMMA CallsKeep ==
  ASSUME IInv
  PROVE  /\ \A r \in Routine : Register(r) \/ Drop(r) => IInv'
         /\ Halt => IInv'
<1>0. TypeOK /\ WellFormed(Queues) /\ Created(Queues)
  BY DEF IInv
<1>1. ASSUME NEW r \in Routine, Register(r) PROVE IInv'
  <2> DEFINE q == Registered(Queues, r, NIL)
  <2>1. /\ SetQueues(q) /\ MayName("register", r)
        /\ status' = [status EXCEPT ![r] = "live"] /\ parked' = parked \ {r}
        /\ current' = current /\ halted' = halted /\ phase' = phase /\ woken' = woken
        /\ resumed' = resumed /\ clock' = clock /\ limit' = limit /\ served' = served
        /\ handoff' = handoff
    BY <1>1 DEF Register
  <2>2. WellFormed(q) /\ Listed(q) \subseteq Listed(Queues) \cup {r}
    BY <1>0, RegisteredKeeps, ListedFacts
  <2>3. phase = "routine" => Placed(q, current)
    <3>1. SelfCalls = {} => r # current
      BY <2>1 DEF MayName
    <3> QED BY <3>1, <1>0, RegisteredPlaces DEF IInv
  <2> HIDE DEF q
  <2>4. /\ running' \in Seq(Routine) /\ sleeping' \in Seq(Routine)
        /\ currentkey' \in Routine \cup {FIRST}
        /\ wake' \in [Routine -> Nat] /\ due' \in [Routine -> Nat]
        /\ Queues' = q
    BY <1>0, <2>1, <2>2, SetQueuesFacts
  <2>5. TypeOK'
    BY <1>0, <2>1, <2>4 DEF TypeOK
  <2>6. ASSUME NEW c \in Routine, status'[c] = "new" PROVE status[c] = "new" /\ c # r
    BY <2>6, <1>0, <2>1 DEF TypeOK
  <2>7. Created(Queues)'
    <3> SUFFICES ASSUME NEW c \in Listed(q), status'[c] = "new" PROVE FALSE
      BY <2>4 DEF Created
    <3>1. c \in Routine
      BY <2>2, Positions DEF Listed
    <3> QED BY <3>1, <2>2, <2>6, <1>0 DEF Created
  <2>8. phase' = "routine" => Placed(Queues', current') /\ status'[current'] # "new"
    <3>1. phase = "routine" => current \in Routine /\ status[current] # "new"
      BY DEF IInv, Placed
    <3> QED BY <3>1, <2>1, <2>3, <2>4, <2>6
  <2> QED BY <2>2, <2>4, <2>5, <2>7, <2>8 DEF IInv
<1>2. ASSUME NEW r \in Routine, Drop(r) PROVE IInv'
  <2> DEFINE q == Dropped(Queues, r)
  <2>1. /\ SetQueues(q) /\ MayName("remove", r)
        /\ status' = status /\ parked' = parked \cup {r}
        /\ current' = current /\ halted' = halted /\ phase' = phase /\ woken' = woken
        /\ resumed' = resumed /\ clock' = clock /\ limit' = limit /\ served' = served
        /\ handoff' = handoff
    BY <1>2 DEF Drop
  <2>2. WellFormed(q) /\ Listed(q) \subseteq Listed(Queues)
    BY <1>0, DroppedKeeps, ListedFacts
  <2>3. phase = "routine" => Placed(q, current)
    <3>1. SelfCalls = {} => r # current
      BY <2>1 DEF MayName
    <3> QED BY <3>1, <1>0, DroppedPlaces DEF IInv
  <2> HIDE DEF q
  <2>4. /\ running' \in Seq(Routine) /\ sleeping' \in Seq(Routine)
        /\ currentkey' \in Routine \cup {FIRST}
        /\ wake' \in [Routine -> Nat] /\ due' \in [Routine -> Nat]
        /\ Queues' = q
    BY <1>0, <2>1, <2>2, SetQueuesFacts
  <2>5. TypeOK'
    BY <1>0, <2>1, <2>4 DEF TypeOK
  <2>7. Created(Queues)'
    BY <2>1, <2>2, <2>4, <1>0 DEF Created
  <2> QED BY <2>1, <2>2, <2>3, <2>4, <2>5, <2>7 DEF IInv
<1>3. ASSUME Halt PROVE IInv'
  BY <1>3 DEF IInv, TypeOK, Halt, Queues, WellFormed, Created, Placed, lists, history
<1> QED BY <1>1, <1>2, <1>3

(* A routine gives control back: wherever it goes, the key the traversal   *)
(* continues from stays listed.                                            *)
LEMMA EndTurnFacts ==
  ASSUME IInv, EndTurn
  PROVE  /\ current \in Routine /\ Placed(Queues, current) /\ status[current] # "new"
         /\ phase' = "cycle" /\ current' = current /\ halted' = halted
         /\ woken' = woken /\ resumed' = resumed /\ clock' = clock /\ limit' = limit
         /\ served' = served
         /\ TypeOK /\ WellFormed(Queues) /\ Created(Queues)
BY DEF EndTurn, IInv, Placed

(* suspend(), with a time or without.                                      *)
LEMMA SuspendKeeps ==
  ASSUME IInv
  PROVE  (\E d \in Delays : Suspend(d)) \/ Park => IInv'
<1> DEFINE run == Removed(running, current, currentkey)
<1>0. /\ running \in Seq(Routine) /\ sleeping \in Seq(Routine)
      /\ NoRepeats(running) /\ NoRepeats(sleeping)
      /\ ToSet(running) \cap ToSet(sleeping) = {}
      /\ currentkey \in Keys(running) /\ currentkey \in Routine \cup {FIRST}
  BY InvariantFacts
<1>1. ASSUME EndTurn
      PROVE  /\ WellFormed([run |-> run, sleep |-> sleeping, key |-> currentkey])
             /\ ToSet(run) \subseteq ToSet(running) /\ current \notin ToSet(run)
             /\ run \in Seq(Routine) /\ NoRepeats(run) /\ currentkey \in Keys(run)
  <2>1. current \in Routine /\ Placed(Queues, current)
    BY <1>1, EndTurnFacts
  <2>2. /\ WellFormed([run |-> run, sleep |-> sleeping, key |-> currentkey])
        /\ ToSet(run) \subseteq ToSet(running) /\ current \notin ToSet(run)
    BY <2>1, BuriedKeeps
  <2> QED BY <2>2, WellFormedQueues
<1> HIDE DEF run
<1>2. ASSUME NEW d \in Delays, Suspend(d) PROVE IInv'
  <2> DEFINE t == Seconds + d
  <2>1. /\ EndTurn /\ running' = run
        /\ wake' = [wake EXCEPT ![current] = t]
        /\ due' = [due EXCEPT ![current] = clock + d * TicksPerSecond]
        /\ parked' = parked \ {current}
        /\ currentkey' = currentkey /\ status' = status /\ handoff' = handoff
    BY <1>2 DEF Suspend, Asleep, run
  <2>2. PICK i \in 1..(Len(sleeping) + 1) : sleeping' = InsertAt(sleeping, i, current)
    BY <1>2 DEF Suspend, Asleep
  <2>3. /\ current \in Routine /\ Placed(Queues, current) /\ status[current] # "new"
        /\ phase' = "cycle" /\ current' = current /\ halted' = halted
        /\ woken' = woken /\ resumed' = resumed /\ clock' = clock /\ limit' = limit
        /\ served' = served
        /\ TypeOK /\ Created(Queues)
    BY <2>1, EndTurnFacts
  <2>4. current \notin ToSet(sleeping)
    BY <2>3 DEF Placed, Queues
  <2>5. /\ sleeping' \in Seq(Routine) /\ NoRepeats(sleeping')
        /\ ToSet(sleeping') = ToSet(sleeping) \cup {current}
    BY <1>0, <2>2, <2>3, <2>4, Names, InsertAtDistinct
  <2>6. t \in Nat /\ clock + d * TicksPerSecond \in Nat
    <3>1. d \in Nat /\ TicksPerSecond \in Nat \ {0} /\ clock \in Nat
      BY <2>3, SchedulerAssumption DEF TypeOK
    <3>2. d * TicksPerSecond \in Nat
      BY <3>1
    <3> QED BY <3>1, <3>2 DEF Seconds
  <2>7. wake' \in [Routine -> Nat] /\ due' \in [Routine -> Nat]
    <3> HIDE DEF t
    <3> QED BY <2>1, <2>3, <2>6 DEF TypeOK
  <2>8. /\ ToSet(run) \subseteq ToSet(running) /\ current \notin ToSet(run)
        /\ run \in Seq(Routine) /\ NoRepeats(run) /\ currentkey \in Keys(run)
    BY <1>1, <2>1
  <2>9. TypeOK'
    BY <1>0, <2>1, <2>3, <2>5, <2>7, <2>8 DEF TypeOK
  <2>10. WellFormed(Queues')
    <3>1. Queues' = [run |-> run, sleep |-> sleeping', key |-> currentkey]
      BY <2>1 DEF Queues
    <3>2. ToSet(run) \cap ToSet(sleeping') = {}
      BY <2>5, <2>8, <1>0
    <3> QED BY <3>1, <3>2, <1>0, <2>5, <2>8, WellFormedQueues
  <2>11. Created(Queues)'
    <3>1. Listed(Queues') = ToSet(run) \cup ToSet(sleeping) \cup {current}
      BY <2>1, <2>5 DEF Listed, Queues
    <3>2. Listed(Queues) = ToSet(running) \cup ToSet(sleeping)
      BY DEF Listed, Queues
    <3> QED BY <3>1, <3>2, <2>1, <2>3, <2>8 DEF Created
  <2> QED BY <2>3, <2>9, <2>10, <2>11 DEF IInv
<1>3. ASSUME Park PROVE IInv'
  <2>1. /\ EndTurn /\ running' = run
        /\ parked' = parked \cup {current}
        /\ sleeping' = sleeping /\ wake' = wake /\ due' = due
        /\ currentkey' = currentkey /\ status' = status /\ handoff' = handoff
    BY <1>3 DEF Park, run
  <2>3. /\ current \in Routine
        /\ phase' = "cycle" /\ current' = current /\ halted' = halted
        /\ woken' = woken /\ resumed' = resumed /\ clock' = clock /\ limit' = limit
        /\ served' = served
        /\ TypeOK /\ Created(Queues)
    BY <2>1, EndTurnFacts
  <2>4. /\ WellFormed([run |-> run, sleep |-> sleeping, key |-> currentkey])
        /\ ToSet(run) \subseteq ToSet(running) /\ run \in Seq(Routine)
    BY <1>1, <2>1
  <2>5. TypeOK'
    BY <2>1, <2>3, <2>4 DEF TypeOK
  <2>6. WellFormed(Queues')
    BY <2>1, <2>4 DEF Queues
  <2>7. Created(Queues)'
    BY <2>1, <2>3, <2>4 DEF Created, Listed, Queues
  <2> QED BY <2>3, <2>5, <2>6, <2>7 DEF IInv
<1> QED BY <1>2, <1>3

(* resume(), start(), a yield and the end of a routine.                    *)
LEMMA HandOverKeeps ==
  ASSUME IInv
  PROVE  /\ \A r \in Routine : Resume(r) \/ Start(r) => IInv'
         /\ Yield \/ (\E s \in {"done", "failed"} : End(s)) => IInv'
<1>0. /\ running \in Seq(Routine) /\ sleeping \in Seq(Routine)
      /\ NoRepeats(running) /\ NoRepeats(sleeping)
      /\ ToSet(running) \cap ToSet(sleeping) = {}
      /\ currentkey \in Keys(running) /\ currentkey \in Routine \cup {FIRST}
  BY InvariantFacts
<1>1. ASSUME NEW r \in Routine, Resume(r) PROVE IInv'
  <2> DEFINE q == Advanced(Queues, r)
  <2>1. /\ EndTurn /\ SetQueues(q) /\ status[r] = "live"
        /\ parked' = parked \ {r} /\ handoff' = r /\ status' = status
    BY <1>1 DEF Resume
  <2>2. /\ phase' = "cycle" /\ current' = current /\ halted' = halted
        /\ woken' = woken /\ resumed' = resumed /\ clock' = clock /\ limit' = limit
        /\ served' = served
        /\ TypeOK /\ WellFormed(Queues) /\ Created(Queues)
    BY <2>1, EndTurnFacts
  <2>3. WellFormed(q) /\ Listed(q) \subseteq Listed(Queues) \cup {r}
    BY <2>2, AdvancedKeeps, ListedFacts
  <2> HIDE DEF q
  <2>4. /\ running' \in Seq(Routine) /\ sleeping' \in Seq(Routine)
        /\ currentkey' \in Routine \cup {FIRST}
        /\ wake' \in [Routine -> Nat] /\ due' \in [Routine -> Nat]
        /\ Queues' = q
    BY <2>1, <2>2, <2>3, SetQueuesFacts
  <2>5. TypeOK'
    BY <2>1, <2>2, <2>4 DEF TypeOK, Maybe
  <2>6. Created(Queues)'
    BY <2>1, <2>2, <2>3, <2>4 DEF Created
  <2> QED BY <2>2, <2>3, <2>4, <2>5, <2>6 DEF IInv
<1>2. ASSUME NEW r \in Routine, Start(r) PROVE IInv'
  <2> DEFINE run == Inserted(running, r, current)
  <2>1. /\ EndTurn /\ running' = run /\ status[r] = "new"
        /\ status' = [status EXCEPT ![r] = "live"] /\ handoff' = r
        /\ sleeping' = sleeping /\ wake' = wake /\ due' = due
        /\ currentkey' = currentkey /\ parked' = parked
    BY <1>2 DEF Start
  <2>2. /\ phase' = "cycle" /\ current' = current /\ halted' = halted
        /\ woken' = woken /\ resumed' = resumed /\ clock' = clock /\ limit' = limit
        /\ served' = served
        /\ TypeOK /\ WellFormed(Queues) /\ Created(Queues)
    BY <2>1, EndTurnFacts
  <2>3. /\ run \in Seq(Routine) /\ NoRepeats(run)
        /\ ToSet(running) \subseteq ToSet(run)
        /\ ToSet(run) \subseteq ToSet(running) \cup {r}
    BY <1>0, Names, InsertedFacts
  <2> HIDE DEF run
  <2>4. r \notin ToSet(running) \cup ToSet(sleeping)
    BY <2>1, <2>2 DEF Created, Listed, Queues
  <2>5. TypeOK'
    BY <2>1, <2>2, <2>3 DEF TypeOK, Maybe
  <2>6. WellFormed(Queues')
    <3>1. Queues' = [run |-> run, sleep |-> sleeping, key |-> currentkey]
      BY <2>1 DEF Queues
    <3>2. ToSet(run) \cap ToSet(sleeping) = {} /\ currentkey \in Keys(run)
      BY <2>3, <2>4, <1>0 DEF Keys
    <3> QED BY <3>1, <3>2, <1>0, <2>3, WellFormedQueues
  <2>7. Created(Queues)'
    <3> SUFFICES ASSUME NEW c \in Listed(Queues'), status'[c] = "new" PROVE FALSE
      BY DEF Created
    <3>1. c \in ToSet(running) \cup ToSet(sleeping) \cup {r}
      BY <2>1, <2>3 DEF Listed, Queues
    <3>2. c \in Routine
      BY <3>1, <1>0, Names, PosFacts
    <3>3. c # r /\ status[c] = "new"
      BY <2>1, <2>2, <3>2 DEF TypeOK
    <3> QED BY <3>1, <3>3, <2>2 DEF Created, Listed, Queues
  <2> QED BY <2>2, <2>5, <2>6, <2>7 DEF IInv
<1>3. ASSUME Yield PROVE IInv'
  BY <1>3 DEF Yield, EndTurn, IInv, TypeOK, Queues, WellFormed, Created, lists
<1>4. ASSUME NEW s \in {"done", "failed"}, End(s) PROVE IInv'
  <2>1. /\ EndTurn /\ status' = [status EXCEPT ![current] = s]
        /\ parked' = parked \ {current} /\ Queues' = Queues
        /\ running' = running /\ sleeping' = sleeping /\ wake' = wake
        /\ currentkey' = currentkey /\ handoff' = handoff /\ due' = due
    BY <1>4 DEF End, lists, Queues
  <2>2. /\ phase' = "cycle" /\ current' = current /\ halted' = halted /\ current \in Routine
        /\ woken' = woken /\ resumed' = resumed /\ clock' = clock /\ limit' = limit
        /\ served' = served
        /\ TypeOK /\ WellFormed(Queues) /\ Created(Queues)
    BY <2>1, EndTurnFacts
  <2>3. TypeOK'
    BY <2>1, <2>2 DEF TypeOK
  <2>4. Created(Queues)'
    <3> SUFFICES ASSUME NEW c \in Listed(Queues), status'[c] = "new" PROVE FALSE
      BY <2>1 DEF Created
    <3>1. c \in Routine
      BY <2>2, Positions DEF Listed
    <3> QED BY <3>1, <2>1, <2>2 DEF Created, TypeOK
  <2> QED BY <2>1, <2>2, <2>3, <2>4 DEF IInv
<1> QED BY <1>1, <1>2, <1>3, <1>4

(* resumeall, step and run.                                                *)
LEMMA ControlKeeps ==
  ASSUME IInv, Control
  PROVE  IInv'
<1>0. /\ running \in Seq(Routine) /\ sleeping \in Seq(Routine)
      /\ NoRepeats(running) /\ NoRepeats(sleeping)
      /\ ToSet(running) \cap ToSet(sleeping) = {}
      /\ currentkey \in Keys(running) /\ currentkey \in Routine \cup {FIRST}
      /\ TypeOK /\ Created(Queues)
  BY InvariantFacts DEF IInv
<1>1. ASSUME NEW run, NEW key,
             WellFormed([run |-> run, sleep |-> sleeping, key |-> key]),
             ToSet(run) \subseteq ToSet(running),
             ResumeAfter(run, key), running' = run, InCycle
      PROVE  IInv'
  <2>1. /\ sleeping' = sleeping /\ wake' = wake /\ halted' = halted /\ woken' = woken
        /\ status' = status /\ clock' = clock /\ limit' = limit /\ parked' = parked
        /\ due' = due
    BY <1>1 DEF InCycle
  <2>2. /\ current' \in Maybe(Routine) /\ currentkey' \in Routine \cup {FIRST}
        /\ resumed' \in BOOLEAN /\ phase' \in {"routine", "stepped"}
        /\ served' \subseteq Routine /\ handoff' \in Maybe(Routine)
        /\ WellFormed(Queues')
        /\ phase' = "routine" => Placed(Queues', current') /\ current' \in ToSet(run)
        /\ Listed(Queues') = ToSet(run) \cup ToSet(sleeping)
    BY <1>0, <1>1, <2>1, ResumeAfterKeeps
  <2>3. run \in Seq(Routine)
    BY <1>1, WellFormedQueues
  <2>4. TypeOK'
    BY <1>0, <1>1, <2>1, <2>2, <2>3 DEF TypeOK
  <2>5. Created(Queues)'
    BY <1>0, <1>1, <2>1, <2>2 DEF Created, Listed, Queues
  <2>6. phase' = "routine" => status'[current'] # "new"
    BY <1>0, <1>1, <2>1, <2>2 DEF Created, Listed, Queues
  <2> QED BY <2>2, <2>4, <2>5, <2>6 DEF IInv
<1>2. ASSUME NextRoutine PROVE IInv'
  <2> DEFINE key == IF current \in ToSet(running) THEN current ELSE currentkey
  <2>1. key \in Keys(running) /\ key \in Routine \cup {FIRST}
    BY <1>0, Names, PosFacts DEF Keys
  <2>2. WellFormed([run |-> running, sleep |-> sleeping, key |-> key])
    <3> HIDE DEF key
    <3> QED BY <1>0, <2>1, WellFormedQueues
  <2> QED BY <1>1, <1>2, <2>2 DEF NextRoutine
<1>3. ASSUME Ended
      PROVE  /\ WellFormed([run |-> Buried, sleep |-> sleeping, key |-> currentkey])
             /\ ToSet(Buried) \subseteq ToSet(running)
             /\ Buried \in Seq(Routine)
  <2>1. current \in Routine
    BY <1>0, <1>3 DEF TypeOK, Maybe, Ended
  <2>2. /\ WellFormed([run |-> Buried, sleep |-> sleeping, key |-> currentkey])
        /\ ToSet(Buried) \subseteq ToSet(running)
    BY <2>1, BuriedKeeps DEF Buried
  <2> QED BY <2>2, WellFormedQueues
<1>4. ASSUME Bury PROVE IInv'
  BY <1>1, <1>3, <1>4 DEF Bury
<1>5. ASSUME InCycle, Ended, running' = Buried, current' = NIL,
             phase' \in {"trap", "stopped"}, handoff' \in Maybe(Routine),
             UNCHANGED <<currentkey, resumed, served>>
      PROVE  IInv'
  <2>1. /\ sleeping' = sleeping /\ wake' = wake /\ halted' = halted /\ woken' = woken
        /\ status' = status /\ clock' = clock /\ limit' = limit /\ parked' = parked
        /\ due' = due
    BY <1>5 DEF InCycle
  <2>2. WellFormed(Queues')
    BY <1>3, <1>5, <2>1 DEF Queues
  <2>3. Created(Queues)'
    BY <1>0, <1>3, <1>5, <2>1 DEF Created, Listed, Queues
  <2>4. TypeOK'
    BY <1>0, <1>3, <1>5, <2>1 DEF TypeOK, Maybe
  <2> QED BY <1>5, <2>2, <2>3, <2>4 DEF IInv
<1>6. ASSUME CallTrap PROVE IInv'
  BY <1>0, <1>5, <1>6 DEF CallTrap, TypeOK
<1>7. ASSUME Raise PROVE IInv'
  BY <1>5, <1>7 DEF Raise, Maybe
<1>8. ASSUME UNCHANGED <<lists, status>>, TypeOK', phase' # "routine" PROVE IInv'
  BY <1>8 DEF IInv, lists, Queues, WellFormed, Created
<1>9. ASSUME TrapReturns \/ RunAgain \/ RunEnds PROVE IInv'
  BY <1>0, <1>8, <1>9 DEF TrapReturns, RunAgain, RunEnds, TypeOK, lists, history, Maybe
<1> QED BY <1>2, <1>4, <1>6, <1>7, <1>9, WakeUpKeeps DEF Control

(***************************************************************************)
(* The theorems.                                                           *)
(***************************************************************************)
(* Every step of the scheduler and of the program keeps the invariant.     *)
LEMMA Invariance == IInv /\ [Next]_vars => IInv'
<1> SUFFICES ASSUME IInv, [Next]_vars PROVE IInv'
  OBVIOUS
<1>1. ASSUME NEW timeout \in Maybe(RunLimits), Run(timeout) PROVE IInv'
  BY <1>1 DEF Run, IInv, TypeOK, lists, history, Queues, WellFormed, Created
<1>2. ASSUME Tick PROVE IInv'
  <2>1. TypeOK'
    BY <1>2 DEF Tick, IInv, TypeOK, lists, history
  <2> QED BY <1>2, <2>1 DEF Tick, IInv, lists, Queues, WellFormed, Created, Placed
<1>3. ASSUME TurnEnds PROVE IInv'
  BY <1>3, SuspendKeeps, HandOverKeeps DEF TurnEnds
<1>4. ASSUME UNCHANGED vars PROVE IInv'
  BY <1>4 DEF vars, lists, history, IInv, TypeOK, Queues, WellFormed, Created, Placed
<1> QED BY <1>1, <1>2, <1>3, <1>4, CallsKeep, ControlKeeps DEF Next

(* The program starts with empty lists.                                    *)
LEMMA Beginning == Init => IInv
<1> SUFFICES ASSUME Init PROVE IInv
  OBVIOUS
<1>1. <<>> \in Seq(Routine) /\ ToSet(<<>>) = {} /\ NoRepeats(<<>>)
  BY DEF ToSet, NoRepeats
<1>2. WellFormed(Queues)
  BY <1>1 DEF Init, Queues, WellFormed, QueueRecord, Keys
<1>3. Created(Queues)
  BY <1>1 DEF Init, Queues, Created, Listed
<1>4. TypeOK
  BY <1>1 DEF Init, TypeOK, Maybe
<1> QED BY <1>2, <1>3, <1>4 DEF IInv, Init

(* The fields always hold values of their types: in particular currentkey  *)
(* is a key even after the removal of the routine it named.                *)
THEOREM TypeCorrect == Spec => []TypeOK
<1>1. IInv => TypeOK
  BY DEF IInv
<1> QED BY <1>1, Beginning, Invariance, PTL DEF Spec

(* No routine is ever in the lists twice, whatever the program calls.      *)
THEOREM NeverListedTwice == Spec => []NeverInBoth
<1>1. IInv => NeverInBoth
  BY InvariantFacts DEF NeverInBoth
<1> QED BY <1>1, Beginning, Invariance, PTL DEF Spec

(* The traversal of resumeall never loses its place in running.            *)
THEOREM TraversalKeepsPlace == Spec => []PlaceKept
<1>1. IInv => PlaceKept
  <2> SUFFICES ASSUME IInv PROVE PlaceKept
    OBVIOUS
  <2>1. currentkey \in Keys(running)
    BY InvariantFacts
  <2>2. ASSUME SelfCalls = {}, phase = "routine"
        PROVE  ValueAfter(running, currentkey) = current
    <3>1. /\ current \in ToSet(running)
          /\ Pos(running, current) = Pos(running, currentkey) + 1
      BY <2>2 DEF IInv, Placed, Queues
    <3>2. /\ Pos(running, current) \in 1..Len(running)
          /\ running[Pos(running, current)] = current
          /\ Pos(running, currentkey) \in Nat /\ Len(running) \in Nat
      BY <2>1, <3>1, InvariantFacts, Names, PosFacts DEF Keys
    <3>3. Pos(running, currentkey) < Len(running)
      BY <3>1, <3>2
    <3> QED BY <2>1, <3>1, <3>2, <3>3 DEF ValueAfter
  <2> QED BY <2>1, <2>2 DEF PlaceKept
<1> QED BY <1>1, Beginning, Invariance, PTL DEF Spec

(***************************************************************************)
(* The order of the sleepers.                                              *)
(***************************************************************************)
InOrder(sleep, w) ==
  \A i, j \in DOMAIN sleep : i < j => w[sleep[i]] <= w[sleep[j]]

(* The priorities of what stays in the queue do not change.                *)
LEMMA PrioritiesFacts ==
  ASSUME NEW sleep \in Seq(Routine), NEW w, InOrder(sleep, w)
  PROVE  InOrder(sleep, Priorities(sleep, w))
<1>1. \A i \in DOMAIN sleep : sleep[i] \in Routine /\ sleep[i] \in ToSet(sleep)
  BY DEF ToSet
<1>2. \A i \in DOMAIN sleep : Priorities(sleep, w)[sleep[i]] = w[sleep[i]]
  BY <1>1 DEF Priorities
<1> QED BY <1>2 DEF InOrder

(* Taking a sleeper out leaves the others in their order.                  *)
LEMMA RemovedInOrder ==
  ASSUME NEW sleep \in Seq(Routine), NoRepeats(sleep), NEW w, InOrder(sleep, w),
         NEW r, NEW start
  PROVE  InOrder(Removed(sleep, r, start), w)
<1>1. CASE ~Found(sleep, r, start)
  BY <1>1 DEF Removed
<1>2. CASE Found(sleep, r, start)
  <2> DEFINE n == Pos(sleep, r)
             t == RemoveAt(sleep, n)
  <2>1. n \in 1..Len(sleep) /\ Len(sleep) \in Nat /\ DOMAIN sleep = 1..Len(sleep)
    <3>1. r \in ToSet(sleep)
      BY <1>2 DEF Found
    <3> QED BY <3>1, Names, PosFacts, LenProperties
  <2> HIDE DEF n
  <2>2. /\ t \in Seq(Routine) /\ Len(t) = Len(sleep) - 1
        /\ \A j \in 1..(Len(sleep) - 1) : t[j] = IF j < n THEN sleep[j] ELSE sleep[j + 1]
    BY <2>1, RemoveAtFacts
  <2>3. Removed(sleep, r, start) = t
    BY <1>2 DEF Removed, n
  <2> HIDE DEF t
  <2>4. DOMAIN t = 1..(Len(sleep) - 1)
    BY <2>2, LenProperties
  <2>5. ASSUME NEW i \in DOMAIN t, NEW j \in DOMAIN t, i < j
        PROVE  w[t[i]] <= w[t[j]]
    <3> DEFINE At(x) == IF x < n THEN x ELSE x + 1
    <3>1. ASSUME NEW x \in DOMAIN t PROVE At(x) \in DOMAIN sleep /\ t[x] = sleep[At(x)]
      BY <2>1, <2>2, <2>4
    <3>2. At(i) < At(j)
      BY <2>1, <2>4, <2>5
    <3> HIDE DEF At
    <3> QED BY <3>1, <3>2 DEF InOrder
  <2> QED BY <2>3, <2>5 DEF InOrder
<1> QED BY <1>1, <1>2

(* remove() and resume() leave the sleepers in their order.                *)
LEMMA OperationsInOrder ==
  ASSUME NEW q, WellFormed(q), NEW w, InOrder(q.sleep, w), NEW r \in Routine
  PROVE  /\ \A p : InOrder(Registered(q, r, p).sleep, w)
         /\ InOrder(Dropped(q, r).sleep, w)
         /\ InOrder(Advanced(q, r).sleep, w)
<1>1. \A p : InOrder(Registered(q, r, p).sleep, w)
  BY RegisteredKeeps
<1>2. q \in QueueRecord /\ q.sleep \in Seq(Routine) /\ NoRepeats(q.sleep)
  BY DEF WellFormed, QueueRecord
<1>3. Dropped(q, r).sleep \in {q.sleep, Removed(q.sleep, r, FIRST)}
  <2>1. CASE r = current
    BY <2>1, <1>2 DEF Dropped, QueueRecord
  <2>2. CASE r # current /\ r = q.key
    BY <2>2, <1>2 DEF Dropped, QueueRecord
  <2>3. CASE r \notin {current, q.key}
    BY <2>3, <1>2 DEF Dropped, QueueRecord
  <2> QED BY <2>1, <2>2, <2>3
<1>4. InOrder(Dropped(q, r).sleep, w)
  BY <1>2, <1>3, RemovedInOrder
<1>5. WellFormed(Dropped(q, r))
  BY DroppedKeeps
<1>6. Registered(Dropped(q, r), r, current).sleep = Dropped(q, r).sleep
  BY <1>5, RegisteredKeeps
<1>7. InOrder(Advanced(q, r).sleep, w)
  BY <1>1, <1>4, <1>6 DEF Advanced
<1> QED BY <1>1, <1>4, <1>7

(* A sleeper goes between those with times not later and later than its.   *)
LEMMA AsleepInOrder ==
  ASSUME IInv, InOrder(sleeping, wake), current \in Routine,
         current \notin ToSet(sleeping), NEW d \in Delays, Asleep(d)
  PROVE  InOrder(sleeping', wake')
<1> DEFINE t == Seconds + d
<1>1. PICK i \in 1..(Len(sleeping) + 1) :
        PlaceFor(i, t) /\ sleeping' = InsertAt(sleeping, i, current)
  BY DEF Asleep
<1>2. wake' = [wake EXCEPT ![current] = t]
  BY DEF Asleep
<1>3. /\ sleeping \in Seq(Routine) /\ wake \in [Routine -> Nat]
      /\ Len(sleeping) \in Nat /\ DOMAIN sleeping = 1..Len(sleeping)
  BY LenProperties DEF IInv, TypeOK
<1>4. t \in Nat
  <2>1. d \in Nat /\ TicksPerSecond \in Nat \ {0} /\ clock \in Nat
    BY SchedulerAssumption DEF IInv, TypeOK
  <2> QED BY <2>1 DEF Seconds
<1> HIDE DEF t
<1>5. /\ Len(sleeping') = Len(sleeping) + 1 /\ sleeping' \in Seq(Routine)
      /\ \A j \in 1..(Len(sleeping) + 1) :
           sleeping'[j] = IF j < i THEN sleeping[j] ELSE IF j = i THEN current ELSE sleeping[j - 1]
  <2> DEFINE s == InsertAt(sleeping, i, current)
  <2>1. /\ Len(s) = Len(sleeping) + 1 /\ s \in Seq(Routine)
        /\ \A j \in 1..(Len(sleeping) + 1) :
             s[j] = IF j < i THEN sleeping[j] ELSE IF j = i THEN current ELSE sleeping[j - 1]
    <3>1. i \in 1..(Len(sleeping) + 1) /\ sleeping \in Seq(Routine) /\ current \in Routine
      BY <1>3
    <3>2. /\ s \in Seq(Routine) /\ Len(s) = Len(sleeping) + 1
          /\ \A j \in 1..(Len(sleeping) + 1) :
               s[j] = IF j < i THEN sleeping[j] ELSE IF j = i THEN current ELSE sleeping[j - 1]
      BY ONLY <3>1, InsertAtFacts
    <3> HIDE DEF s
    <3> QED BY ONLY <3>2
  <2>2. sleeping' = s
    BY <1>1
  <2> HIDE DEF s
  <2> QED BY <2>1, <2>2
<1>6. DOMAIN sleeping' = 1..(Len(sleeping) + 1)
  BY <1>5, LenProperties
<1>7. \A j \in 1..Len(sleeping) :
        /\ sleeping[j] \in Routine /\ sleeping[j] # current
        /\ wake'[sleeping[j]] = wake[sleeping[j]] /\ wake[sleeping[j]] \in Nat
  BY <1>2, <1>3 DEF ToSet
<1>8. wake'[current] = t
  BY <1>2, <1>3
<1>9. /\ \A j \in 1..(i - 1) : wake[sleeping[j]] <= t
      /\ i <= Len(sleeping) => wake[sleeping[i]] > t
  BY <1>1 DEF PlaceFor
<1>10. \A j \in 1..Len(sleeping) : i <= j => t <= wake[sleeping[j]]
  <2> SUFFICES ASSUME NEW j \in 1..Len(sleeping), i <= j PROVE t <= wake[sleeping[j]]
    OBVIOUS
  <2>1. i \in 1..Len(sleeping) /\ wake[sleeping[i]] > t
    BY <1>3, <1>9
  <2>2. wake[sleeping[i]] <= wake[sleeping[j]]
    <3>1. CASE i = j
      BY <3>1, <1>7
    <3>2. CASE i < j
      BY <3>2, <2>1, <1>3 DEF InOrder
    <3> QED BY <3>1, <3>2, <2>1
  <2> QED BY <2>1, <2>2, <1>4, <1>7
<1>11. ASSUME NEW j \in DOMAIN sleeping', NEW k \in DOMAIN sleeping', j < k
       PROVE  wake'[sleeping'[j]] <= wake'[sleeping'[k]]
  <2>0. j \in 1..(Len(sleeping) + 1) /\ k \in 1..(Len(sleeping) + 1)
    BY <1>6
  <2>1. CASE k < i
    <3>1. j \in 1..Len(sleeping) /\ k \in 1..Len(sleeping) /\ j < i
      BY <2>0, <2>1, <1>3, <1>11
    <3>2. sleeping'[j] = sleeping[j] /\ sleeping'[k] = sleeping[k]
      BY <2>0, <2>1, <3>1, <1>5
    <3> QED BY <3>1, <3>2, <1>3, <1>7, <1>11 DEF InOrder
  <2>2. CASE k = i
    <3>1. j \in 1..Len(sleeping) /\ j \in 1..(i - 1)
      BY <2>0, <2>2, <1>3, <1>11
    <3>2. sleeping'[j] = sleeping[j] /\ sleeping'[k] = current
      BY <2>0, <2>2, <3>1, <1>5
    <3> QED BY <3>1, <3>2, <1>7, <1>8, <1>9
  <2>3. CASE i < k
    <3>1. k - 1 \in 1..Len(sleeping) /\ i <= k - 1
      BY <2>0, <2>3, <1>3
    <3>2. sleeping'[k] = sleeping[k - 1]
      BY <2>0, <2>3, <1>5
    <3>3. CASE j = i
      BY <3>1, <3>2, <3>3, <2>0, <1>5, <1>7, <1>8, <1>10
    <3>4. CASE j < i
      <4>1. j \in 1..Len(sleeping) /\ j < k - 1 /\ sleeping'[j] = sleeping[j]
        BY <3>1, <3>4, <2>0, <1>3, <1>5
      <4> QED BY <3>1, <3>2, <4>1, <1>3, <1>7 DEF InOrder
    <3>5. CASE i < j
      <4>1. j - 1 \in 1..Len(sleeping) /\ j - 1 < k - 1 /\ sleeping'[j] = sleeping[j - 1]
        <5>1. j - 1 \in 1..Len(sleeping) /\ j - 1 < k - 1 /\ ~(j < i) /\ j # i
          BY <3>5, <2>0, <1>3, <1>11
        <5> QED BY <5>1, <2>0, <1>5
      <4> QED BY <3>1, <3>2, <4>1, <1>3, <1>7 DEF InOrder
    <3> QED BY <3>3, <3>4, <3>5, <2>0
  <2> QED BY <2>0, <2>1, <2>2, <2>3
<1> QED BY <1>11 DEF InOrder

(* wakeupall takes sleepers from the head.                                 *)
LEMMA RestInOrder ==
  ASSUME NEW sleep \in Seq(Routine), NEW w, InOrder(sleep, w), NEW n \in 0..Len(sleep)
  PROVE  InOrder(SubSeq(sleep, n + 1, Len(sleep)), w)
<1> DEFINE t == SubSeq(sleep, n + 1, Len(sleep))
<1>1. DOMAIN sleep = 1..Len(sleep) /\ Len(sleep) \in Nat
  BY LenProperties
<1>2. t \in Seq(Routine) /\ Len(t) = Len(sleep) - n /\ \A i \in 1..(Len(sleep) - n) : t[i] = sleep[n + i]
  BY SubSeqProperties
<1> HIDE DEF t
<1>3. DOMAIN t = 1..(Len(sleep) - n)
  BY <1>2, LenProperties
<1>4. ASSUME NEW i \in DOMAIN t, NEW j \in DOMAIN t, i < j
      PROVE  w[t[i]] <= w[t[j]]
  <2>1. n + i \in DOMAIN sleep /\ n + j \in DOMAIN sleep /\ n + i < n + j
    BY <1>1, <1>3, <1>4
  <2>2. t[i] = sleep[n + i] /\ t[j] = sleep[n + j]
    BY <1>2, <1>3
  <2> QED BY <2>1, <2>2 DEF InOrder
<1> QED BY <1>4 DEF InOrder, t

(* The lists after a call that puts back well-formed ones.                 *)
LEMMA SetQueuesInOrder ==
  ASSUME NEW q, WellFormed(q), InOrder(q.sleep, wake), SetQueues(q)
  PROVE  InOrder(sleeping', wake')
<1>1. q.sleep \in Seq(Routine)
  BY DEF WellFormed, QueueRecord
<1>2. sleeping' = q.sleep /\ wake' = Priorities(q.sleep, wake)
  BY DEF SetQueues
<1> QED BY <1>1, <1>2, PrioritiesFacts

(* wakeupall and idle only look at the sleeper at the head: it is the one  *)
(* that is to be woken first, for every set of routines and delays.        *)
THEOREM SleepersStayInOrder == Spec => []SleepersInOrder
<1>1. Init => SleepersInOrder
  BY DEF Init, SleepersInOrder
<1>2. IInv /\ SleepersInOrder /\ [Next]_vars => SleepersInOrder'
  <2> SUFFICES ASSUME IInv, InOrder(sleeping, wake), [Next]_vars PROVE InOrder(sleeping', wake')
    BY DEF SleepersInOrder, InOrder
  <2>0. WellFormed(Queues) /\ Queues.sleep = sleeping /\ sleeping \in Seq(Routine)
    BY InvariantFacts DEF IInv, Queues
  <2>1. ASSUME NEW r \in Routine, Register(r) \/ Drop(r) \/ Resume(r)
        PROVE  InOrder(sleeping', wake')
    <3>1. CASE Register(r)
      BY <2>0, <3>1, RegisteredKeeps, OperationsInOrder, SetQueuesInOrder DEF Register
    <3>2. CASE Drop(r)
      BY <2>0, <3>2, DroppedKeeps, OperationsInOrder, SetQueuesInOrder DEF Drop
    <3>3. CASE Resume(r)
      BY <2>0, <3>3, AdvancedKeeps, OperationsInOrder, SetQueuesInOrder DEF Resume
    <3> QED BY <2>1, <3>1, <3>2, <3>3
  <2>2. ASSUME NEW d \in Delays, Suspend(d) PROVE InOrder(sleeping', wake')
    <3>1. EndTurn /\ Asleep(d)
      BY <2>2 DEF Suspend
    <3>2. current \in Routine /\ current \notin ToSet(sleeping)
      BY <3>1, <2>0, EndTurnFacts DEF Placed
    <3> QED BY <3>1, <3>2, AsleepInOrder
  <2>3. ASSUME WakeUpAll PROVE InOrder(sleeping', wake')
    <3>1. PICK n \in 0..Len(sleeping) :
            /\ sleeping' = SubSeq(sleeping, n + 1, Len(sleeping))
            /\ wake' = Priorities(sleeping', wake)
      BY <2>3 DEF WakeUpAll
    <3>2. InOrder(sleeping', wake)
      BY <3>1, <2>0, RestInOrder
    <3>3. sleeping' \in Seq(Routine)
      BY <3>1, <2>0, Names, InvariantFacts, SplitFacts
    <3> QED BY <3>1, <3>2, <3>3, PrioritiesFacts
  <2>4. ASSUME sleeping' = sleeping, wake' = wake PROVE InOrder(sleeping', wake')
    BY <2>4
  <2>5. ASSUME Control, ~WakeUpAll PROVE sleeping' = sleeping /\ wake' = wake
    BY <2>5 DEF Control, NextRoutine, Bury, CallTrap, TrapReturns, Raise, RunAgain,
                RunEnds, InCycle, lists
  <2>6. ASSUME NEW r \in Routine, Start(r) PROVE sleeping' = sleeping /\ wake' = wake
    BY <2>6 DEF Start
  <2>7. ASSUME Park \/ Yield \/ \E s \in {"done", "failed"} : End(s)
        PROVE  sleeping' = sleeping /\ wake' = wake
    BY <2>7 DEF Park, Yield, End, lists
  <2>8. ASSUME NEW timeout \in Maybe(RunLimits), Run(timeout)
        PROVE  sleeping' = sleeping /\ wake' = wake
    BY <2>8 DEF Run, lists
  <2>9. ASSUME Halt \/ Tick \/ UNCHANGED vars PROVE sleeping' = sleeping /\ wake' = wake
    BY <2>9 DEF Halt, Tick, vars, lists
  <2> QED BY <2>1, <2>2, <2>3, <2>4, <2>5, <2>6, <2>7, <2>8, <2>9 DEF Next, TurnEnds
<1> QED BY <1>1, <1>2, Beginning, Invariance, PTL DEF Spec

(***************************************************************************)
(* The turns of a cycle.                                                   *)
(*                                                                         *)
(* NobodyForgotten, CycleServesAll and SwitchIsImmediate are promises to    *)
(* programs whose routines do not name themselves (SelfCalls = {}), and    *)
(* the second one is broken by an error that leaves run() (MayRaise): the  *)
(* next run() then begins in the middle of the list.  What they rest on is *)
(* that the routine executing, and the one that has just yielded, follows  *)
(* currentkey; that only it may be dead and still listed; that all up to   *)
(* currentkey have had their turn; and that a routine named by resume() or *)
(* start() follows the one that named it.                                  *)
(***************************************************************************)
Passed(q) == {r \in ToSet(q.run) : Pos(q.run, r) <= Pos(q.run, q.key)}

TurnKept ==
  /\ phase \in {"stopped", "step", "trap", "stepped"} => current = NIL
  /\ phase = "cycle" /\ current \in ToSet(running) =>
       Pos(running, current) = Pos(running, currentkey) + 1

ListedAreLive ==
  \A r \in Listed(Queues) :
    status[r] = "live" \/ (phase = "cycle" /\ r = current /\ r \in ToSet(running))

ParkedExist == \A r \in parked : status[r] # "new"

HandedOver ==
  handoff # NIL =>
    /\ phase = "cycle" /\ current \in ToSet(running) /\ status[current] = "live"
    /\ handoff \in ToSet(running) /\ Pos(running, handoff) = Pos(running, current) + 1

PassedAreServed ==
  /\ phase \in {"stopped", "step", "stepped"} => currentkey = FIRST
  /\ phase \in {"cycle", "routine", "trap"} => Passed(Queues) \subseteq served
  /\ phase \in {"cycle", "routine"} /\ current # NIL => current \in served
  /\ CycleServesAll
  /\ \A r \in Routine : status[r] = "failed" => r \in Trapped

TurnInv ==
  /\ TurnKept /\ ListedAreLive /\ ParkedExist /\ NobodyForgotten /\ HandedOver
  /\ ~MayRaise => PassedAreServed

(***************************************************************************)
(* What the operations on the lists do to the routines they do not name.   *)
(***************************************************************************)
(* Removal of a routine, with the key before it if it was currentkey,      *)
(* brings no routine before currentkey.                                    *)
LEMMA RemovalPasses ==
  ASSUME NEW q, WellFormed(q), NEW r \in Routine, NEW start, Found(q.run, r, start),
         NEW t, t.run = Removed(q.run, r, start), t.key \in Keys(q.run) \ {r},
         Pos(q.run, t.key) <= Pos(q.run, q.key)
  PROVE  Passed(t) \subseteq Passed(q)
<1> SUFFICES ASSUME NEW x \in ToSet(t.run), Pos(t.run, x) <= Pos(t.run, t.key)
             PROVE  x \in ToSet(q.run) /\ Pos(q.run, x) <= Pos(q.run, q.key)
  BY DEF Passed
<1>1. q.run \in Seq(Routine) /\ NoRepeats(q.run) /\ q.key \in Keys(q.run)
  BY DEF WellFormed, QueueRecord
<1>2. /\ ToSet(t.run) = ToSet(q.run) \ {r}
      /\ \A k \in Keys(q.run) \ {r} : Pos(t.run, k) =
           IF Pos(q.run, k) < Pos(q.run, r) THEN Pos(q.run, k) ELSE Pos(q.run, k) - 1
  BY <1>1, Names, RemovedFacts
<1>3. x \in Keys(q.run) \ {r} /\ r \in Keys(q.run) /\ x \in ToSet(q.run)
  BY <1>2 DEF Keys, Found
<1>4. \A k \in Keys(q.run) : Pos(q.run, k) \in Nat
  BY Positions
<1>5. Pos(q.run, x) # Pos(q.run, r) /\ Pos(q.run, t.key) # Pos(q.run, r)
  BY <1>3, Positions
<1>6. /\ Pos(t.run, x) = IF Pos(q.run, x) < Pos(q.run, r) THEN Pos(q.run, x) ELSE Pos(q.run, x) - 1
      /\ Pos(t.run, t.key) = IF Pos(q.run, t.key) < Pos(q.run, r)
                             THEN Pos(q.run, t.key) ELSE Pos(q.run, t.key) - 1
  BY <1>2, <1>3
<1>7. /\ Pos(q.run, x) \in Nat /\ Pos(q.run, r) \in Nat
      /\ Pos(q.run, t.key) \in Nat /\ Pos(q.run, q.key) \in Nat
  BY <1>1, <1>3, <1>4
<1> QED BY <1>3, <1>5, <1>6, <1>7

(* remove() takes the routine out of the lists, and nobody else.           *)
LEMMA DroppedExactly ==
  ASSUME NEW q, WellFormed(q), NEW r \in Routine, r = current => Placed(q, r)
  PROVE  /\ Listed(Dropped(q, r)) = Listed(q) \ {r}
         /\ ToSet(Dropped(q, r).run) = ToSet(q.run) \ {r}
         /\ Passed(Dropped(q, r)) \subseteq Passed(q)
         /\ q.key = FIRST => Dropped(q, r).key = FIRST
<1> DEFINE t == Dropped(q, r)
           before == KeyBefore(q.run, r, FIRST)
<1>0. /\ q \in QueueRecord /\ q.run \in Seq(Routine) /\ NoRepeats(q.run)
      /\ q.sleep \in Seq(Routine) /\ NoRepeats(q.sleep) /\ q.key \in Keys(q.run)
      /\ ToSet(q.run) \cap ToSet(q.sleep) = {}
  BY DEF WellFormed, QueueRecord
<1>1. /\ \A k \in Keys(q.run) : Pos(q.run, k) \in Nat
      /\ \A k \in ToSet(q.run) : 0 < Pos(q.run, k)
      /\ Pos(q.run, FIRST) = 0
  <2>1. /\ \A k \in Keys(q.run) : Pos(q.run, k) \in Nat
        /\ \A k \in ToSet(q.run) : Pos(q.run, k) \in 1..Len(q.run)
        /\ Pos(q.run, FIRST) = 0
    BY ONLY WellFormed(q), Positions, Zenon
  <2> QED BY <2>1
<1>2. ASSUME NEW start, NEW k \in Keys(q.run) \ {r}, Found(q.run, r, start),
             Pos(q.run, k) <= Pos(q.run, q.key),
             t.run = Removed(q.run, r, start), t.sleep = q.sleep, t.key = k,
             q.key = FIRST => k = FIRST
      PROVE  /\ Listed(t) = Listed(q) \ {r} /\ ToSet(t.run) = ToSet(q.run) \ {r}
             /\ Passed(t) \subseteq Passed(q)
             /\ q.key = FIRST => t.key = FIRST
  <2> HIDE DEF t
  <2>1. ToSet(t.run) = ToSet(q.run) \ {r}
    BY <1>0, <1>2, Names, RemovedFacts
  <2>2. r \in ToSet(q.run)
    BY <1>2 DEF Found
  <2>3. Passed(t) \subseteq Passed(q)
    BY <1>2, RemovalPasses
  <2> QED BY <1>0, <1>2, <2>1, <2>2, <2>3 DEF Listed
<1>3. CASE r = current
  <2>1. t = [q EXCEPT !.run = Removed(q.run, r, q.key)]
    BY <1>3 DEF Dropped
  <2>2. t.run = Removed(q.run, r, q.key) /\ t.sleep = q.sleep /\ t.key = q.key
    BY <1>0, <2>1 DEF QueueRecord
  <2> HIDE DEF t
  <2>3. CASE r \in ToSet(q.run)
    <3>1. Found(q.run, r, q.key) /\ q.key # r /\ Pos(q.run, q.key) \in Nat
      BY <1>0, <1>1, <1>3, <2>3 DEF Placed, Found
    <3> QED BY <3>1, <2>2, <1>0, <1>2 DEF t
  <2>4. CASE r \notin ToSet(q.run)
    <3>1. t.run = q.run
      BY <2>2, <2>4 DEF Removed, Found
    <3>2. r \notin ToSet(q.sleep)
      BY <1>3 DEF Placed
    <3> QED BY <2>2, <2>4, <3>1, <3>2 DEF Listed, Passed, t
  <2> QED BY <2>3, <2>4
<1>4. CASE r # current /\ r = q.key
  <2>1. t = [q EXCEPT !.key = before, !.run = Removed(q.run, r, before)]
    BY <1>4 DEF Dropped
  <2>2. /\ before \in Keys(q.run) \ {r} /\ Pos(q.run, before) = Pos(q.run, r) - 1
        /\ Found(q.run, r, before)
    BY <1>0, <1>4, Names, KeyBeforeFacts DEF Keys
  <2>3. t.run = Removed(q.run, r, before) /\ t.sleep = q.sleep /\ t.key = before
    BY <1>0, <2>1 DEF QueueRecord
  <2> HIDE DEF t, before
  <2>4. Pos(q.run, before) <= Pos(q.run, q.key) /\ q.key # FIRST
    BY <2>2, <1>0, <1>1, <1>4, Names
  <2> QED BY <2>2, <2>3, <2>4, <1>2 DEF t
<1>5. CASE r \notin {current, q.key} /\ r \in ToSet(q.run)
  <2>1. t = [q EXCEPT !.run = Removed(q.run, r, FIRST)]
    BY <1>5 DEF Dropped
  <2>2. t.run = Removed(q.run, r, FIRST) /\ t.sleep = q.sleep /\ t.key = q.key
    BY <1>0, <2>1 DEF QueueRecord
  <2>3. Found(q.run, r, FIRST) /\ q.key \in Keys(q.run) \ {r} /\ Pos(q.run, q.key) <= Pos(q.run, q.key)
    BY <1>0, <1>1, <1>5 DEF Found, Keys
  <2> HIDE DEF t
  <2> QED BY <2>2, <2>3, <1>2 DEF t
<1>6. CASE r \notin {current, q.key} /\ r \notin ToSet(q.run)
  <2>1. t = [q EXCEPT !.sleep = Removed(q.sleep, r, FIRST)]
    BY <1>6 DEF Dropped
  <2>2. t.run = q.run /\ t.sleep = Removed(q.sleep, r, FIRST) /\ t.key = q.key
    BY <1>0, <2>1 DEF QueueRecord
  <2>3. ToSet(t.sleep) = ToSet(q.sleep) \ {r}
    <3>1. r \in ToSet(q.sleep) => Found(q.sleep, r, FIRST)
      <4>1. \A e \in ToSet(q.sleep) : Pos(q.sleep, e) \in 1..Len(q.sleep)
        BY <1>0, Names, PosFacts
      <4>2. Pos(q.sleep, FIRST) = 0 /\ FIRST \in Keys(q.sleep)
        BY <1>0, Names, PosFacts DEF Keys
      <4> QED BY <4>1, <4>2 DEF Found
    <3>2. ToSet(Removed(q.sleep, r, FIRST)) =
            IF Found(q.sleep, r, FIRST) THEN ToSet(q.sleep) \ {r} ELSE ToSet(q.sleep)
      <4>1. q.sleep \in Seq(Routine) /\ NoRepeats(q.sleep)
        BY <1>0
      <4>2. CASE Found(q.sleep, r, FIRST)
        <5>1. ToSet(Removed(q.sleep, r, FIRST)) = ToSet(q.sleep) \ {r}
          BY ONLY <4>1, <4>2, r \in Routine, Names, RemovedFacts
        <5> QED BY <5>1, <4>2
      <4>3. CASE ~Found(q.sleep, r, FIRST)
        BY <4>3 DEF Removed
      <4> QED BY <4>2, <4>3
    <3> QED BY <3>1, <3>2, <2>2
  <2> HIDE DEF t
  <2> QED BY <2>2, <2>3, <1>6 DEF Listed, Passed, t
<1> QED BY <1>3, <1>4, <1>5, <1>6

(* register() adds the routine to the lists, behind currentkey if it goes  *)
(* to the end or after a key that is not before currentkey.                *)
LEMMA RegisteredExactly ==
  ASSUME NEW q, WellFormed(q), NEW r \in Routine
  PROVE  /\ Listed(Registered(q, r, NIL)) = Listed(q) \cup {r}
         /\ Passed(Registered(q, r, NIL)) \subseteq Passed(q)
         /\ ToSet(q.run) \subseteq ToSet(Registered(q, r, NIL).run)
<1> DEFINE t == Registered(q, r, NIL)
<1>0. /\ q.run \in Seq(Routine) /\ NoRepeats(q.run) /\ q.key \in Keys(q.run)
  BY DEF WellFormed, QueueRecord
<1>1. /\ t.key = q.key /\ t.sleep = q.sleep
      /\ t.run = IF Accepted(q, r, NIL) THEN Inserted(q.run, r, NIL) ELSE q.run
  BY RegisteredKeeps
<1> HIDE DEF t
<1>2. Accepted(q, r, NIL) <=> r \notin Listed(q)
  BY DEF Accepted, CanInsert, Listed
<1>3. CASE r \in Listed(q)
  BY <1>1, <1>2, <1>3 DEF Listed, Passed, t
<1>4. CASE r \notin Listed(q)
  <2>1. t.run = Inserted(q.run, r, NIL) /\ CanInsert(q.run, r, NIL)
    BY <1>1, <1>2, <1>4 DEF Accepted
  <2>2. /\ ToSet(t.run) = ToSet(q.run) \cup {r}
        /\ \A k \in Keys(q.run) : Pos(t.run, k) = Pos(q.run, k)
        /\ Pos(t.run, r) = Len(q.run) + 1
    BY <2>1, <1>0, Names, InsertedFacts
  <2>3. Pos(q.run, q.key) \in 0..Len(q.run) /\ Len(q.run) \in Nat
    BY <1>0, Positions
  <2>4. Passed(t) \subseteq Passed(q)
    <3> SUFFICES ASSUME NEW x \in ToSet(t.run), Pos(t.run, x) <= Pos(t.run, t.key)
                 PROVE  x \in ToSet(q.run) /\ Pos(q.run, x) <= Pos(q.run, q.key)
      BY DEF Passed
    <3>1. Pos(t.run, t.key) = Pos(q.run, q.key)
      BY <1>0, <1>1, <2>2
    <3>2. x # r
      BY <3>1, <2>2, <2>3
    <3> QED BY <3>1, <3>2, <2>2 DEF Keys
  <2> QED BY <1>1, <2>2, <2>4 DEF Listed, t
<1> QED BY <1>3, <1>4

(* Putting a new routine after the one that executes.                      *)
LEMMA InsertedAfterCurrent ==
  ASSUME NEW q, WellFormed(q), NEW r \in Routine, r \notin ToSet(q.run),
         current \in ToSet(q.run), Pos(q.run, current) = Pos(q.run, q.key) + 1,
         NEW t, t.run = Inserted(q.run, r, current), t.key = q.key
  PROVE  /\ ToSet(t.run) = ToSet(q.run) \cup {r}
         /\ Pos(t.run, current) = Pos(t.run, t.key) + 1
         /\ Pos(t.run, r) = Pos(t.run, current) + 1
         /\ Passed(t) \subseteq Passed(q)
<1>0. /\ q.run \in Seq(Routine) /\ NoRepeats(q.run) /\ q.key \in Keys(q.run)
      /\ current \in Keys(q.run)
  BY DEF WellFormed, QueueRecord, Keys
<1>1. CanInsert(q.run, r, current)
  BY <1>0 DEF CanInsert
<1>2. ToSet(t.run) = ToSet(q.run) \cup {r}
  BY <1>0, <1>1, Names, InsertedFacts
<1>3. /\ Pos(t.run, r) = Pos(q.run, current) + 1
      /\ \A k \in Keys(q.run) : Pos(t.run, k) =
           IF Pos(q.run, k) <= Pos(q.run, current) THEN Pos(q.run, k) ELSE Pos(q.run, k) + 1
  BY <1>0, Names, InsertedAfterFacts
<1>4. \A k \in Keys(q.run) : Pos(q.run, k) \in Nat
  BY Positions
<1>5. Pos(t.run, current) = Pos(q.run, current) /\ Pos(t.run, t.key) = Pos(q.run, q.key)
  BY <1>0, <1>3, <1>4
<1>6. Passed(t) \subseteq Passed(q)
  <2> SUFFICES ASSUME NEW x \in ToSet(t.run), Pos(t.run, x) <= Pos(t.run, t.key)
               PROVE  x \in ToSet(q.run) /\ Pos(q.run, x) <= Pos(q.run, q.key)
    BY DEF Passed
  <2>1. x # r
    BY <1>0, <1>3, <1>4, <1>5
  <2>2. x \in ToSet(q.run) /\ x \in Keys(q.run)
    BY <2>1, <1>2 DEF Keys
  <2> QED BY <2>2, <1>0, <1>3, <1>4, <1>5
<1> QED BY <1>0, <1>2, <1>3, <1>5, <1>6

(* resume() puts the routine right after the one that executes, wherever   *)
(* it was before.                                                          *)
LEMMA AdvancedExactly ==
  ASSUME SelfCalls = {}, NEW q, WellFormed(q), NEW r \in Routine, r # current,
         Placed(q, current)
  PROVE  LET t == Advanced(q, r) IN
         /\ Listed(t) = Listed(q) \cup {r} /\ r \in ToSet(t.run)
         /\ current \in ToSet(t.run)
         /\ Pos(t.run, current) = Pos(t.run, t.key) + 1
         /\ Pos(t.run, r) = Pos(t.run, current) + 1
         /\ Passed(t) \subseteq Passed(q)
<1>1. ASSUME NEW u, WellFormed(u), Placed(u, current), r \notin Listed(u)
      PROVE  LET t == Registered(u, r, current) IN
             /\ Listed(t) = Listed(u) \cup {r} /\ r \in ToSet(t.run)
             /\ current \in ToSet(t.run)
             /\ Pos(t.run, current) = Pos(t.run, t.key) + 1
             /\ Pos(t.run, r) = Pos(t.run, current) + 1
             /\ Passed(t) \subseteq Passed(u)
  <2> DEFINE t == Registered(u, r, current)
  <2>1. current \in ToSet(u.run) /\ Pos(u.run, current) = Pos(u.run, u.key) + 1
    BY <1>1 DEF Placed
  <2>2. Accepted(u, r, current) /\ r \notin ToSet(u.run)
    BY <1>1, <2>1 DEF Accepted, CanInsert, Listed, Keys
  <2>3. t.key = u.key /\ t.sleep = u.sleep /\ t.run = Inserted(u.run, r, current)
    BY <1>1, <2>2, RegisteredKeeps
  <2> HIDE DEF t
  <2>4. /\ ToSet(t.run) = ToSet(u.run) \cup {r}
        /\ Pos(t.run, current) = Pos(t.run, t.key) + 1
        /\ Pos(t.run, r) = Pos(t.run, current) + 1
        /\ Passed(t) \subseteq Passed(u)
    BY <1>1, <2>1, <2>2, <2>3, InsertedAfterCurrent
  <2> QED BY <2>1, <2>3, <2>4 DEF Listed, t
<1>2. CASE Accepted(q, r, current)
  <2>1. r \notin Listed(q)
    BY <1>2 DEF Accepted, CanInsert, Listed
  <2>2. Advanced(q, r) = Registered(q, r, current)
    BY <1>2 DEF Advanced
  <2> QED BY <1>1, <2>1, <2>2
<1>3. CASE ~Accepted(q, r, current)
  <2> DEFINE u == Dropped(q, r)
  <2>1. r \in Listed(q)
    BY <1>3 DEF Accepted, CanInsert, Placed, Listed, Keys
  <2>2. /\ WellFormed(u) /\ Placed(u, current)
        /\ Listed(u) = Listed(q) \ {r} /\ Passed(u) \subseteq Passed(q)
    BY DroppedKeeps, DroppedPlaces, DroppedExactly
  <2>3. Advanced(q, r) = Registered(u, r, current)
    BY <1>3 DEF Advanced
  <2> HIDE DEF u
  <2> DEFINE t == Registered(u, r, current)
  <2>4. /\ Listed(t) = Listed(u) \cup {r} /\ r \in ToSet(t.run)
        /\ current \in ToSet(t.run)
        /\ Pos(t.run, current) = Pos(t.run, t.key) + 1
        /\ Pos(t.run, r) = Pos(t.run, current) + 1
        /\ Passed(t) \subseteq Passed(u)
    BY <1>1, <2>2
  <2> HIDE DEF t
  <2> QED BY <2>1, <2>2, <2>3, <2>4 DEF t
<1> QED BY <1>2, <1>3

(* Taking out the routine that executes, or has just executed, leaves the  *)
(* others listed, and none before currentkey that was not.                 *)
LEMMA BuriedExactly ==
  ASSUME IInv, current \in Routine,
         current \in ToSet(running) =>
           Pos(running, current) = Pos(running, currentkey) + 1
  PROVE  /\ ToSet(Buried) = ToSet(running) \ {current}
         /\ Passed([run |-> Buried, sleep |-> sleeping, key |-> currentkey]) \subseteq Passed(Queues)
         /\ WellFormed([run |-> Buried, sleep |-> sleeping, key |-> currentkey])
<1> DEFINE t == [run |-> Buried, sleep |-> sleeping, key |-> currentkey]
<1>0. /\ running \in Seq(Routine) /\ NoRepeats(running) /\ currentkey \in Keys(running)
      /\ WellFormed(Queues) /\ Queues.run = running /\ Queues.key = currentkey
  BY InvariantFacts DEF IInv, Queues
<1>1. t.run = Buried /\ t.key = currentkey
  OBVIOUS
<1>2. WellFormed(t)
  BY BuriedKeeps DEF Buried
<1> HIDE DEF t
<1>3. CASE current \in ToSet(running)
  <2>1. Pos(running, currentkey) \in Nat
    BY <1>0, Names, PosFacts DEF Keys
  <2>2. Found(running, current, currentkey) /\ current # currentkey
    BY <1>0, <1>3, <2>1 DEF Found
  <2>3. ToSet(Buried) = ToSet(running) \ {current}
    BY <1>0, <2>2, Names, RemovedFacts DEF Buried
  <2>4. Passed(t) \subseteq Passed(Queues)
    <3>1. t.run = Removed(Queues.run, current, currentkey)
      BY <1>0, <1>1 DEF Buried
    <3>2. /\ Found(Queues.run, current, currentkey)
          /\ t.key \in Keys(Queues.run) \ {current}
          /\ Pos(Queues.run, t.key) <= Pos(Queues.run, Queues.key)
      BY <1>0, <1>1, <2>1, <2>2
    <3> QED BY ONLY <1>0, <3>1, <3>2, current \in Routine, RemovalPasses
  <2> QED BY <1>2, <2>3, <2>4 DEF t
<1>4. CASE current \notin ToSet(running)
  <2>1. Buried = running
    BY <1>4 DEF Buried, Removed, Found
  <2>2. Passed(t) = Passed(Queues)
    BY <1>0, <1>1, <2>1 DEF Passed
  <2> QED BY <1>2, <1>4, <2>1, <2>2 DEF t
<1> QED BY <1>3, <1>4

(***************************************************************************)
(* The steps, once more: what each does to the turns.                      *)
(***************************************************************************)
(* What the two invariants say of the lists and of the routine executing.  *)
LEMMA TurnFacts ==
  ASSUME SelfCalls = {}, IInv, TurnInv
  PROVE  /\ TypeOK /\ WellFormed(Queues)
         /\ Queues.run = running /\ Queues.sleep = sleeping /\ Queues.key = currentkey
         /\ Listed(Queues) = ToSet(running) \cup ToSet(sleeping)
         /\ Listed(Queues) \subseteq Routine
         /\ ToSet(running) \cap ToSet(sleeping) = {}
         /\ \A r \in Listed(Queues) : status[r] # "new"
         /\ phase = "routine" =>
              /\ current \in ToSet(running) /\ current \in Routine /\ status[current] = "live"
              /\ Placed(Queues, current)
              /\ Pos(running, current) = Pos(running, currentkey) + 1
              /\ handoff = NIL
         /\ phase # "cycle" => handoff = NIL /\ \A r \in Listed(Queues) : status[r] = "live"
<1>1. /\ TypeOK /\ WellFormed(Queues) /\ Created(Queues)
      /\ Queues.run = running /\ Queues.sleep = sleeping /\ Queues.key = currentkey
      /\ Listed(Queues) = ToSet(running) \cup ToSet(sleeping)
  BY DEF IInv, Queues, Listed
<1>2. Listed(Queues) \subseteq Routine
  BY <1>1, Positions
<1>3. phase # "cycle" => handoff = NIL /\ \A r \in Listed(Queues) : status[r] = "live"
  BY DEF TurnInv, HandedOver, ListedAreLive
<1>4. phase = "routine" =>
        /\ current \in ToSet(running) /\ Placed(Queues, current)
        /\ Pos(running, current) = Pos(running, currentkey) + 1
  BY <1>1 DEF IInv, Placed
<1>5. ToSet(running) \cap ToSet(sleeping) = {}
  BY InvariantFacts
<1> QED BY <1>1, <1>2, <1>3, <1>4, <1>5 DEF Created

(* register(), remove() and halt().                                        *)
LEMMA CallsKeepTurn ==
  ASSUME SelfCalls = {}, IInv, TurnInv
  PROVE  /\ \A r \in Routine : Register(r) \/ Drop(r) => TurnInv'
         /\ Halt => TurnInv'
<1> USE TurnFacts
<1>1. ASSUME NEW r \in Routine, Register(r) PROVE TurnInv'
  <2> DEFINE q == Registered(Queues, r, NIL)
  <2>1. /\ Calling /\ SetQueues(q)
        /\ status' = [status EXCEPT ![r] = "live"] /\ parked' = parked \ {r}
        /\ current' = current /\ phase' = phase /\ served' = served /\ handoff' = handoff
    BY <1>1 DEF Register
  <2>2. /\ WellFormed(q) /\ q.key = currentkey
        /\ Listed(q) = Listed(Queues) \cup {r} /\ Passed(q) \subseteq Passed(Queues)
    BY RegisteredKeeps, RegisteredExactly
  <2> HIDE DEF q
  <2>3. Queues' = q /\ currentkey' = q.key
    BY <2>1, <2>2, SetQueuesFacts DEF SetQueues
  <2>4. phase \in {"stopped", "routine", "trap"} /\ handoff = NIL
    BY <2>1 DEF Calling
  <2>5. \A x \in Routine : status'[x] = IF x = r THEN "live" ELSE status[x]
    BY <2>1 DEF TypeOK
  <2>6. TurnKept'
    BY <2>1, <2>4 DEF TurnInv, TurnKept
  <2>7. ListedAreLive'
    BY <2>2, <2>3, <2>4, <2>5 DEF ListedAreLive
  <2>8. ParkedExist'
    BY <2>1, <2>5 DEF TurnInv, ParkedExist, TypeOK
  <2>9. NobodyForgotten'
    <3>1. Listed(Queues') = ToSet(running') \cup ToSet(sleeping')
      BY DEF Queues, Listed
    <3> QED BY <2>1, <2>2, <2>3, <2>5, <3>1 DEF TurnInv, NobodyForgotten
  <2>10. HandedOver'
    BY <2>1, <2>4 DEF HandedOver
  <2>11. ASSUME ~MayRaise PROVE PassedAreServed'
    BY <2>1, <2>2, <2>3, <2>4, <2>5, <2>11 DEF TurnInv, PassedAreServed, CycleServesAll
  <2> QED BY <2>6, <2>7, <2>8, <2>9, <2>10, <2>11 DEF TurnInv
<1>2. ASSUME NEW r \in Routine, Drop(r) PROVE TurnInv'
  <2> DEFINE q == Dropped(Queues, r)
  <2>1. /\ Calling /\ SetQueues(q) /\ MayName("remove", r) /\ status[r] = "live"
        /\ status' = status /\ parked' = parked \cup {r}
        /\ current' = current /\ phase' = phase /\ served' = served /\ handoff' = handoff
    BY <1>2 DEF Drop
  <2>2. r # current
    BY <2>1 DEF MayName
  <2>3. /\ WellFormed(q)
        /\ currentkey = FIRST => q.key = FIRST
        /\ ToSet(q.run) \subseteq ToSet(running)
        /\ Listed(q) = Listed(Queues) \ {r} /\ Passed(q) \subseteq Passed(Queues)
    <3>1. WellFormed(q)
      BY DroppedKeeps
    <3>2. /\ Queues.key = FIRST => q.key = FIRST
          /\ ToSet(q.run) = ToSet(Queues.run) \ {r}
          /\ Listed(q) = Listed(Queues) \ {r} /\ Passed(q) \subseteq Passed(Queues)
      <4>1. WellFormed(Queues)
        BY DEF IInv
      <4> QED BY ONLY <4>1, <2>2, r \in Routine, DroppedExactly
    <3> QED BY <3>1, <3>2
  <2> HIDE DEF q
  <2>4. Queues' = q /\ currentkey' = q.key /\ running' = q.run
    BY <2>1, <2>3, SetQueuesFacts DEF SetQueues
  <2>5. phase \in {"stopped", "routine", "trap"} /\ handoff = NIL
    BY <2>1 DEF Calling
  <2>6. TurnKept'
    BY <2>1, <2>5 DEF TurnInv, TurnKept
  <2>7. ListedAreLive'
    BY <2>1, <2>3, <2>4, <2>5 DEF ListedAreLive
  <2>8. ParkedExist'
    BY <2>1 DEF TurnInv, ParkedExist
  <2>9. NobodyForgotten'
    <3>1. Listed(Queues') = ToSet(running') \cup ToSet(sleeping')
      BY DEF Queues, Listed
    <3> QED BY <2>1, <2>3, <2>4, <3>1 DEF TurnInv, NobodyForgotten
  <2>10. HandedOver'
    BY <2>1, <2>5 DEF HandedOver
  <2>11. ASSUME ~MayRaise PROVE PassedAreServed'
    BY <2>1, <2>3, <2>4, <2>5, <2>11 DEF TurnInv, PassedAreServed, CycleServesAll
  <2> QED BY <2>6, <2>7, <2>8, <2>9, <2>10, <2>11 DEF TurnInv
<1>3. ASSUME Halt PROVE TurnInv'
  BY <1>3 DEF Halt, lists, history, TurnInv, TurnKept, ListedAreLive, ParkedExist,
              NobodyForgotten, HandedOver, PassedAreServed, CycleServesAll, Queues
<1> QED BY <1>1, <1>2, <1>3

(* The end of a turn keeps the invariant if it keeps these parts of it.    *)
LEMMA EndTurnKeepsTurn ==
  ASSUME SelfCalls = {}, IInv, TurnInv, EndTurn,
         current \in ToSet(running') =>
           Pos(running', current) = Pos(running', currentkey') + 1,
         \A r \in Listed(Queues') :
           status'[r] = "live" \/ (r = current /\ r \in ToSet(running')),
         ParkedExist', NobodyForgotten', HandedOver',
         Passed(Queues') \subseteq Passed(Queues),
         \A r \in Routine : status'[r] = "failed" =>
           status[r] = "failed" \/ r \in Trapped \/ MayRaise
  PROVE  TurnInv'
<1>1. /\ phase = "routine" /\ phase' = "cycle" /\ current' = current /\ served' = served
  BY DEF EndTurn
<1>2. TurnKept' /\ ListedAreLive'
  BY <1>1 DEF TurnKept, ListedAreLive
<1>3. ASSUME ~MayRaise PROVE PassedAreServed'
  BY <1>1, <1>3 DEF TurnInv, PassedAreServed, CycleServesAll
<1> QED BY <1>2, <1>3 DEF TurnInv

(* suspend(), with a time or without.                                      *)
LEMMA SuspendKeepsTurn ==
  ASSUME SelfCalls = {}, IInv, TurnInv
  PROVE  (\E d \in Delays : Suspend(d)) \/ Park => TurnInv'
<1> USE TurnFacts
<1> SUFFICES ASSUME (\E d \in Delays : Suspend(d)) \/ Park PROVE TurnInv'
  OBVIOUS
<1>1. /\ EndTurn /\ phase = "routine" /\ running' = Buried
      /\ currentkey' = currentkey /\ status' = status /\ handoff' = handoff
      /\ current' = current /\ phase' = "cycle"
  BY DEF Suspend, Park, EndTurn, Buried
<1>2. /\ current \in Routine /\ current \in ToSet(running)
      /\ status[current] = "live" /\ handoff = NIL
      /\ ToSet(Buried) = ToSet(running) \ {current}
      /\ Passed([run |-> Buried, sleep |-> sleeping, key |-> currentkey]) \subseteq Passed(Queues)
  BY <1>1, BuriedExactly
<1>3. \/ ToSet(sleeping') = ToSet(sleeping) \cup {current} /\ parked' = parked \ {current}
      \/ ToSet(sleeping') = ToSet(sleeping) /\ parked' = parked \cup {current}
  <2>1. CASE Park
    BY <2>1 DEF Park
  <2>2. ASSUME NEW d \in Delays, Suspend(d)
        PROVE  ToSet(sleeping') = ToSet(sleeping) \cup {current} /\ parked' = parked \ {current}
    <3>1. PICK i \in 1..(Len(sleeping) + 1) : sleeping' = InsertAt(sleeping, i, current)
      BY <2>2 DEF Suspend, Asleep
    <3>2. sleeping \in Seq(Routine) /\ NoRepeats(sleeping) /\ current \notin ToSet(sleeping)
      BY <1>2, InvariantFacts
    <3> QED BY <2>2, <3>1, <3>2, <1>2, Names, InsertAtDistinct DEF Suspend
  <2> QED BY <2>1, <2>2
<1>4. /\ Listed(Queues') = ToSet(running') \cup ToSet(sleeping')
      /\ Queues'.run = Buried /\ Queues'.key = currentkey
  BY <1>1 DEF Queues, Listed
<1>5. Passed(Queues') \subseteq Passed(Queues)
  BY <1>2, <1>4 DEF Passed
<1>6. ParkedExist'
  BY <1>1, <1>2, <1>3 DEF TurnInv, ParkedExist
<1>7. NobodyForgotten'
  BY <1>1, <1>2, <1>3 DEF TurnInv, NobodyForgotten
<1>8. HandedOver'
  BY <1>1, <1>2 DEF HandedOver
<1>9. \A r \in Listed(Queues') : status'[r] = "live"
  BY <1>1, <1>2, <1>3, <1>4
<1> QED BY <1>1, <1>2, <1>5, <1>6, <1>7, <1>8, <1>9, EndTurnKeepsTurn

(* resume(), start(), a yield and the end of a routine.                    *)
LEMMA HandOverKeepsTurn ==
  ASSUME SelfCalls = {}, IInv, TurnInv
  PROVE  /\ \A r \in Routine : Resume(r) \/ Start(r) => TurnInv'
         /\ Yield \/ (\E s \in {"done", "failed"} : End(s)) => TurnInv'
<1> USE TurnFacts
<1>1. ASSUME NEW r \in Routine, Resume(r) PROVE TurnInv'
  <2> DEFINE q == Advanced(Queues, r)
  <2>1. /\ EndTurn /\ SetQueues(q) /\ MayName("resume", r) /\ status[r] = "live"
        /\ parked' = parked \ {r} /\ handoff' = r /\ status' = status
        /\ phase = "routine" /\ phase' = "cycle" /\ current' = current
    BY <1>1 DEF Resume, EndTurn
  <2>2. r # current
    BY <2>1 DEF MayName
  <2>3. /\ WellFormed(q) /\ Listed(q) = Listed(Queues) \cup {r} /\ r \in ToSet(q.run)
        /\ current \in ToSet(q.run)
        /\ Pos(q.run, current) = Pos(q.run, q.key) + 1
        /\ Pos(q.run, r) = Pos(q.run, current) + 1
        /\ Passed(q) \subseteq Passed(Queues)
    BY <2>1, <2>2, AdvancedKeeps, AdvancedExactly
  <2> HIDE DEF q
  <2>4. Queues' = q /\ running' = q.run /\ currentkey' = q.key
    BY <2>1, <2>3, SetQueuesFacts DEF SetQueues
  <2>5. Listed(Queues') = ToSet(running') \cup ToSet(sleeping')
    BY DEF Queues, Listed
  <2>6. ParkedExist'
    BY <2>1 DEF TurnInv, ParkedExist
  <2>7. NobodyForgotten'
    BY <2>1, <2>3, <2>4, <2>5 DEF TurnInv, NobodyForgotten
  <2>8. HandedOver'
    BY <2>1, <2>3, <2>4 DEF HandedOver
  <2>9. \A x \in Listed(Queues') : status'[x] = "live"
    BY <2>1, <2>3, <2>4
  <2> QED BY <2>1, <2>3, <2>4, <2>6, <2>7, <2>8, <2>9, EndTurnKeepsTurn
<1>2. ASSUME NEW r \in Routine, Start(r) PROVE TurnInv'
  <2>1. /\ EndTurn /\ status[r] = "new" /\ running' = Inserted(running, r, current)
        /\ status' = [status EXCEPT ![r] = "live"] /\ handoff' = r
        /\ sleeping' = sleeping /\ currentkey' = currentkey /\ parked' = parked
        /\ phase = "routine" /\ phase' = "cycle" /\ current' = current
    BY <1>2 DEF Start, EndTurn
  <2>2. r \notin Listed(Queues)
    BY <2>1
  <2>3. Queues'.run = Inserted(Queues.run, r, current) /\ Queues'.key = Queues.key
    BY <2>1 DEF Queues
  <2>4. /\ ToSet(running') = ToSet(running) \cup {r}
        /\ Pos(running', current) = Pos(running', currentkey') + 1
        /\ Pos(running', r) = Pos(running', current) + 1
        /\ Passed(Queues') \subseteq Passed(Queues)
    <3>1. r \notin ToSet(Queues.run) /\ current \in ToSet(Queues.run)
          /\ Pos(Queues.run, current) = Pos(Queues.run, Queues.key) + 1
      BY <2>1, <2>2
    <3>2. /\ ToSet(Queues'.run) = ToSet(Queues.run) \cup {r}
          /\ Pos(Queues'.run, current) = Pos(Queues'.run, Queues'.key) + 1
          /\ Pos(Queues'.run, r) = Pos(Queues'.run, current) + 1
          /\ Passed(Queues') \subseteq Passed(Queues)
      BY <2>3, <3>1, InsertedAfterCurrent
    <3>3. Queues'.run = running' /\ Queues'.key = currentkey'
      BY DEF Queues
    <3> QED BY <3>2, <3>3
  <2>5. Listed(Queues') = ToSet(running') \cup ToSet(sleeping')
    BY DEF Queues, Listed
  <2>6. \A x \in Routine : status'[x] = IF x = r THEN "live" ELSE status[x]
    BY <2>1 DEF TypeOK
  <2>7. ParkedExist' /\ r \notin parked
    BY <2>1, <2>6 DEF TurnInv, ParkedExist, TypeOK
  <2>8. NobodyForgotten'
    BY <2>1, <2>4, <2>6, <2>7 DEF TurnInv, NobodyForgotten
  <2>9. HandedOver'
    BY <2>1, <2>4, <2>6 DEF HandedOver
  <2>10. \A x \in Listed(Queues') : status'[x] = "live"
    BY <2>1, <2>4, <2>5, <2>6
  <2> QED BY <2>1, <2>4, <2>6, <2>7, <2>8, <2>9, <2>10, EndTurnKeepsTurn
<1>3. ASSUME Yield PROVE TurnInv'
  <2>1. /\ EndTurn /\ running' = running /\ sleeping' = sleeping /\ currentkey' = currentkey
        /\ status' = status /\ parked' = parked /\ handoff' = handoff /\ Queues' = Queues
        /\ phase = "routine"
    BY <1>3 DEF Yield, EndTurn, lists, Queues
  <2>2. ParkedExist' /\ NobodyForgotten' /\ HandedOver'
    BY <2>1 DEF TurnInv, ParkedExist, NobodyForgotten, HandedOver
  <2> QED BY <2>1, <2>2, EndTurnKeepsTurn
<1>4. ASSUME NEW s \in {"done", "failed"}, End(s) PROVE TurnInv'
  <2>1. /\ EndTurn /\ status' = [status EXCEPT ![current] = s]
        /\ parked' = parked \ {current} /\ Queues' = Queues
        /\ running' = running /\ sleeping' = sleeping
        /\ currentkey' = currentkey /\ handoff' = handoff
        /\ phase = "routine"
        /\ s = "failed" => current \in Trapped \/ MayRaise
    BY <1>4 DEF End, EndTurn, lists, Queues
  <2>2. \A x \in Routine : status'[x] = IF x = current THEN s ELSE status[x]
    BY <2>1 DEF TypeOK
  <2>3. ParkedExist'
    BY <2>1, <2>2 DEF TurnInv, ParkedExist, TypeOK
  <2>4. NobodyForgotten'
    BY <2>1, <2>2 DEF TurnInv, NobodyForgotten
  <2>5. HandedOver'
    BY <2>1 DEF HandedOver
  <2>6. \A x \in Listed(Queues') : status'[x] = "live" \/ (x = current /\ x \in ToSet(running'))
    BY <2>1, <2>2
  <2> QED BY <2>1, <2>2, <2>3, <2>4, <2>5, <2>6, EndTurnKeepsTurn
<1> QED BY <1>1, <1>2, <1>3, <1>4

(* Resuming the routine after a key that is not before the ones served: at *)
(* the end of the list all have been.                                      *)
LEMMA ResumeAfterKeepsTurn ==
  ASSUME SelfCalls = {}, IInv, TurnInv, NEW run, NEW key,
         WellFormed([run |-> run, sleep |-> sleeping, key |-> key]),
         ResumeAfter(run, key),
         running' = run, sleeping' = sleeping, status' = status, parked' = parked,
         \A r \in ToSet(run) \cup ToSet(sleeping) : status[r] = "live",
         \A r \in Routine : status[r] = "live" => (r \in ToSet(run) <=> r \in ToSet(running)),
         ~MayRaise => Passed([run |-> run, sleep |-> sleeping, key |-> key]) \subseteq served
  PROVE  TurnInv'
<1> DEFINE q == [run |-> run, sleep |-> sleeping, key |-> key]
<1>1. /\ handoff' = NIL /\ phase' \in {"routine", "stepped"}
      /\ phase' = "stepped" =>
           current' = NIL /\ currentkey' = FIRST /\ served' = served /\ ValueAfter(run, key) = NIL
      /\ phase' = "routine" =>
           currentkey' = key /\ served' = served \cup {current'}
  BY DEF ResumeAfter
<1>2. Listed(Queues') = ToSet(run) \cup ToSet(sleeping)
  BY DEF Queues, Listed
<1>3. TurnKept' /\ HandedOver'
  BY <1>1 DEF TurnKept, HandedOver
<1>4. ListedAreLive'
  BY <1>2 DEF ListedAreLive
<1>5. ParkedExist' /\ NobodyForgotten'
  BY DEF TurnInv, ParkedExist, NobodyForgotten
<1>6. ASSUME ~MayRaise PROVE PassedAreServed'
  <2>1. /\ Passed(q) \subseteq served
        /\ \A r \in Routine : status'[r] = "failed" => r \in Trapped
    BY <1>6 DEF TurnInv, PassedAreServed
  <2>2. CASE phase' = "routine"
    <3>1. Queues' = q
      BY <1>1, <2>2 DEF Queues
    <3> HIDE DEF q
    <3> QED BY <1>1, <2>1, <2>2, <3>1 DEF PassedAreServed, CycleServesAll
  <2>3. CASE phase' = "stepped"
    <3>1. q.run = run /\ q.key = key /\ WellFormed(q)
      OBVIOUS
    <3> HIDE DEF q
    <3>2. /\ Pos(run, key) \in 0..Len(run) /\ Len(run) \in Nat /\ key \in Keys(run)
          /\ \A r \in ToSet(run) : Pos(run, r) \in 1..Len(run)
          /\ \A i \in 1..Len(run) : run[i] \in ToSet(run) /\ run[i] \in Routine
      <4>1. run \in Seq(Routine) /\ NoRepeats(run) /\ key \in Keys(run)
        BY <3>1 DEF WellFormed, QueueRecord
      <4> QED BY <4>1, Names, PosFacts DEF Keys
    <3>3. Pos(run, key) = Len(run)
      <4> SUFFICES ASSUME Pos(run, key) < Len(run) PROVE FALSE
        BY <3>2
      <4>1. Pos(run, key) + 1 \in 1..Len(run)
        BY <3>2
      <4>2. ValueAfter(run, key) = run[Pos(run, key) + 1]
        BY <3>2 DEF ValueAfter
      <4> QED BY <4>1, <4>2, <3>2, <1>1, <2>3, Names
    <3>4. ToSet(run) \subseteq Passed(q)
      BY <3>1, <3>2, <3>3 DEF Passed
    <3> QED BY <1>1, <2>1, <2>3, <3>4 DEF PassedAreServed, CycleServesAll
  <2> QED BY <1>1, <2>2, <2>3
<1> QED BY <1>3, <1>4, <1>5, <1>6 DEF TurnInv

(* The steps of resumeall.                                                 *)
LEMMA CycleKeepsTurn ==
  ASSUME SelfCalls = {}, IInv, TurnInv
  PROVE  NextRoutine \/ Bury \/ CallTrap \/ TrapReturns \/ Raise => TurnInv'
<1> USE TurnFacts
<1>1. ASSUME NextRoutine PROVE TurnInv'
  <2> DEFINE key == IF current \in ToSet(running) THEN current ELSE currentkey
             t == [run |-> running, sleep |-> sleeping, key |-> key]
  <2>1. /\ phase = "cycle" /\ ~Ended /\ ResumeAfter(running, key)
        /\ running' = running /\ sleeping' = sleeping /\ status' = status /\ parked' = parked
    BY <1>1 DEF NextRoutine, InCycle
  <2>2. /\ running \in Seq(Routine) /\ sleeping \in Seq(Routine)
        /\ NoRepeats(running) /\ NoRepeats(sleeping)
        /\ currentkey \in Keys(running) /\ currentkey \in Routine \cup {FIRST}
    BY InvariantFacts
  <2>3. key \in Keys(running) /\ key \in Routine \cup {FIRST}
    BY <2>2 DEF Keys
  <2>4. WellFormed(t)
    BY <2>2, <2>3, WellFormedQueues
  <2>5. \A r \in Listed(Queues) : status[r] = "live"
    <3> SUFFICES ASSUME current \in Listed(Queues), status[current] # "live" PROVE FALSE
      BY DEF TurnInv, ListedAreLive
    <3>1. current \in Routine /\ status[current] \in {"done", "failed"}
      BY DEF TypeOK
    <3> QED BY <2>1, <3>1, Names DEF Ended
  <2>6. ASSUME ~MayRaise PROVE Passed(t) \subseteq served
    <3>1. /\ Passed(Queues) \subseteq served
          /\ current # NIL => current \in served
          /\ current \in ToSet(running) => Pos(running, current) = Pos(running, currentkey) + 1
      BY <2>1, <2>6 DEF TurnInv, PassedAreServed, TurnKept
    <3>2. t.run = running /\ t.key = key
      OBVIOUS
    <3> HIDE DEF t
    <3>3. CASE current \in ToSet(running)
      <4> SUFFICES ASSUME NEW x \in ToSet(running), Pos(running, x) <= Pos(running, current)
                   PROVE  x \in served
        BY <3>2, <3>3 DEF Passed
      <4>1. /\ Pos(running, x) \in Nat /\ Pos(running, currentkey) \in Nat
            /\ Pos(running, x) = Pos(running, current) => x = current
        <5>1. WellFormed(Queues) /\ Queues.run = running /\ Queues.key = currentkey
          OBVIOUS
        <5>2. x \in Keys(running) /\ current \in Keys(running) /\ currentkey \in Keys(running)
          BY <2>2, <3>3 DEF Keys
        <5> QED BY ONLY <5>1, <5>2, Positions
      <4>2. CASE Pos(running, x) <= Pos(running, currentkey)
        BY <4>2, <3>1 DEF Passed
      <4>3. CASE Pos(running, x) = Pos(running, current)
        BY <4>1, <4>3, <3>1, <3>3, Names
      <4> QED BY <4>1, <4>2, <4>3, <3>1, <3>3
    <3>4. CASE current \notin ToSet(running)
      BY <3>1, <3>2, <3>4 DEF Passed
    <3> QED BY <3>3, <3>4
  <2> HIDE DEF key
  <2>7. Passed([run |-> running, sleep |-> sleeping, key |-> key]) = Passed(t)
    OBVIOUS
  <2> QED BY <2>1, <2>4, <2>5, <2>6, ResumeAfterKeepsTurn
<1>2. ASSUME InCycle, Ended
      PROVE  /\ current \in Routine /\ status[current] # "live" /\ handoff = NIL
             /\ WellFormed([run |-> Buried, sleep |-> sleeping, key |-> currentkey])
             /\ Passed([run |-> Buried, sleep |-> sleeping, key |-> currentkey]) \subseteq Passed(Queues)
             /\ ToSet(Buried) = ToSet(running) \ {current}
             /\ \A r \in ToSet(Buried) \cup ToSet(sleeping) : status[r] = "live"
             /\ ~MayRaise => Passed(Queues) \subseteq served
             /\ phase = "cycle" /\ sleeping' = sleeping /\ status' = status /\ parked' = parked
  <2>1. /\ phase = "cycle" /\ current \in Routine /\ status[current] \in {"done", "failed"}
        /\ sleeping' = sleeping /\ status' = status /\ parked' = parked
    BY <1>2 DEF InCycle, Ended, TypeOK, Maybe
  <2>2. current \in ToSet(running) => Pos(running, current) = Pos(running, currentkey) + 1
    BY <2>1 DEF TurnInv, TurnKept
  <2>3. /\ ToSet(Buried) = ToSet(running) \ {current}
        /\ WellFormed([run |-> Buried, sleep |-> sleeping, key |-> currentkey])
        /\ Passed([run |-> Buried, sleep |-> sleeping, key |-> currentkey]) \subseteq Passed(Queues)
    BY <2>1, <2>2, BuriedExactly
  <2>4. handoff = NIL
    BY <2>1 DEF TurnInv, HandedOver
  <2>5. \A r \in ToSet(Buried) \cup ToSet(sleeping) : status[r] = "live"
    BY <2>3 DEF TurnInv, ListedAreLive
  <2>6. ~MayRaise => Passed(Queues) \subseteq served
    BY <2>1 DEF TurnInv, PassedAreServed
  <2> QED BY <2>1, <2>3, <2>4, <2>5, <2>6
<1>3. ASSUME Bury PROVE TurnInv'
  <2>1. InCycle /\ Ended /\ running' = Buried /\ ResumeAfter(Buried, currentkey)
    BY <1>3 DEF Bury
  <2> QED BY <1>2, <2>1, ResumeAfterKeepsTurn
<1>4. ASSUME CallTrap \/ Raise PROVE TurnInv'
  <2>1. /\ InCycle /\ Ended /\ running' = Buried /\ current' = NIL
        /\ currentkey' = currentkey /\ served' = served
        /\ phase' = "trap" \/ (phase' = "stopped" /\ status[current] = "failed" /\ current \notin Trapped)
        /\ handoff' = handoff \/ handoff' = NIL
    BY <1>4 DEF CallTrap, Raise
  <2>2. /\ Listed(Queues') = ToSet(Buried) \cup ToSet(sleeping)
        /\ Queues' = [run |-> Buried, sleep |-> sleeping, key |-> currentkey]
    BY <1>2, <2>1 DEF Queues, Listed
  <2>3. TurnKept' /\ HandedOver'
    BY <1>2, <2>1 DEF TurnKept, HandedOver
  <2>4. ListedAreLive' /\ ParkedExist'
    BY <1>2, <2>1, <2>2 DEF ListedAreLive, TurnInv, ParkedExist
  <2>5. NobodyForgotten'
    BY <1>2, <2>1 DEF TurnInv, NobodyForgotten
  <2>6. ASSUME ~MayRaise PROVE PassedAreServed'
    <3>1. \A r \in Routine : status[r] = "failed" => r \in Trapped
      BY <2>6 DEF TurnInv, PassedAreServed
    <3>2. phase' = "trap"
      BY <1>2, <2>1, <3>1
    <3>3. Passed(Queues') \subseteq served
      BY <1>2, <2>1, <2>2, <2>6
    <3> QED BY <1>2, <2>1, <3>1, <3>2, <3>3 DEF PassedAreServed, CycleServesAll
  <2> QED BY <2>3, <2>4, <2>5, <2>6 DEF TurnInv
<1>5. ASSUME TrapReturns PROVE TurnInv'
  <2>1. /\ phase = "trap" /\ phase' = "cycle" /\ Queues' = Queues /\ handoff' = handoff
        /\ running' = running /\ sleeping' = sleeping /\ status' = status
        /\ current' = current /\ currentkey' = currentkey /\ served' = served /\ parked' = parked
    BY <1>5 DEF TrapReturns, lists, history, Queues
  <2>2. current = NIL /\ NIL \notin ToSet(running)
    BY <2>1, Names DEF TurnInv, TurnKept
  <2>3. TurnKept' /\ HandedOver' /\ ListedAreLive'
    BY <2>1, <2>2 DEF TurnKept, HandedOver, ListedAreLive
  <2>4. ParkedExist' /\ NobodyForgotten'
    BY <2>1 DEF TurnInv, ParkedExist, NobodyForgotten
  <2>5. ASSUME ~MayRaise PROVE PassedAreServed'
    BY <2>1, <2>2, <2>5 DEF TurnInv, PassedAreServed, CycleServesAll
  <2> QED BY <2>3, <2>4, <2>5 DEF TurnInv
<1> QED BY <1>1, <1>3, <1>4, <1>5

(* wakeupall moves routines from one list to the other.                    *)
LEMMA WakeUpKeepsTurn ==
  ASSUME SelfCalls = {}, IInv, TurnInv, WakeUpAll
  PROVE  TurnInv'
<1> USE TurnFacts
<1>1. /\ phase = "step" /\ phase' = "cycle" /\ served' = {} /\ current' = current
      /\ currentkey' = currentkey /\ status' = status /\ parked' = parked
      /\ handoff' = handoff /\ current = NIL /\ handoff = NIL
  BY DEF WakeUpAll, TurnInv, TurnKept
<1>2. ToSet(running') \cup ToSet(sleeping') = ToSet(running) \cup ToSet(sleeping)
  <2>1. PICK n \in 0..Len(sleeping) :
          /\ running' = running \o SubSeq(sleeping, 1, n)
          /\ sleeping' = SubSeq(sleeping, n + 1, Len(sleeping))
    BY DEF WakeUpAll
  <2> DEFINE awake == SubSeq(sleeping, 1, n)
             rest == SubSeq(sleeping, n + 1, Len(sleeping))
  <2>2. /\ running \in Seq(Routine) /\ NoRepeats(running)
        /\ sleeping \in Seq(Routine) /\ NoRepeats(sleeping)
        /\ ToSet(running) \cap ToSet(sleeping) = {}
    BY InvariantFacts
  <2>3. /\ awake \in Seq(Routine) /\ NoRepeats(awake)
        /\ ToSet(awake) \cup ToSet(rest) = ToSet(sleeping)
    BY <2>2, Names, SplitFacts
  <2>4. running' = running \o awake /\ sleeping' = rest
    BY <2>1
  <2> HIDE DEF awake, rest
  <2>5. ToSet(running) \cap ToSet(awake) = {}
    BY <2>2, <2>3
  <2>6. ToSet(running \o awake) = ToSet(running) \cup ToSet(awake)
    BY ONLY <2>2, <2>3, <2>5, Names, JoinFacts
  <2> QED BY <2>3, <2>4, <2>6
<1>3. Listed(Queues') = Listed(Queues)
  BY <1>2 DEF Queues, Listed
<1>4. TurnKept' /\ HandedOver' /\ ListedAreLive'
  <2>1. NIL \notin ToSet(running')
    BY <1>2, Names
  <2> QED BY <1>1, <1>3, <2>1 DEF TurnKept, HandedOver, ListedAreLive
<1>5. ParkedExist' /\ NobodyForgotten'
  BY <1>1, <1>2 DEF TurnInv, ParkedExist, NobodyForgotten
<1>6. ASSUME ~MayRaise PROVE PassedAreServed'
  <2>1. /\ currentkey' = FIRST
        /\ \A r \in Routine : status'[r] = "failed" => r \in Trapped
    BY <1>1, <1>6 DEF TurnInv, PassedAreServed
  <2>2. WellFormed(Queues')
    BY WakeUpKeeps DEF IInv
  <2>3. Queues'.key = FIRST
    BY <2>1 DEF Queues
  <2>4. /\ Pos(Queues'.run, FIRST) = 0
        /\ \A r \in ToSet(Queues'.run) : Pos(Queues'.run, r) \in 1..Len(Queues'.run)
        /\ Len(Queues'.run) \in Nat
    BY ONLY <2>2, Positions
  <2>5. Passed(Queues') = {}
    BY <2>3, <2>4 DEF Passed
  <2> QED BY <1>1, <2>1, <2>5 DEF PassedAreServed, CycleServesAll
<1> QED BY <1>4, <1>5, <1>6 DEF TurnInv

(* Every step of the scheduler and of its routines.                        *)
LEMMA TurnInvariance ==
  ASSUME SelfCalls = {}
  PROVE  IInv /\ TurnInv /\ [Next]_vars => TurnInv'
<1> SUFFICES ASSUME IInv, TurnInv, [Next]_vars PROVE TurnInv'
  OBVIOUS
<1>1. ASSUME RunAgain \/ RunEnds \/ \E timeout \in Maybe(RunLimits) : Run(timeout)
      PROVE  TurnInv'
  <2>1. /\ phase \in {"stepped", "stopped"} /\ phase' \in {"step", "stopped"}
        /\ running' = running /\ sleeping' = sleeping /\ status' = status
        /\ current' = current /\ currentkey' = currentkey /\ served' = served
        /\ parked' = parked /\ handoff' = handoff /\ Queues' = Queues
    BY <1>1 DEF RunAgain, RunEnds, Run, lists, history, Queues
  <2>2. TurnKept' /\ HandedOver' /\ ListedAreLive'
    BY <2>1 DEF TurnInv, TurnKept, HandedOver, ListedAreLive
  <2>3. ParkedExist' /\ NobodyForgotten'
    BY <2>1 DEF TurnInv, ParkedExist, NobodyForgotten
  <2>4. ASSUME ~MayRaise PROVE PassedAreServed'
    BY <2>1, <2>4 DEF TurnInv, PassedAreServed, CycleServesAll
  <2> QED BY <2>2, <2>3, <2>4 DEF TurnInv
<1>2. ASSUME Tick \/ UNCHANGED vars PROVE TurnInv'
  <2>1. /\ phase' = phase
        /\ running' = running /\ sleeping' = sleeping /\ status' = status
        /\ current' = current /\ currentkey' = currentkey /\ served' = served
        /\ parked' = parked /\ handoff' = handoff /\ Queues' = Queues
    BY <1>2 DEF Tick, vars, lists, history, Queues
  <2> QED BY <2>1 DEF TurnInv, TurnKept, HandedOver, ListedAreLive, ParkedExist,
                      NobodyForgotten, PassedAreServed, CycleServesAll
<1>3. ASSUME TurnEnds PROVE TurnInv'
  BY <1>3, SuspendKeepsTurn, HandOverKeepsTurn DEF TurnEnds
<1>4. ASSUME Control PROVE TurnInv'
  BY <1>1, <1>4, CycleKeepsTurn, WakeUpKeepsTurn DEF Control
<1> QED BY <1>1, <1>2, <1>3, <1>4, CallsKeepTurn DEF Next

(* Nothing is listed, and nobody has been created.                         *)
LEMMA TurnBeginning == Init => TurnInv
<1> SUFFICES ASSUME Init PROVE TurnInv
  OBVIOUS
<1>1. /\ running = <<>> /\ sleeping = <<>> /\ current = NIL /\ currentkey = FIRST
      /\ phase = "stopped" /\ status = [r \in Routine |-> "new"] /\ parked = {} /\ handoff = NIL
  BY DEF Init
<1>2. ToSet(running) = {} /\ ToSet(sleeping) = {} /\ Listed(Queues) = {}
  BY <1>1 DEF ToSet, Listed, Queues
<1>3. \A r \in Routine : status[r] = "new"
  BY <1>1
<1> QED BY <1>1, <1>2, <1>3 DEF TurnInv, TurnKept, ListedAreLive, ParkedExist,
                               NobodyForgotten, HandedOver, PassedAreServed, CycleServesAll

(* If no routine names itself in a call, a routine that is alive is in the *)
(* lists exactly if it is not parked: resume(), start(), remove() and the  *)
(* burial of the dead never lose one or bring one back.                    *)
THEOREM NobodyIsForgotten ==
  ASSUME SelfCalls = {}
  PROVE  Spec => []NobodyForgotten
<1>1. Init => IInv /\ TurnInv
  BY Beginning, TurnBeginning
<1>2. IInv /\ TurnInv /\ [Next]_vars => IInv' /\ TurnInv'
  BY Invariance, TurnInvariance
<1>3. TurnInv => NobodyForgotten
  BY DEF TurnInv
<1> QED BY <1>1, <1>2, <1>3, PTL DEF Spec

(* If moreover errors are trapped, a cycle of resumeall ends only when all *)
(* the routines that are then ready have been executed in it, whatever     *)
(* they did to the list: the documentation's "at least once".              *)
THEOREM EveryCycleServesAll ==
  ASSUME SelfCalls = {}, ~MayRaise
  PROVE  Spec => []CycleServesAll
<1>1. Init => IInv /\ TurnInv
  BY Beginning, TurnBeginning
<1>2. IInv /\ TurnInv /\ [Next]_vars => IInv' /\ TurnInv'
  BY Invariance, TurnInvariance
<1>3. TurnInv => CycleServesAll
  BY DEF TurnInv, PassedAreServed
<1> QED BY <1>1, <1>2, <1>3, PTL DEF Spec

(* The routine named by resume() or start() is the next that executes: no  *)
(* removal, registration or wake-up comes between.                         *)
THEOREM SwitchesAreImmediate ==
  ASSUME SelfCalls = {}
  PROVE  Spec => SwitchIsImmediate
<1> DEFINE Immediate == phase = "cycle" /\ phase' # "cycle" /\ handoff # NIL => current' = handoff
<1>1. Init => IInv /\ TurnInv
  BY Beginning, TurnBeginning
<1>2. IInv /\ TurnInv /\ [Next]_vars => IInv' /\ TurnInv'
  BY Invariance, TurnInvariance
<1>3. IInv /\ TurnInv /\ [Next]_vars => [Immediate]_vars
  <2> SUFFICES ASSUME IInv, TurnInv, [Next]_vars,
                      phase = "cycle", phase' # "cycle", handoff # NIL
               PROVE  current' = handoff
    OBVIOUS
  <2>1. /\ current \in ToSet(running) /\ status[current] = "live"
        /\ handoff \in ToSet(running) /\ Pos(running, handoff) = Pos(running, current) + 1
    BY DEF TurnInv, HandedOver
  <2>2. ~Ended
    BY <2>1 DEF Ended
  <2>3. NextRoutine
    <3>1. ~(\E r \in Routine : Register(r) \/ Drop(r)) /\ ~Halt
      BY DEF Register, Drop, Halt, Calling
    <3>2. ~TurnEnds
      BY DEF TurnEnds, Suspend, Park, Resume, Start, Yield, End, EndTurn
    <3>3. ~Bury /\ ~CallTrap /\ ~Raise
      BY <2>2 DEF Bury, CallTrap, Raise
    <3>4. ~TrapReturns /\ ~WakeUpAll /\ ~RunAgain /\ ~RunEnds
      BY DEF TrapReturns, WakeUpAll, RunAgain, RunEnds
    <3>5. ~(\E timeout \in Maybe(RunLimits) : Run(timeout)) /\ ~Tick /\ ~UNCHANGED vars
      BY DEF Run, Tick, vars
    <3> QED BY <3>1, <3>2, <3>3, <3>4, <3>5 DEF Next, Control
  <2>4. ResumeAfter(running, current)
    BY <2>1, <2>3 DEF NextRoutine
  <2>5. running \in Seq(Routine) /\ NoRepeats(running)
    BY InvariantFacts
  <2>6. /\ Pos(running, handoff) \in 1..Len(running)
        /\ running[Pos(running, handoff)] = handoff
        /\ Pos(running, current) \in Nat /\ Len(running) \in Nat
        /\ handoff \in Routine
    BY <2>1, <2>5, Names, PosFacts
  <2>7. Pos(running, current) < Len(running) /\ current \in Keys(running)
    BY <2>1, <2>6 DEF Keys
  <2>8. ValueAfter(running, current) = handoff
    BY <2>1, <2>6, <2>7 DEF ValueAfter
  <2> QED BY <2>4, <2>6, <2>8, Names DEF ResumeAfter
<1>4. SwitchIsImmediate <=> [][Immediate]_vars
  BY DEF SwitchIsImmediate
<1> HIDE DEF Immediate
<1> QED BY <1>1, <1>2, <1>3, <1>4, PTL DEF Spec
-----------------------------------------------------------------------------
(***************************************************************************)
(* The socket calls of the scheduler: routines are listed once, sockets    *)
(* locked exactly while they are used, no routine is lost, and a timeout   *)
(* is told only when it is over, for every set of routines and sockets.    *)
(***************************************************************************)

(***************************************************************************)
(* The inductive invariant.                                                *)
(***************************************************************************)
IOTypes ==
  /\ running \in Seq(Routine) /\ sleeping \in Seq(Routine)
  /\ wake \in [Routine -> Int] /\ currentkey \in Routine \cup {FIRST}
  /\ current \in Maybe(Routine) /\ clock \in Nat
  /\ status \in [Routine -> {"new", "live", "done", "failed"}]
  /\ waiting \in [Side -> Maybe(Routine)] /\ locked \subseteq Side /\ ready \subseteq Side
  /\ op \in [Routine -> Calls \cup {NIL}]

(* A list of the ready alone: the sleepers may share routines with it.     *)
Ready(run, key) == [run |-> run, sleep |-> <<>>, key |-> key]

ListsInv == WellFormed(Ready(running, currentkey)) /\ NoRepeats(sleeping)

(* Only coroutines that exist are listed or in a call.                     *)
ExistInv ==
  \A r \in Routine :
    r \in ToSet(running) \cup ToSet(sleeping) \/ op[r] # NIL => status[r] # "new"

(* The routine executing stands after currentkey, and is not asleep unless *)
(* it has just been resumed in the middle of a call.                       *)
TurnPlaced ==
  phase = "routine" =>
    /\ Placed(Ready(running, currentkey), current) /\ status[current] # "new"
    /\ op[current] = NIL => current \notin ToSet(sleeping)

(* The call sleeps until its time is over.                                 *)
Timed(call) == IF call.kind = "accept" THEN call.timeout # NIL ELSE Positive(call.timeout)

Active == ToSet(running) \cup IF phase = "routine" THEN {current} ELSE {}

(* A call on one socket whose routine is going on while still subscribed   *)
(* was woken by its timeout: it is asleep no more.                         *)
CallsInv ==
  /\ \A r \in ToSet(running) \cap ToSet(sleeping) : op[r] # NIL
  /\ \A r \in Routine : op[r] # NIL =>
       /\ op[r].kind # "select" => \E e \in Side : op[r].sides = {e}
       /\ r \in ToSet(sleeping) => Timed(op[r])
       /\ op[r].kind # "select" /\ r \in Active \cap Waiters => r \notin ToSet(sleeping)

IOInv ==
  /\ IOTypes /\ ListsInv /\ ExistInv /\ TurnPlaced /\ CallsInv /\ LocksMatchCalls
  /\ SelfCalls = {} => NobodyLost

(* When nobody interrupts a call: it sleeps until the time it was given;   *)
(* it is woken by its timeout when that is over, or by a signal when the   *)
(* socket is ready, and accept finds it so.                                *)
OnTime(r) ==
  /\ r \in ToSet(sleeping) => wake[r] = op[r].from + op[r].timeout
  /\ op[r].kind # "select" /\ r \in Active \cap Waiters =>
       Timed(op[r]) /\ Seconds >= op[r].from + op[r].timeout
  /\ op[r].kind = "accept" /\ r \notin Waiters => op[r].sides \subseteq ready

TimeInv == \A r \in Routine : op[r] # NIL => OnTime(r)

(***************************************************************************)
(* Lists.                                                                  *)
(***************************************************************************)
(* What Enqueued computes, up to each of the routines.                     *)
LEMMA EnqueuedSteps ==
  ASSUME NEW run \in Seq(Routine), NEW w \in Seq(Routine)
  PROVE  \E f \in [0..Len(w) -> Seq(Routine)] :
           /\ f[0] = run /\ \A i \in 1..Len(w) : f[i] = Inserted(f[i - 1], w[i], NIL)
           /\ Enqueued(run, w) = f[Len(w)]
<1> DEFINE Steps(n, f) == /\ f \in [0..n -> Seq(Routine)] /\ f[0] = run
                          /\ \A i \in 1..n : f[i] = Inserted(f[i - 1], w[i], NIL)
           Missing == {n \in Nat : n <= Len(w) /\ \A f : ~ Steps(n, f)}
<1>0. Len(w) \in Nat
  BY LenProperties
<1>1. Missing = {}
  <2> SUFFICES ASSUME Missing # {} PROVE FALSE
    OBVIOUS
  <2>1. PICK m \in Missing : \A n \in Missing : m <= n
    <3>1. Missing \in SUBSET Nat
      OBVIOUS
    <3> HIDE DEF Missing
    <3> QED BY <3>1, LeastNatural
  <2>2. m \in Nat /\ m <= Len(w) /\ \A f : ~ Steps(m, f)
    OBVIOUS
  <2>3. CASE m = 0
    <3> DEFINE f == [i \in 0..0 |-> run]
    <3>1. f \in [0..0 -> Seq(Routine)] /\ f[0] = run /\ 1..0 = {}
      OBVIOUS
    <3>2. Steps(0, f)
      BY <3>1
    <3> QED BY <2>2, <2>3, <3>2
  <2>4. CASE m # 0
    <3>1. m - 1 \in Nat /\ m - 1 <= Len(w) /\ m - 1 \notin Missing
      <4>1. m - 1 \in Nat /\ ~ (m <= m - 1) /\ m - 1 <= Len(w)
        BY <1>0, <2>2, <2>4
      <4> HIDE DEF Missing
      <4> QED BY <2>1, <4>1
    <3>2. PICK f : Steps(m - 1, f)
      BY <3>1
    <3> DEFINE g == [i \in 0..m |-> IF i < m THEN f[i] ELSE Inserted(f[m - 1], w[m], NIL)]
    <3>3. f[m - 1] \in Seq(Routine) /\ w[m] \in Routine
      BY <2>2, <2>4, <3>1, <3>2
    <3>4. Inserted(f[m - 1], w[m], NIL) \in Seq(Routine)
      <4>1. Append(f[m - 1], w[m]) \in Seq(Routine)
        BY <3>3
      <4> QED BY <3>3, <4>1 DEF Inserted, CanInsert
    <3>5. g \in [0..m -> Seq(Routine)] /\ g[0] = run
      BY <2>2, <2>4, <3>2, <3>4
    <3>6. ASSUME NEW i \in 1..m PROVE g[i] = Inserted(g[i - 1], w[i], NIL)
      BY <2>2, <2>4, <3>2
    <3> HIDE DEF g
    <3>7. Steps(m, g)
      BY <3>5, <3>6
    <3> QED BY <2>2, <3>7
  <2> QED BY <2>3, <2>4
<1>2. Len(w) \in Nat
  BY LenProperties
<1>3. PICK f : Steps(Len(w), f)
  <2> HIDE DEF Steps
  <2>1. Len(w) <= Len(w) /\ Len(w) \notin Missing
    BY <1>1, <1>2
  <2> QED BY <1>2, <2>1
<1> DEFINE Body(g) == [i \in 0..Len(w) |-> IF i = 0 THEN run ELSE Inserted(g[i - 1], w[i], NIL)]
           after == CHOOSE g : g = Body(g)
<1>4. f = Body(f)
  <2>1. \A i \in 0..Len(w) : f[i] = IF i = 0 THEN run ELSE Inserted(f[i - 1], w[i], NIL)
    <3>1. \A i \in 0..Len(w) : i = 0 \/ i \in 1..Len(w)
      BY <1>2
    <3> QED BY <1>3, <3>1
  <2> QED BY <1>3, <2>1
<1>5. after = Body(after)
  BY <1>4
<1> HIDE DEF after
<1>6. Enqueued(run, w) = after[Len(w)]
  BY DEF Enqueued, after
<1>7. /\ after[0] = run
      /\ \A i \in 1..Len(w) : after[i] = Inserted(after[i - 1], w[i], NIL)
  BY <1>2, <1>5
<1>8. \A n \in Nat : n <= Len(w) => after[n] = f[n]
  <2> DEFINE Bad == {n \in Nat : n <= Len(w) /\ after[n] # f[n]}
  <2> SUFFICES ASSUME Bad # {} PROVE FALSE
    OBVIOUS
  <2>1. PICK m \in Bad : \A n \in Bad : m <= n
    <3>1. Bad \in SUBSET Nat
      OBVIOUS
    <3> HIDE DEF Bad
    <3> QED BY <3>1, LeastNatural
  <2>2. m # 0
    BY <1>3, <1>7
  <2>3. m \in 1..Len(w) /\ m - 1 \in Nat /\ m - 1 <= Len(w) /\ ~ (m <= m - 1)
    BY <1>2, <2>2
  <2>4. after[m - 1] = f[m - 1]
    BY <2>1, <2>3
  <2> QED BY <1>3, <1>7, <2>3, <2>4
<1> QED BY <1>2, <1>3, <1>6, <1>8

(* enqueue() of one.                                                       *)
LEMMA EnqueuedOne ==
  ASSUME NEW s \in Seq(Routine), NoRepeats(s), NEW r \in Routine
  PROVE  /\ Inserted(s, r, NIL) \in Seq(Routine) /\ NoRepeats(Inserted(s, r, NIL))
         /\ ToSet(Inserted(s, r, NIL)) = ToSet(s) \cup {r}
<1>1. /\ Inserted(s, r, NIL) \in Seq(Routine) /\ NoRepeats(Inserted(s, r, NIL))
      /\ ToSet(Inserted(s, r, NIL)) =
           IF CanInsert(s, r, NIL) THEN ToSet(s) \cup {r} ELSE ToSet(s)
  BY Names, InsertedFacts
<1> QED BY <1>1 DEF CanInsert

(* enqueue() of some routines lists them all, and each once.               *)
LEMMA EnqueuedFacts ==
  ASSUME NEW run \in Seq(Routine), NoRepeats(run), NEW w \in Seq(Routine)
  PROVE  /\ Enqueued(run, w) \in Seq(Routine) /\ NoRepeats(Enqueued(run, w))
         /\ ToSet(Enqueued(run, w)) = ToSet(run) \cup ToSet(w)
<1>1. PICK f \in [0..Len(w) -> Seq(Routine)] :
        /\ f[0] = run /\ \A i \in 1..Len(w) : f[i] = Inserted(f[i - 1], w[i], NIL)
        /\ Enqueued(run, w) = f[Len(w)]
  BY EnqueuedSteps
<1>2. Len(w) \in Nat /\ DOMAIN w = 1..Len(w) /\ \A i \in 1..Len(w) : w[i] \in Routine
  BY LenProperties
<1> DEFINE Good(n) == /\ f[n] \in Seq(Routine) /\ NoRepeats(f[n])
                      /\ ToSet(f[n]) = ToSet(run) \cup {w[j] : j \in 1..n}
           Bad == {n \in Nat : n <= Len(w) /\ ~Good(n)}
<1>3. Bad = {}
  <2> SUFFICES ASSUME Bad # {} PROVE FALSE
    OBVIOUS
  <2>1. PICK m \in Bad : \A n \in Bad : m <= n
    <3>1. Bad \in SUBSET Nat
      OBVIOUS
    <3> HIDE DEF Bad
    <3> QED BY <3>1, LeastNatural
  <2>2. m \in Nat /\ m <= Len(w) /\ ~Good(m)
    OBVIOUS
  <2>3. m # 0
    <3>1. {w[j] : j \in 1..0} = {}
      OBVIOUS
    <3> QED BY <1>1, <2>2, <3>1
  <2>4. m \in 1..Len(w) /\ m - 1 \in Nat /\ m - 1 <= Len(w) /\ ~ (m <= m - 1)
    BY <1>2, <2>2, <2>3
  <2>5. Good(m - 1)
    BY <2>1, <2>4
  <2>6. f[m] = Inserted(f[m - 1], w[m], NIL)
    BY <1>1, <2>4
  <2> DEFINE s == f[m - 1]
  <2>7. s \in Seq(Routine) /\ NoRepeats(s) /\ w[m] \in Routine
    BY <1>2, <2>4, <2>5
  <2>9. /\ Inserted(s, w[m], NIL) \in Seq(Routine) /\ NoRepeats(Inserted(s, w[m], NIL))
        /\ ToSet(Inserted(s, w[m], NIL)) = ToSet(s) \cup {w[m]}
    <3> HIDE DEF s
    <3> QED BY ONLY <2>7, EnqueuedOne
  <2>10. {w[j] : j \in 1..m} = {w[j] : j \in 1..(m - 1)} \cup {w[m]}
    <3>1. 1..m = (1..(m - 1)) \cup {m}
      BY <2>4
    <3> QED BY <3>1
  <2> QED BY <2>2, <2>5, <2>6, <2>9, <2>10
<1>4. Good(Len(w))
  BY <1>2, <1>3
<1>5. ToSet(w) = {w[j] : j \in 1..Len(w)}
  BY <1>2 DEF ToSet
<1> QED BY <1>1, <1>4, <1>5

(* The routines a signal releases, in any order.                           *)
LEMMA ReleasedFacts ==
  ASSUME NEW S \in SUBSET Routine, IsFiniteSet(S), NEW s \in SetToSeqs(S)
  PROVE  s \in Seq(Routine) /\ NoRepeats(s) /\ ToSet(s) = S
<1> DEFINE n == Cardinality(S)
<1>1. n \in Nat
  BY FS_CardinalityType
<1>2. s \in [1..n -> S] /\ \A i, j \in 1..n : i # j => s[i] # s[j]
  BY DEF SetToSeqs
<1>3. IsFiniteSet(1..n) /\ Cardinality(1..n) = n
  BY <1>1, FS_Interval
<1>4. s \in Injection(1..n, S)
  BY <1>2 DEF Injection, IsInjective
<1>5. s \in Surjection(1..n, S)
  BY <1>3, <1>4, FS_Injection
<1>6. ToSet(s) = S
  BY <1>2, <1>5 DEF Surjection, ToSet
<1> HIDE DEF n
<1>7. s \in Seq(Routine)
  BY <1>1, <1>2
<1> QED BY <1>2, <1>6, <1>7 DEF NoRepeats

(* What the invariant says of the two lists.                               *)
LEMMA ListFacts ==
  ASSUME IOInv
  PROVE  /\ running \in Seq(Routine) /\ NoRepeats(running) /\ ToSet(running) \subseteq Routine
         /\ sleeping \in Seq(Routine) /\ NoRepeats(sleeping) /\ ToSet(sleeping) \subseteq Routine
         /\ currentkey \in Keys(running) /\ currentkey \in Routine \cup {FIRST}
         /\ WellFormed(Ready(running, currentkey))
<1>1. /\ running \in Seq(Routine) /\ NoRepeats(running)
      /\ sleeping \in Seq(Routine) /\ NoRepeats(sleeping)
      /\ currentkey \in Keys(running) /\ currentkey \in Routine \cup {FIRST}
      /\ WellFormed(Ready(running, currentkey))
  BY DEF IOInv, IOTypes, ListsInv, WellFormed, Ready
<1>2. \A s \in Seq(Routine) : ToSet(s) \subseteq Routine
  BY ElementOfSeq DEF ToSet
<1> QED BY <1>1, <1>2

(* The list of the ready, without the sleepers, in the terms of Scheduler. *)
LEMMA WellFormedReady ==
  ASSUME NEW run, NEW key
  PROVE  WellFormed(Ready(run, key)) <=>
           run \in Seq(Routine) /\ key \in Routine \cup {FIRST} /\ NoRepeats(run) /\ key \in Keys(run)
<1>1. <<>> \in Seq(Routine) /\ NoRepeats(<<>>) /\ ToSet(<<>>) = {}
  BY DEF NoRepeats, ToSet
<1> QED BY <1>1, WellFormedQueues DEF Ready

(* register()                                                              *)
LEMMA RegisteredList ==
  ASSUME NEW q \in QueueRecord, WellFormed(Ready(q.run, q.key)), NEW r \in Routine, NEW p
  PROVE  LET t == Registered(q, r, p) IN
         /\ t \in QueueRecord /\ t.key = q.key /\ t.sleep = q.sleep
         /\ WellFormed(Ready(t.run, t.key))
         /\ ToSet(t.run) = IF Accepted(q, r, p) THEN ToSet(q.run) \cup {r} ELSE ToSet(q.run)
         /\ IF Accepted(q, r, p) THEN Registered(Ready(q.run, q.key), r, p) = Ready(t.run, t.key)
            ELSE t = q
<1> DEFINE t == Registered(q, r, p)
           u == Ready(q.run, q.key)
<1>1. CASE ~Accepted(q, r, p)
  BY <1>1 DEF Registered
<1>2. CASE Accepted(q, r, p)
  <2>1. t = [q EXCEPT !.run = Inserted(q.run, r, p)] /\ CanInsert(q.run, r, p)
    BY <1>2 DEF Registered, Accepted
  <2>2. q.run \in Seq(Routine) /\ NoRepeats(q.run)
    BY WellFormedReady
  <2>3. /\ Inserted(q.run, r, p) \in Seq(Routine)
        /\ ToSet(Inserted(q.run, r, p)) = ToSet(q.run) \cup {r}
    BY ONLY <2>1, <2>2, r \in Routine, Names, InsertedFacts
  <2>4. /\ t \in QueueRecord /\ t.key = q.key /\ t.sleep = q.sleep
        /\ t.run = Inserted(q.run, r, p)
    BY <2>1, <2>3 DEF QueueRecord
  <2>5. Accepted(u, r, p) /\ Registered(u, r, p) = Ready(t.run, t.key)
    BY <2>1, <2>4 DEF Accepted, Registered, Ready, ToSet
  <2> HIDE DEF t
  <2>6. WellFormed(Ready(t.run, t.key))
    BY <2>5, RegisteredKeeps
  <2> QED BY <1>2, <2>3, <2>4, <2>5, <2>6 DEF t
<1> QED BY <1>1, <1>2

(* It leaves the routine executing in its place.                           *)
LEMMA RegisteredListPlaces ==
  ASSUME NEW q \in QueueRecord, WellFormed(Ready(q.run, q.key)), NEW r \in Routine,
         Placed(Ready(q.run, q.key), current), SelfCalls = {} => r # current
  PROVE  Placed(Ready(Registered(q, r, NIL).run, Registered(q, r, NIL).key), current)
<1> DEFINE t == Registered(q, r, NIL)
           u == Ready(q.run, q.key)
<1>1. CASE Accepted(q, r, NIL)
  <2>1. Registered(u, r, NIL) = Ready(t.run, t.key)
    BY <1>1, RegisteredList
  <2>2. Placed(Registered(u, r, NIL), current)
    <3> HIDE DEF u
    <3> QED BY RegisteredPlaces DEF u
  <2> QED BY <2>1, <2>2
<1>2. CASE ~Accepted(q, r, NIL)
  <2>1. t = q
    BY <1>2 DEF Registered
  <2> QED BY <2>1
<1> QED BY <1>1, <1>2

(* remove()                                                                *)
LEMMA DroppedList ==
  ASSUME NEW q \in QueueRecord, WellFormed(Ready(q.run, q.key)), NoRepeats(q.sleep),
         NEW r \in Routine
  PROVE  LET t == Dropped(q, r) IN
         /\ t \in QueueRecord /\ NoRepeats(t.sleep)
         /\ WellFormed(Ready(t.run, t.key))
         /\ ToSet(q.run) \ {r} \subseteq ToSet(t.run) /\ ToSet(t.run) \subseteq ToSet(q.run)
         /\ ToSet(q.sleep) \ {r} \subseteq ToSet(t.sleep) /\ ToSet(t.sleep) \subseteq ToSet(q.sleep)
         /\ r # current => r \notin ToSet(t.run)
         /\ r # current /\ r \notin ToSet(q.run) => r \notin ToSet(t.sleep)
         /\ Placed(Ready(q.run, q.key), current) /\ (SelfCalls = {} => r # current)
            => Placed(Ready(t.run, t.key), current)
<1> DEFINE t == Dropped(q, r)
           u == Ready(q.run, q.key)
           before == KeyBefore(q.run, r, FIRST)
<1>0. /\ q.run \in Seq(Routine) /\ NoRepeats(q.run) /\ q.sleep \in Seq(Routine)
      /\ q.key \in Keys(q.run) /\ q.key \in Routine \cup {FIRST}
      /\ q = [run |-> q.run, sleep |-> q.sleep, key |-> q.key]
  BY WellFormedReady DEF QueueRecord
<1>1. \A start :
        /\ Removed(q.run, r, start) \in Seq(Routine)
        /\ ToSet(Removed(q.run, r, start)) =
             IF Found(q.run, r, start) THEN ToSet(q.run) \ {r} ELSE ToSet(q.run)
  BY <1>0, Names, RemovedFacts
<1>2. \A start :
        /\ Removed(q.sleep, r, start) \in Seq(Routine) /\ NoRepeats(Removed(q.sleep, r, start))
        /\ ToSet(Removed(q.sleep, r, start)) =
             IF Found(q.sleep, r, start) THEN ToSet(q.sleep) \ {r} ELSE ToSet(q.sleep)
  BY <1>0, Names, RemovedFacts
<1>3. /\ r \in ToSet(q.run) => Found(q.run, r, FIRST)
      /\ r \in ToSet(q.sleep) => Found(q.sleep, r, FIRST)
  <2>1. ASSUME NEW s \in Seq(Routine), NoRepeats(s), r \in ToSet(s) PROVE Found(s, r, FIRST)
    <3>1. Pos(s, r) \in 1..Len(s) /\ Pos(s, FIRST) = 0
      BY <2>1, Names, PosFacts
    <3> QED BY <2>1, <3>1 DEF Found, Keys
  <2> QED BY <1>0, <2>1
<1>4. CASE r = current
  <2>1. /\ t = [q EXCEPT !.run = Removed(q.run, r, q.key)]
        /\ Dropped(u, r) = Ready(Removed(q.run, r, q.key), q.key)
    BY <1>4 DEF Dropped, Ready
  <2>2. /\ t \in QueueRecord /\ t.run = Removed(q.run, r, q.key) /\ t.sleep = q.sleep
        /\ t.key = q.key
    BY <1>0, <1>1, <2>1 DEF QueueRecord
  <2>3. WellFormed(Ready(t.run, t.key))
    BY <2>1, <2>2, DroppedKeeps
  <2>4. Placed(u, current) /\ (SelfCalls = {} => r # current) => Placed(Ready(t.run, t.key), current)
    BY <2>1, <2>2, DroppedPlaces
  <2> HIDE DEF t, u
  <2>5. ToSet(q.run) \ {r} \subseteq ToSet(t.run) /\ ToSet(t.run) \subseteq ToSet(q.run)
    BY <1>1, <2>2
  <2> QED BY <1>4, <2>2, <2>3, <2>4, <2>5 DEF t, u
<1>5. CASE r # current /\ r = q.key
  <2>1. r \in ToSet(q.run) /\ r \in ToSet(u.run)
    BY <1>0, <1>5, Names DEF Keys, Ready
  <2>2. /\ before \in Routine \cup {FIRST} /\ Found(q.run, r, before)
    BY <2>1, KeyBeforeFacts DEF Ready
  <2>3. /\ t = [q EXCEPT !.key = before, !.run = Removed(q.run, r, before)]
        /\ Dropped(u, r) = Ready(Removed(q.run, r, before), before)
    BY <1>5 DEF Dropped, Ready
  <2>4. /\ t \in QueueRecord /\ t.run = Removed(q.run, r, before) /\ t.sleep = q.sleep
        /\ t.key = before
    BY <1>0, <1>1, <2>2, <2>3 DEF QueueRecord
  <2>5. WellFormed(Ready(t.run, t.key))
    BY <2>3, <2>4, DroppedKeeps
  <2>6. Placed(u, current) => Placed(Ready(t.run, t.key), current)
    BY <1>5, <2>3, <2>4, DroppedPlaces
  <2> HIDE DEF t, u
  <2>7. ToSet(t.run) = ToSet(q.run) \ {r}
    BY <1>1, <2>2, <2>4
  <2> QED BY <1>5, <2>1, <2>4, <2>5, <2>6, <2>7 DEF t, u
<1>6. CASE r \notin {current, q.key} /\ r \in ToSet(q.run)
  <2>1. /\ t = [q EXCEPT !.run = Removed(q.run, r, FIRST)]
        /\ Dropped(u, r) = Ready(Removed(q.run, r, FIRST), q.key)
    BY <1>6 DEF Dropped, Ready
  <2>2. /\ t \in QueueRecord /\ t.run = Removed(q.run, r, FIRST) /\ t.sleep = q.sleep
        /\ t.key = q.key
    BY <1>0, <1>1, <2>1 DEF QueueRecord
  <2>3. WellFormed(Ready(t.run, t.key))
    BY <2>1, <2>2, DroppedKeeps
  <2>4. Placed(u, current) => Placed(Ready(t.run, t.key), current)
    BY <1>6, <2>1, <2>2, DroppedPlaces
  <2> HIDE DEF t, u
  <2>5. ToSet(t.run) = ToSet(q.run) \ {r}
    BY <1>1, <1>3, <1>6, <2>2
  <2> QED BY <1>6, <2>2, <2>3, <2>4, <2>5 DEF t, u
<1>7. CASE r \notin {current, q.key} /\ r \notin ToSet(q.run)
  <2>1. t = [q EXCEPT !.sleep = Removed(q.sleep, r, FIRST)]
    BY <1>7 DEF Dropped
  <2>2. /\ t \in QueueRecord /\ t.run = q.run /\ t.key = q.key
        /\ t.sleep = Removed(q.sleep, r, FIRST)
    BY <1>0, <1>2, <2>1 DEF QueueRecord
  <2> HIDE DEF t, u
  <2>3. ToSet(t.sleep) = ToSet(q.sleep) \ {r} /\ NoRepeats(t.sleep)
    BY <1>2, <1>3, <2>2
  <2> QED BY <1>7, <2>2, <2>3 DEF t, u
<1> QED BY <1>4, <1>5, <1>6, <1>7

(* resume(): in the lists afterwards, unless nothing was in its way.       *)
LEMMA AdvancedList ==
  ASSUME NEW q \in QueueRecord, WellFormed(Ready(q.run, q.key)), NoRepeats(q.sleep),
         NEW r \in Routine
  PROVE  LET t == Advanced(q, r) IN
         /\ t \in QueueRecord /\ NoRepeats(t.sleep)
         /\ WellFormed(Ready(t.run, t.key))
         /\ ToSet(q.run) \ {r} \subseteq ToSet(t.run) /\ ToSet(t.run) \subseteq ToSet(q.run) \cup {r}
         /\ ToSet(q.sleep) \ {r} \subseteq ToSet(t.sleep) /\ ToSet(t.sleep) \subseteq ToSet(q.sleep)
         /\ ToSet(t.run) \cap ToSet(t.sleep) \subseteq ToSet(q.run) \cap ToSet(q.sleep)
         /\ r # current /\ current \in ToSet(q.run) => r \in ToSet(t.run) \cup ToSet(t.sleep)
<1> DEFINE t == Advanced(q, r)
           u == Dropped(q, r)
<1>1. CASE Accepted(q, r, current)
  <2>1. t = Registered(q, r, current) /\ r \notin ToSet(q.sleep)
    BY <1>1 DEF Advanced, Accepted
  <2>2. /\ t \in QueueRecord /\ t.sleep = q.sleep
        /\ WellFormed(Ready(t.run, t.key))
        /\ ToSet(t.run) = ToSet(q.run) \cup {r}
    BY <1>1, <2>1, RegisteredList
  <2> HIDE DEF t, u
  <2> QED BY <2>1, <2>2 DEF t
<1>2. CASE ~ Accepted(q, r, current)
  <2>1. t = Registered(u, r, current)
    BY <1>2 DEF Advanced
  <2>2. /\ u \in QueueRecord /\ NoRepeats(u.sleep)
        /\ WellFormed(Ready(u.run, u.key))
        /\ ToSet(q.run) \ {r} \subseteq ToSet(u.run) /\ ToSet(u.run) \subseteq ToSet(q.run)
        /\ ToSet(q.sleep) \ {r} \subseteq ToSet(u.sleep) /\ ToSet(u.sleep) \subseteq ToSet(q.sleep)
        /\ r # current => r \notin ToSet(u.run)
    BY DroppedList
  <2> HIDE DEF t, u
  <2>3. /\ t \in QueueRecord /\ t.sleep = u.sleep
        /\ WellFormed(Ready(t.run, t.key))
        /\ ToSet(t.run) = IF Accepted(u, r, current) THEN ToSet(u.run) \cup {r} ELSE ToSet(u.run)
    BY <2>1, <2>2, RegisteredList
  <2>4. ASSUME r # current, current \in ToSet(q.run)
        PROVE  r \in ToSet(t.run) \cup ToSet(t.sleep)
    <3>1. Accepted(u, r, current) \/ r \in ToSet(u.sleep)
      BY <2>2, <2>4 DEF Accepted, CanInsert, Keys
    <3> QED BY <2>3, <3>1
  <2>5. Accepted(u, r, current) => r \notin ToSet(u.sleep)
    BY DEF Accepted
  <2> QED BY <2>2, <2>3, <2>4, <2>5 DEF t
<1> QED BY <1>1, <1>2

-----------------------------------------------------------------------------
(* Steps outside the socket calls *)

(* What these do: no call begins or ends, subscriptions may be taken back, *)
(* and routines are moved between the lists.                               *)
Moved ==
  /\ UNCHANGED <<op, locked>>
  /\ waiting' \in [Side -> Maybe(Routine)] /\ ready' \subseteq Side
  /\ \A e \in Side : waiting'[e] \in {NIL, waiting[e]}
  /\ sleeping' \in Seq(Routine) /\ NoRepeats(sleeping')
  /\ wake' \in [Routine -> Int]
  /\ WellFormed(Ready(running', currentkey'))
  /\ current' \in Maybe(Routine) /\ clock' \in Nat
  /\ status' \in [Routine -> {"new", "live", "done", "failed"}]
  /\ \A r \in Routine : status[r] # "new" => status'[r] # "new"
  /\ \A r \in ToSet(running') \cup ToSet(sleeping') :
       r \in ToSet(running) \cup ToSet(sleeping) \/ op[r] # NIL \/ status'[r] # "new"
  /\ \A r \in ToSet(running') \cap ToSet(sleeping') : op[r] # NIL
  /\ \A r \in Routine : op[r] # NIL /\ r \in ToSet(sleeping') =>
       /\ r \in ToSet(sleeping)
       /\ op[r].kind # "select" /\ r \in Active' \cap Waiters' => r \in Active
  /\ phase' = "routine" =>
       /\ Placed(Ready(running', currentkey'), current')
       /\ current' \in ToSet(running') \/ (current' = current /\ phase = "routine")
       /\ op[current'] = NIL => current' \notin ToSet(sleeping')

(* Such a step keeps the invariant.                                        *)
LEMMA MovedKeeps ==
  ASSUME IOInv, Moved, SelfCalls = {} => NobodyLost'
  PROVE  IOInv'
<1>0. /\ IOTypes /\ ExistInv /\ TurnPlaced /\ CallsInv /\ LocksMatchCalls
      /\ op' = op /\ locked' = locked
  BY DEF IOInv, Moved
<1>1. IOTypes' /\ ListsInv'
  BY <1>0, WellFormedReady DEF Moved, IOTypes, ListsInv
<1>2. ExistInv'
  BY <1>0 DEF Moved, ExistInv
<1>3. TurnPlaced'
  <2> SUFFICES ASSUME phase' = "routine" PROVE status'[current'] # "new"
    BY <1>0 DEF Moved, TurnPlaced
  <2>1. current' \in Routine
    BY DEF Moved, Placed
  <2>2. status[current'] # "new" \/ status'[current'] # "new"
    <3>1. CASE current' \in ToSet(running')
      BY <1>0, <2>1, <3>1 DEF Moved, ExistInv
    <3>2. CASE current' = current /\ phase = "routine"
      BY <1>0, <3>2 DEF TurnPlaced
    <3> QED BY <3>1, <3>2 DEF Moved
  <2> QED BY <2>1, <2>2 DEF Moved
<1>4. ASSUME NEW r \in Waiters' PROVE r \in Waiters
  BY <1>4 DEF Moved, Waiters
<1>5. CallsInv'
  <2>1. \A r \in ToSet(running') \cap ToSet(sleeping') : op'[r] # NIL
    BY <1>0 DEF Moved
  <2>2. ASSUME NEW r \in Routine, op[r] # NIL
        PROVE  /\ op[r].kind # "select" => \E e \in Side : op[r].sides = {e}
               /\ r \in ToSet(sleeping') => Timed(op[r])
               /\ op[r].kind # "select" /\ r \in Active' \cap Waiters' => r \notin ToSet(sleeping')
    BY <1>0, <1>4, <2>2 DEF CallsInv, Moved
  <2> QED BY <1>0, <2>1, <2>2 DEF CallsInv, Timed
<1>6. LocksMatchCalls'
  <2>1. ASSUME NEW e \in Watched' PROVE e \in Watched /\ waiting'[e] = waiting[e]
    BY <2>1 DEF Watched, Moved
  <2> QED BY <1>0, <2>1 DEF LocksMatchCalls
<1> QED BY <1>1, <1>2, <1>3, <1>5, <1>6 DEF IOInv

(* The lists in the invariant.                                             *)
LEMMA QueuesFacts ==
  ASSUME IOInv
  PROVE  /\ Queues \in QueueRecord /\ NoRepeats(Queues.sleep)
         /\ WellFormed(Ready(Queues.run, Queues.key))
         /\ Queues.run = running /\ Queues.sleep = sleeping /\ Queues.key = currentkey
BY ListFacts DEF Queues, QueueRecord

(* The lists become those of a record.                                     *)
LEMMA ListsSet ==
  ASSUME IOInv, NEW q \in QueueRecord, WellFormed(Ready(q.run, q.key)), NoRepeats(q.sleep),
         SetQueues(q)
  PROVE  /\ running' = q.run /\ sleeping' = q.sleep /\ currentkey' = q.key
         /\ sleeping' \in Seq(Routine) /\ NoRepeats(sleeping')
         /\ wake' \in [Routine -> Int]
         /\ WellFormed(Ready(running', currentkey'))
<1>1. \A S : Priorities(S, wake) \in [Routine -> Int]
  BY DEF Priorities, IOInv, IOTypes
<1> QED BY <1>1 DEF SetQueues, QueueRecord

(* handleremoved takes back the subscriptions of one routine.               *)
LEMMA UnsubscribedFacts ==
  ASSUME IOInv, NEW r \in Routine
  PROVE  /\ Unsubscribed(r) \in [Side -> Maybe(Routine)]
         /\ \A e \in Side : Unsubscribed(r)[e] \in {NIL, waiting[e]} /\ Unsubscribed(r)[e] # r
         /\ {Unsubscribed(r)[e] : e \in Side} \ {NIL} = Waiters \ {r}
<1>1. waiting \in [Side -> Maybe(Routine)] /\ r # NIL
  BY Names DEF IOInv, IOTypes
<1>2. \A e \in Side : Unsubscribed(r)[e] = IF waiting[e] = r THEN NIL ELSE waiting[e]
  BY DEF Unsubscribed
<1>3. Unsubscribed(r) \in [Side -> Maybe(Routine)]
  BY <1>1 DEF Unsubscribed, Maybe
<1>4. ASSUME NEW x, x # NIL
      PROVE  (\E e \in Side : x = Unsubscribed(r)[e]) <=> x # r /\ \E e \in Side : x = waiting[e]
  BY <1>1, <1>2, <1>4
<1>5. {Unsubscribed(r)[e] : e \in Side} \ {NIL} = Waiters \ {r}
  BY <1>4 DEF Waiters
<1> QED BY <1>1, <1>2, <1>3, <1>5

(* register()                                                              *)
LEMMA IORegisterKeeps ==
  ASSUME IOInv, NEW r \in Routine, IORegister(r)
  PROVE  IOInv'
<1> DEFINE q == Registered(Queues, r, NIL)
<1>1. /\ SetQueues(q) /\ status' = [status EXCEPT ![r] = "live"] /\ parked' = parked \ {r}
      /\ current' = current /\ phase' = phase /\ clock' = clock
      /\ waiting' = waiting /\ locked' = locked /\ op' = op /\ ready' = ready
      /\ r \notin Waiters /\ MayName("register", r) /\ InProgram
  BY DEF IORegister, Register, iovars
<1>2. /\ q \in QueueRecord /\ q.key = currentkey /\ q.sleep = sleeping
      /\ WellFormed(Ready(q.run, q.key))
      /\ ToSet(q.run) = IF Accepted(Queues, r, NIL) THEN ToSet(running) \cup {r} ELSE ToSet(running)
      /\ Placed(Ready(running, currentkey), current) /\ (SelfCalls = {} => r # current)
           => Placed(Ready(q.run, q.key), current)
  <2>1. /\ q \in QueueRecord /\ q.key = Queues.key /\ q.sleep = Queues.sleep
        /\ WellFormed(Ready(q.run, q.key))
        /\ ToSet(q.run) = IF Accepted(Queues, r, NIL) THEN ToSet(Queues.run) \cup {r}
                          ELSE ToSet(Queues.run)
    BY QueuesFacts, RegisteredList
  <2>2. ASSUME Placed(Ready(Queues.run, Queues.key), current), SelfCalls = {} => r # current
        PROVE  Placed(Ready(q.run, q.key), current)
    BY <2>2, QueuesFacts, RegisteredListPlaces
  <2> HIDE DEF q
  <2> QED BY <2>1, <2>2, QueuesFacts
<1> HIDE DEF q
<1>3. /\ running' = q.run /\ sleeping' = q.sleep /\ currentkey' = q.key
      /\ sleeping' \in Seq(Routine) /\ NoRepeats(sleeping') /\ wake' \in [Routine -> Int]
      /\ WellFormed(Ready(running', currentkey'))
  BY <1>1, <1>2, ListFacts, ListsSet
<1>4. r \in ToSet(running') \cup ToSet(sleeping') /\ ToSet(running) \subseteq ToSet(running')
  <2>1. Accepted(Queues, r, NIL) \/ r \in ToSet(running) \cup ToSet(sleeping)
    BY QueuesFacts DEF Accepted, CanInsert
  <2> QED BY <1>2, <1>3, <2>1
<1>5. Accepted(Queues, r, NIL) => r \notin ToSet(sleeping)
  BY QueuesFacts DEF Accepted
<1>6. phase = "routine" => Placed(Ready(running', currentkey'), current)
  <2>1. ASSUME phase = "routine" PROVE SelfCalls = {} => r # current
    BY <1>1 DEF MayName
  <2> QED BY <1>2, <1>3, <2>1 DEF IOInv, TurnPlaced
<1>7. ToSet(running') \cap ToSet(sleeping') \subseteq ToSet(running) \cap ToSet(sleeping)
  BY <1>2, <1>3, <1>5
<1>8. /\ status' \in [Routine -> {"new", "live", "done", "failed"}]
      /\ \A x \in Routine : status'[x] = IF x = r THEN "live" ELSE status[x]
  BY <1>1 DEF IOInv, IOTypes
<1>9. Moved
  <2>1. /\ \A x \in ToSet(running') \cup ToSet(sleeping') :
             x \in ToSet(running) \cup ToSet(sleeping) \/ status'[x] # "new"
        /\ \A x \in ToSet(running') \cap ToSet(sleeping') : op[x] # NIL
    BY <1>2, <1>3, <1>7, <1>8 DEF IOInv, CallsInv
  <2>2. ASSUME NEW x \in Routine, x \in Active' \cap Waiters' PROVE x \in Active
    <3>1. Waiters' = Waiters /\ x # r
      BY <1>1, <2>2 DEF Waiters
    <3> QED BY <1>1, <1>2, <1>3, <2>2, <3>1 DEF Active
  <2>3. phase' = "routine" =>
          /\ Placed(Ready(running', currentkey'), current') /\ current' = current /\ phase = "routine"
          /\ op[current'] = NIL => current' \notin ToSet(sleeping')
    BY <1>1, <1>2, <1>3, <1>6 DEF IOInv, TurnPlaced
  <2>4. /\ waiting' \in [Side -> Maybe(Routine)] /\ ready' \subseteq Side
        /\ current' \in Maybe(Routine) /\ clock' \in Nat
    BY <1>1 DEF IOInv, IOTypes
  <2> QED BY <1>1, <1>2, <1>3, <1>8, <2>1, <2>2, <2>3, <2>4 DEF Moved
<1>10. SelfCalls = {} => NobodyLost'
  <2>1. Waiters' = Waiters
    BY <1>1 DEF Waiters
  <2> QED BY <1>1, <1>2, <1>3, <1>4, <1>8, <2>1 DEF IOInv, NobodyLost
<1> QED BY <1>9, <1>10, MovedKeeps

(* remove()                                                                *)
LEMMA IODropKeeps ==
  ASSUME IOInv, NEW r \in Routine, IODrop(r)
  PROVE  IOInv'
<1> DEFINE q == Dropped(Queues, r)
<1>1. /\ SetQueues(q) /\ parked' = parked \cup {r}
      /\ current' = current /\ phase' = phase /\ clock' = clock /\ status' = status
      /\ waiting' = Unsubscribed(r) /\ locked' = locked /\ op' = op /\ ready' = ready
      /\ MayName("remove", r)
  BY DEF IODrop, Drop
<1>2. /\ q \in QueueRecord /\ NoRepeats(q.sleep)
      /\ WellFormed(Ready(q.run, q.key))
      /\ ToSet(running) \ {r} \subseteq ToSet(q.run) /\ ToSet(q.run) \subseteq ToSet(running)
      /\ ToSet(sleeping) \ {r} \subseteq ToSet(q.sleep) /\ ToSet(q.sleep) \subseteq ToSet(sleeping)
      /\ Placed(Ready(running, currentkey), current) /\ (SelfCalls = {} => r # current)
         => Placed(Ready(q.run, q.key), current)
  BY QueuesFacts, DroppedList
<1> HIDE DEF q
<1>3. /\ running' = q.run /\ sleeping' = q.sleep /\ currentkey' = q.key
      /\ sleeping' \in Seq(Routine) /\ NoRepeats(sleeping') /\ wake' \in [Routine -> Int]
      /\ WellFormed(Ready(running', currentkey'))
  BY <1>1, <1>2, ListsSet
<1>4. /\ waiting' \in [Side -> Maybe(Routine)]
      /\ \A e \in Side : waiting'[e] \in {NIL, waiting[e]}
      /\ Waiters' = Waiters \ {r}
  BY <1>1, UnsubscribedFacts DEF Waiters
<1>5. phase = "routine" => Placed(Ready(running', currentkey'), current)
  <2>1. ASSUME phase = "routine" PROVE SelfCalls = {} => r # current
    BY <1>1 DEF MayName
  <2> QED BY <1>2, <1>3, <2>1 DEF IOInv, TurnPlaced
<1>6. Moved
  <2>1. \A x \in ToSet(running') \cap ToSet(sleeping') : op[x] # NIL
    BY <1>2, <1>3 DEF IOInv, CallsInv
  <2>2. Active' \subseteq Active
    BY <1>1, <1>2, <1>3 DEF Active
  <2>3. phase' = "routine" =>
          /\ Placed(Ready(running', currentkey'), current') /\ current' = current /\ phase = "routine"
          /\ op[current'] = NIL => current' \notin ToSet(sleeping')
    BY <1>1, <1>2, <1>3, <1>5 DEF IOInv, TurnPlaced
  <2>4. /\ ready' \subseteq Side /\ current' \in Maybe(Routine) /\ clock' \in Nat
        /\ status' \in [Routine -> {"new", "live", "done", "failed"}]
    BY <1>1 DEF IOInv, IOTypes
  <2> QED BY <1>1, <1>2, <1>3, <1>4, <2>1, <2>2, <2>3, <2>4 DEF Moved
<1>7. SelfCalls = {} => NobodyLost'
  BY <1>1, <1>2, <1>3, <1>4 DEF IOInv, NobodyLost
<1> QED BY <1>6, <1>7, MovedKeeps

(* resume()                                                                *)
LEMMA IOResumeKeeps ==
  ASSUME IOInv, NEW r \in Routine, IOResume(r)
  PROVE  IOInv'
<1> DEFINE q == Advanced(Queues, r)
<1>1. /\ SetQueues(q) /\ parked' = parked \ {r} /\ phase = "routine" /\ phase' = "cycle"
      /\ current' = current /\ clock' = clock /\ status' = status /\ status[r] = "live"
      /\ waiting' = Unsubscribed(r) /\ locked' = locked /\ op' = op /\ ready' = ready
      /\ MayName("resume", r)
  BY DEF IOResume, Resume, EndTurn
<1>2. /\ q \in QueueRecord /\ NoRepeats(q.sleep)
      /\ WellFormed(Ready(q.run, q.key))
      /\ ToSet(running) \ {r} \subseteq ToSet(q.run) /\ ToSet(q.run) \subseteq ToSet(running) \cup {r}
      /\ ToSet(sleeping) \ {r} \subseteq ToSet(q.sleep) /\ ToSet(q.sleep) \subseteq ToSet(sleeping)
      /\ ToSet(q.run) \cap ToSet(q.sleep) \subseteq ToSet(running) \cap ToSet(sleeping)
      /\ r # current /\ current \in ToSet(running) => r \in ToSet(q.run) \cup ToSet(q.sleep)
  BY QueuesFacts, AdvancedList
<1> HIDE DEF q
<1>3. /\ running' = q.run /\ sleeping' = q.sleep /\ currentkey' = q.key
      /\ sleeping' \in Seq(Routine) /\ NoRepeats(sleeping') /\ wake' \in [Routine -> Int]
      /\ WellFormed(Ready(running', currentkey'))
  BY <1>1, <1>2, ListsSet
<1>4. /\ waiting' \in [Side -> Maybe(Routine)]
      /\ \A e \in Side : waiting'[e] \in {NIL, waiting[e]}
      /\ Waiters' = Waiters \ {r}
  BY <1>1, UnsubscribedFacts DEF Waiters
<1>5. Moved
  <2>1. \A x \in ToSet(running') \cap ToSet(sleeping') : op[x] # NIL
    BY <1>2, <1>3 DEF IOInv, CallsInv
  <2>2. Active' \cap Waiters' \subseteq Active
    BY <1>1, <1>2, <1>3, <1>4 DEF Active
  <2>3. \A x \in ToSet(running') \cup ToSet(sleeping') :
             x \in ToSet(running) \cup ToSet(sleeping) \/ status'[x] # "new"
    BY <1>1, <1>2, <1>3
  <2>4. /\ ready' \subseteq Side /\ current' \in Maybe(Routine) /\ clock' \in Nat
        /\ status' \in [Routine -> {"new", "live", "done", "failed"}]
    BY <1>1 DEF IOInv, IOTypes
  <2> QED BY <1>1, <1>2, <1>3, <1>4, <2>1, <2>2, <2>3, <2>4 DEF Moved
<1>6. SelfCalls = {} => NobodyLost'
  <2> SUFFICES ASSUME SelfCalls = {} PROVE NobodyLost'
    OBVIOUS
  <2>1. r # current /\ current \in ToSet(running)
    BY <1>1 DEF MayName, IOInv, TurnPlaced, Placed, Ready
  <2> QED BY <1>1, <1>2, <1>3, <1>4, <2>1 DEF IOInv, NobodyLost
<1> QED BY <1>5, <1>6, MovedKeeps

(* A routine leaves the list of the ready.                                 *)
LEMMA LeftList ==
  ASSUME IOInv, NEW r \in Routine, NEW start
  PROVE  LET run == Removed(running, r, start) IN
         /\ run \in Seq(Routine) /\ NoRepeats(run)
         /\ ToSet(running) \ {r} \subseteq ToSet(run) /\ ToSet(run) \subseteq ToSet(running)
         /\ start = currentkey => WellFormed(Ready(run, currentkey))
         /\ phase = "routine" /\ r = current /\ start \in {FIRST, currentkey} =>
              r \notin ToSet(run) /\ WellFormed(Ready(run, currentkey))
<1> DEFINE run == Removed(running, r, start)
<1>1. /\ running \in Seq(Routine) /\ NoRepeats(running) /\ currentkey \in Keys(running)
      /\ currentkey \in Routine \cup {FIRST}
  BY ListFacts
<1>2. /\ run \in Seq(Routine) /\ NoRepeats(run)
      /\ ToSet(run) = IF Found(running, r, start) THEN ToSet(running) \ {r} ELSE ToSet(running)
  BY <1>1, Names, RemovedFacts
<1>3. \A e \in ToSet(running) : Pos(running, e) \in 1..Len(running) /\ Pos(running, FIRST) = 0
  BY <1>1, Names, PosFacts
<1>4. ASSUME start = currentkey PROVE currentkey \in Keys(run)
  <2>1. Found(running, r, start) => r # currentkey
    BY <1>3, <1>4 DEF Found
  <2> QED BY <1>1, <1>2, <2>1 DEF Keys
<1>5. ASSUME phase = "routine", r = current, start \in {FIRST, currentkey}
      PROVE  r \notin ToSet(run) /\ currentkey \in Keys(run)
  <2>1. r \in ToSet(running) => Pos(running, currentkey) < Pos(running, r)
    BY <1>5 DEF IOInv, TurnPlaced, Placed, Ready
  <2>2. r \in ToSet(running) => Found(running, r, start) /\ r # currentkey
    BY <1>1, <1>3, <1>5, <2>1 DEF Found, Keys
  <2> QED BY <1>1, <1>2, <2>2 DEF Keys
<1> HIDE DEF run
<1>6. currentkey \in Keys(run) => WellFormed(Ready(run, currentkey))
  BY <1>1, <1>2, WellFormedReady
<1> QED BY <1>2, <1>4, <1>5, <1>6 DEF run

(* The current routine goes to sleep, being awake.                         *)
LEMMA AsleepFacts ==
  ASSUME IOInv, NEW d \in Int, Asleep(d), current \in Routine, current \notin ToSet(sleeping)
  PROVE  /\ sleeping' \in Seq(Routine) /\ NoRepeats(sleeping')
         /\ ToSet(sleeping') = ToSet(sleeping) \cup {current}
         /\ wake' = [wake EXCEPT ![current] = Seconds + d] /\ wake' \in [Routine -> Int]
<1>1. PICK i \in 1..(Len(sleeping) + 1) : sleeping' = InsertAt(sleeping, i, current)
  BY DEF Asleep
<1>2. sleeping \in Seq(Routine) /\ NoRepeats(sleeping)
  BY ListFacts
<1>3. /\ sleeping' \in Seq(Routine) /\ NoRepeats(sleeping')
      /\ ToSet(sleeping') = ToSet(sleeping) \cup {current}
  BY ONLY <1>1, <1>2, current \in Routine, current \notin ToSet(sleeping), Names, InsertAtDistinct
<1>4. Seconds + d \in Int
  BY SchedulerAssumption DEF Seconds, IOInv, IOTypes
<1>5. wake \in [Routine -> Int] /\ wake' = [wake EXCEPT ![current] = Seconds + d]
  BY DEF IOInv, IOTypes, Asleep
<1> QED BY <1>3, <1>4, <1>5

(* What holds of the routine that ends its turn.                           *)
LEMMA CurrentFacts ==
  ASSUME IOInv, EndTurn
  PROVE  /\ phase = "routine" /\ phase' = "cycle" /\ current \in Routine
         /\ current' = current /\ clock' = clock /\ status[current] # "new"
         /\ op[current] = NIL => current \notin ToSet(sleeping)
         /\ SelfCalls = {} => current \in ToSet(running)
<1>1. TurnPlaced
  BY DEF IOInv
<1>2. /\ phase = "routine" /\ phase' = "cycle" /\ current' = current /\ clock' = clock
  BY DEF EndTurn
<1>3. Placed(Ready(running, currentkey), current)
  BY <1>1, <1>2 DEF TurnPlaced
<1>4. current \in Routine /\ (SelfCalls = {} => current \in ToSet(running))
  BY <1>3 DEF Placed, Ready
<1> QED BY <1>1, <1>2, <1>4 DEF TurnPlaced

(* The ways to end a turn outside the socket calls, resume() excepted.     *)
LEMMA TurnEndsKeep ==
  ASSUME IOInv, InProgram, Quiet
  PROVE  /\ (\E d \in Delays : Suspend(d)) \/ Park \/ Yield => IOInv'
         /\ (\E r \in Routine : Start(r)) \/ (\E s \in {"done", "failed"} : End(s)) => IOInv'
<1>0. /\ waiting' = waiting /\ locked' = locked /\ op' = op /\ ready' = ready
      /\ waiting' \in [Side -> Maybe(Routine)] /\ ready' \subseteq Side
      /\ Waiters' = Waiters
  BY DEF Quiet, iovars, IOInv, IOTypes, Waiters
<1>1. /\ sleeping \in Seq(Routine) /\ NoRepeats(sleeping)
      /\ wake \in [Routine -> Int] /\ currentkey \in Routine \cup {FIRST}
      /\ current \in Maybe(Routine) /\ clock \in Nat
      /\ status \in [Routine -> {"new", "live", "done", "failed"}]
      /\ \A r \in ToSet(running) \cap ToSet(sleeping) : op[r] # NIL
      /\ WellFormed(Ready(running, currentkey))
  BY ListFacts DEF IOInv, IOTypes, CallsInv
<1> DEFINE run == Removed(running, current, currentkey)
<1>2. ASSUME EndTurn
      PROVE  /\ WellFormed(Ready(run, currentkey)) /\ current \notin ToSet(run)
             /\ ToSet(running) \ {current} \subseteq ToSet(run) /\ ToSet(run) \subseteq ToSet(running)
             /\ current \notin ToSet(sleeping) /\ op[current] = NIL /\ status[current] # "new"
             /\ current \in Routine /\ phase = "routine" /\ phase' = "cycle" /\ current' = current
             /\ clock' = clock /\ (SelfCalls = {} => current \in ToSet(running))
  <2>1. op[current] = NIL
    BY <1>2, CurrentFacts DEF InProgram
  <2> QED BY <1>2, <2>1, CurrentFacts, LeftList
<1> HIDE DEF run
<1>3. ASSUME NEW d \in Delays, Suspend(d) PROVE IOInv'
  <2>1. /\ EndTurn /\ Asleep(d) /\ running' = run /\ parked' = parked \ {current}
        /\ currentkey' = currentkey /\ status' = status /\ d \in Int
    BY <1>3, SchedulerAssumption DEF Suspend, run
  <2>2. /\ sleeping' \in Seq(Routine) /\ NoRepeats(sleeping')
        /\ ToSet(sleeping') = ToSet(sleeping) \cup {current} /\ wake' \in [Routine -> Int]
    BY <1>2, <2>1, AsleepFacts
  <2>3. Moved
    BY <1>0, <1>1, <1>2, <2>1, <2>2 DEF Moved, Active
  <2>4. SelfCalls = {} => NobodyLost'
    BY <1>0, <1>2, <2>1, <2>2 DEF IOInv, NobodyLost
  <2> QED BY <2>3, <2>4, MovedKeeps
<1>4. ASSUME Park PROVE IOInv'
  <2>1. /\ EndTurn /\ running' = run /\ sleeping' = sleeping /\ wake' = wake
        /\ parked' = parked \cup {current} /\ currentkey' = currentkey /\ status' = status
    BY <1>4 DEF Park, run
  <2>3. Moved
    BY <1>0, <1>1, <1>2, <2>1 DEF Moved, Active
  <2>4. SelfCalls = {} => NobodyLost'
    BY <1>0, <1>2, <2>1 DEF IOInv, NobodyLost
  <2> QED BY <2>3, <2>4, MovedKeeps
<1>5. ASSUME EndTurn, UNCHANGED lists,
             status' \in [Routine -> {"new", "live", "done", "failed"}],
             \A r \in Routine : status'[r] = status[r] \/ (r = current /\ status'[r] \notin {"new", "live"}),
             parked' = parked \/ (parked' = parked \ {current} /\ status'[current] # "live")
      PROVE  IOInv'
  <2>1. running' = running /\ sleeping' = sleeping /\ wake' = wake /\ currentkey' = currentkey
    BY <1>5 DEF lists
  <2>3. Moved
    BY <1>0, <1>1, <1>2, <1>5, <2>1 DEF Moved, Active
  <2>4. SelfCalls = {} => NobodyLost'
    BY <1>0, <1>2, <1>5, <2>1 DEF IOInv, NobodyLost
  <2> QED BY <2>3, <2>4, MovedKeeps
<1>6. ASSUME Yield PROVE IOInv'
  BY <1>1, <1>5, <1>6 DEF Yield
<1>7. ASSUME NEW s \in {"done", "failed"}, End(s) PROVE IOInv'
  <2>1. EndTurn /\ UNCHANGED lists /\ parked' = parked \ {current} /\ status' = [status EXCEPT ![current] = s]
    BY <1>7 DEF End
  <2>2. /\ status' \in [Routine -> {"new", "live", "done", "failed"}]
        /\ \A r \in Routine : status'[r] = IF r = current THEN s ELSE status[r]
    BY <1>1, <2>1
  <2> QED BY <1>2, <1>5, <2>1, <2>2
<1>8. ASSUME NEW r \in Routine, Start(r) PROVE IOInv'
  <2>1. /\ EndTurn /\ status[r] = "new" /\ running' = Inserted(running, r, current)
        /\ status' = [status EXCEPT ![r] = "live"] /\ sleeping' = sleeping /\ wake' = wake
        /\ currentkey' = currentkey /\ parked' = parked
    BY <1>8 DEF Start
  <2>2. /\ running \in Seq(Routine) /\ NoRepeats(running) /\ currentkey \in Keys(running)
        /\ r \notin ToSet(running) \cup ToSet(sleeping) /\ op[r] = NIL
    BY <2>1, ListFacts DEF IOInv, ExistInv
  <2>3. /\ running' \in Seq(Routine) /\ NoRepeats(running')
        /\ ToSet(running') = IF CanInsert(running, r, current) THEN ToSet(running) \cup {r}
                             ELSE ToSet(running)
    <3>1. NoRepeats(running) /\ running \in Seq(Routine) /\ running' = Inserted(running, r, current)
      BY <2>1, <2>2
    <3> QED BY ONLY <3>1, r \in Routine, Names, InsertedFacts
  <2>4. WellFormed(Ready(running', currentkey'))
    <3>1. currentkey' \in Keys(running') /\ currentkey' \in Routine \cup {FIRST}
      BY <1>1, <2>1, <2>2, <2>3 DEF Keys
    <3> QED BY <2>3, <3>1, WellFormedReady
  <2>5. /\ status' \in [Routine -> {"new", "live", "done", "failed"}]
        /\ \A x \in Routine : status'[x] = IF x = r THEN "live" ELSE status[x]
    BY <1>1, <2>1
  <2>6. r \notin Waiters
    BY <2>2 DEF IOInv, LocksMatchCalls, Waiters, Watched
  <2>7. Moved
    BY <1>0, <1>1, <1>2, <2>1, <2>2, <2>3, <2>4, <2>5, <2>6 DEF Moved, Active
  <2>8. SelfCalls = {} => NobodyLost'
    <3>1. SelfCalls = {} => r \in ToSet(running')
      BY <1>2, <2>1, <2>2, <2>3 DEF CanInsert, Keys
    <3> QED BY <1>0, <2>1, <2>3, <2>5, <3>1 DEF IOInv, NobodyLost
  <2> QED BY <2>7, <2>8, MovedKeeps
<1> QED BY <1>3, <1>4, <1>6, <1>7, <1>8

(* The successor of a key is resumed, or the cycle ends.                   *)
LEMMA TurnPasses ==
  ASSUME NEW run, NEW key, WellFormed(Ready(run, key)), ResumeAfter(run, key), running' = run
  PROVE  /\ WellFormed(Ready(running', currentkey')) /\ current' \in Maybe(Routine)
         /\ phase' = "routine" =>
              Placed(Ready(running', currentkey'), current') /\ current' \in ToSet(running')
<1> DEFINE next == ValueAfter(run, key)
<1>1. /\ run \in Seq(Routine) /\ key \in Routine \cup {FIRST}
      /\ NoRepeats(run) /\ key \in Keys(run)
  BY WellFormedReady
<1>2. Pos(run, key) \in 0..Len(run) /\ Len(run) \in Nat
  BY <1>1, Names, PosFacts DEF Keys
<1>3. CASE next # NIL
  <2>1. current' = next /\ currentkey' = key
    BY <1>3 DEF ResumeAfter
  <2>2. Pos(run, key) < Len(run) /\ next = run[Pos(run, key) + 1]
    BY <1>3 DEF ValueAfter
  <2>3. Pos(run, key) + 1 \in 1..Len(run)
    BY <1>2, <2>2
  <2>4. next \in ToSet(run) /\ Pos(run, next) = Pos(run, key) + 1 /\ next \in Routine
    <3>1. \A i \in 1..Len(run) : run[i] \in ToSet(run) /\ Pos(run, run[i]) = i
      BY <1>1, Names, PosFacts
    <3>2. ToSet(run) \subseteq Routine
      BY <1>1, Names, PosFacts
    <3> QED BY <3>1, <3>2, <2>2, <2>3
  <2> HIDE DEF next
  <2>5. Pos(run, key) < Pos(run, next)
    BY <2>4, <1>2
  <2>6. ToSet(<<>>) = {}
    BY DEF ToSet
  <2>7. Placed(Ready(run, key), next)
    BY <2>4, <2>5, <2>6 DEF Placed, Ready
  <2> QED BY <2>1, <2>4, <2>7 DEF Maybe
<1>4. CASE next = NIL
  <2>1. current' = NIL /\ currentkey' = FIRST /\ phase' = "stepped"
    BY <1>4 DEF ResumeAfter
  <2>2. WellFormed(Ready(run, FIRST))
    BY <1>1, WellFormedReady DEF Keys
  <2> QED BY <2>1, <2>2 DEF Maybe
<1> QED BY <1>3, <1>4

(* The steps of resumeall, step and run that leave the sleepers alone.     *)
LEMMA QuietKeeps ==
  ASSUME IOInv, Quiet
  PROVE  /\ NextRoutine \/ Bury \/ CallTrap \/ TrapReturns \/ Raise \/ RunEnds => IOInv'
         /\ Halt \/ Run(NIL) \/ Tick => IOInv'
<1>0. /\ waiting' = waiting /\ locked' = locked /\ op' = op /\ ready' = ready
      /\ waiting' \in [Side -> Maybe(Routine)] /\ ready' \subseteq Side
      /\ Waiters' = Waiters
  BY DEF Quiet, iovars, IOInv, IOTypes, Waiters
<1>1. /\ sleeping \in Seq(Routine) /\ NoRepeats(sleeping)
      /\ wake \in [Routine -> Int] /\ currentkey \in Routine \cup {FIRST}
      /\ current \in Maybe(Routine) /\ clock \in Nat
      /\ status \in [Routine -> {"new", "live", "done", "failed"}]
      /\ \A r \in ToSet(running) \cap ToSet(sleeping) : op[r] # NIL
      /\ WellFormed(Ready(running, currentkey))
      /\ phase = "routine" =>
           Placed(Ready(running, currentkey), current) /\ (op[current] = NIL => current \notin ToSet(sleeping))
  BY ListFacts DEF IOInv, IOTypes, CallsInv, TurnPlaced
<1>2. ASSUME /\ sleeping' = sleeping /\ wake' = wake /\ status' = status /\ parked' = parked
             /\ clock' \in Nat /\ current' \in Maybe(Routine)
             /\ WellFormed(Ready(running', currentkey'))
             /\ ToSet(running') \subseteq ToSet(running)
             /\ \A r \in ToSet(running) \ ToSet(running') : status[r] # "live"
             /\ phase' = "routine" =>
                  /\ Placed(Ready(running', currentkey'), current')
                  /\ current' \in ToSet(running') \/ (current' = current /\ phase = "routine")
      PROVE  IOInv'
  <2>1. Active' \subseteq Active
    BY <1>2 DEF Active
  <2>2. phase' = "routine" /\ op[current'] = NIL => current' \notin ToSet(sleeping')
    BY <1>1, <1>2
  <2>3. Moved
    BY <1>0, <1>1, <1>2, <2>1, <2>2 DEF Moved
  <2>4. SelfCalls = {} => NobodyLost'
    BY <1>0, <1>2 DEF IOInv, NobodyLost
  <2> QED BY <2>3, <2>4, MovedKeeps
<1> DEFINE Buries == WellFormed(Ready(Buried, currentkey)) /\ ToSet(Buried) \subseteq ToSet(running)
                     /\ \A r \in ToSet(running) \ ToSet(Buried) : status[r] # "live"
<1>3. ASSUME Ended PROVE Buries
  <2>1. current \in Routine /\ status[current] # "live"
    BY <1>1, <1>3 DEF Ended, Maybe
  <2> QED BY <2>1, LeftList DEF Buried
<1>4. ASSUME NextRoutine PROVE IOInv'
  <2> DEFINE key == IF current \in ToSet(running) THEN current ELSE currentkey
  <2>1. /\ sleeping' = sleeping /\ wake' = wake /\ status' = status /\ parked' = parked
        /\ clock' = clock /\ running' = running /\ ResumeAfter(running, key)
    BY <1>4 DEF NextRoutine, InCycle
  <2>2. WellFormed(Ready(running, key))
    BY <1>1, ListFacts, WellFormedReady DEF Keys
  <2> HIDE DEF key
  <2>3. /\ WellFormed(Ready(running', currentkey')) /\ current' \in Maybe(Routine)
        /\ phase' = "routine" =>
             Placed(Ready(running', currentkey'), current') /\ current' \in ToSet(running')
    BY <2>1, <2>2, TurnPasses
  <2> QED BY <1>1, <1>2, <2>1, <2>3
<1>5. ASSUME Bury PROVE IOInv'
  <2>1. /\ sleeping' = sleeping /\ wake' = wake /\ status' = status /\ parked' = parked
        /\ clock' = clock /\ running' = Buried /\ ResumeAfter(Buried, currentkey) /\ Ended
    BY <1>5 DEF Bury, InCycle
  <2>2. Buries
    BY <1>3, <2>1
  <2>3. /\ WellFormed(Ready(running', currentkey')) /\ current' \in Maybe(Routine)
        /\ phase' = "routine" =>
             Placed(Ready(running', currentkey'), current') /\ current' \in ToSet(running')
    BY <2>1, <2>2, TurnPasses
  <2> QED BY <1>1, <1>2, <2>1, <2>2, <2>3
<1>6. ASSUME CallTrap \/ Raise PROVE IOInv'
  <2>1. /\ sleeping' = sleeping /\ wake' = wake /\ status' = status /\ parked' = parked
        /\ clock' = clock /\ running' = Buried /\ currentkey' = currentkey /\ current' = NIL
        /\ phase' # "routine" /\ Ended
    BY <1>6 DEF CallTrap, Raise, InCycle
  <2>2. Buries
    BY <1>3, <2>1
  <2> QED BY <1>1, <1>2, <2>1, <2>2 DEF Maybe
<1>7. ASSUME TrapReturns \/ RunEnds \/ Run(NIL) PROVE IOInv'
  <2>1. /\ UNCHANGED <<running, sleeping, wake, status, parked, clock, currentkey, current>>
        /\ phase' # "routine"
    BY <1>7 DEF TrapReturns, RunEnds, Run, lists, history
  <2> QED BY <1>1, <1>2, <2>1
<1>8. ASSUME Halt \/ Tick PROVE IOInv'
  <2>1. /\ UNCHANGED <<running, sleeping, wake, status, parked, currentkey, current, phase>>
        /\ clock' = clock \/ clock' = clock + 1
    BY <1>8 DEF Halt, Tick, lists, history
  <2> QED BY <1>1, <1>2, <2>1
<1> QED BY <1>4, <1>5, <1>6, <1>7, <1>8

(* Data arrives, or nothing happens.                                       *)
LEMMA StandsStill ==
  ASSUME IOInv, UNCHANGED <<vars, waiting, locked, op>>, ready' \subseteq Side
  PROVE  IOInv'
<1>1. /\ UNCHANGED <<running, sleeping, wake, status, parked, currentkey, current, phase, clock>>
      /\ UNCHANGED <<waiting, locked, op>> /\ Active' = Active
  BY DEF vars, lists, history, Active
<1>2. Moved
  BY <1>1, ListFacts DEF Moved, IOInv, IOTypes, CallsInv, TurnPlaced
<1>3. SelfCalls = {} => NobodyLost'
  BY <1>1 DEF IOInv, NobodyLost, Waiters
<1> QED BY <1>2, <1>3, MovedKeeps

(* The routines a signal makes ready, and their subscriptions.             *)
LEMMA SignalledFacts ==
  ASSUME IOInv, Signalled
  PROVE  /\ WellFormed(Ready(running', currentkey))
         /\ ToSet(running) \subseteq ToSet(running')
         /\ \A r \in ToSet(running') \ ToSet(running) :
              /\ r \in Routine /\ op[r] # NIL
              /\ op[r].kind # "select" => \A e \in Side : waiting'[e] # r
         /\ waiting' \in [Side -> Maybe(Routine)]
         /\ \A e \in Side : waiting'[e] = IF e \in ready THEN NIL ELSE waiting[e]
         /\ Waiters \subseteq ToSet(running') \cup {waiting'[e] : e \in Side}
<1> DEFINE released == {waiting[e] : e \in Watched \cap ready} \ ToSet(running)
<1>0. /\ waiting \in [Side -> Maybe(Routine)] /\ ready \subseteq Side
      /\ running \in Seq(Routine) /\ NoRepeats(running)
      /\ currentkey \in Keys(running) /\ currentkey \in Routine \cup {FIRST}
  BY ListFacts DEF IOInv, IOTypes
<1>1. PICK s \in SetToSeqs(released) : running' = running \o s
  BY DEF Signalled
<1>2. /\ waiting' = [e \in Side |-> IF e \in ready THEN NIL ELSE waiting[e]]
      /\ waiting' \in [Side -> Maybe(Routine)]
  BY <1>0 DEF Signalled, Maybe
<1>3. released \in SUBSET Routine /\ IsFiniteSet(released)
  <2>1. IsFiniteSet(Watched \cap ready)
    BY IOAssumption, FS_Subset DEF Watched
  <2>2. IsFiniteSet({waiting[e] : e \in Watched \cap ready})
    <3> DEFINE S == Watched \cap ready
               T == {waiting[e] : e \in S}
    <3>1. [e \in S |-> waiting[e]] \in Surjection(S, T)
      BY DEF Surjection
    <3>2. IsFiniteSet(S)
      BY <2>1
    <3> HIDE DEF S, T
    <3>3. IsFiniteSet(T)
      BY ONLY <3>1, <3>2, FS_Surjection
    <3> QED BY <3>3 DEF S, T
  <2>3. IsFiniteSet(released)
    BY <2>2, FS_Subset
  <2> QED BY <1>0, <2>3 DEF Watched, Maybe
<1>4. s \in Seq(Routine) /\ NoRepeats(s) /\ ToSet(s) = released
  <2> HIDE DEF released
  <2> QED BY <1>1, <1>3, ReleasedFacts
<1>5. /\ running \o s \in Seq(Routine) /\ NoRepeats(running \o s)
      /\ ToSet(running \o s) = ToSet(running) \cup ToSet(s)
  <2>1. ToSet(running) \cap ToSet(s) = {}
    BY <1>4
  <2> QED BY ONLY <2>1, <1>0, <1>4, Names, JoinFacts
<1>6. WellFormed(Ready(running', currentkey))
  BY <1>0, <1>1, <1>5, WellFormedReady DEF Keys
<1>7. ASSUME NEW r \in ToSet(running') \ ToSet(running)
      PROVE  /\ r \in Routine /\ op[r] # NIL
             /\ op[r].kind # "select" => \A e \in Side : waiting'[e] # r
  <2>1. r \in released
    BY <1>1, <1>4, <1>5
  <2>2. PICK e \in Watched \cap ready : r = waiting[e]
    BY <2>1
  <2>3. r \in Routine /\ op[r] # NIL /\ e \in op[r].sides /\ e \in Side
    BY <1>3, <2>1, <2>2 DEF IOInv, LocksMatchCalls, Watched
  <2>4. ASSUME op[r].kind # "select", NEW d \in Side, waiting'[d] = r PROVE FALSE
    <3>1. d \notin ready /\ waiting[d] = r
      BY <1>2, <2>3, <2>4, Names
    <3>2. d \in Watched
      BY <2>3, <3>1, Names DEF Watched
    <3>3. d \in op[r].sides
      BY <3>1, <3>2 DEF IOInv, LocksMatchCalls
    <3>4. \E x \in Side : op[r].sides = {x}
      BY <2>3, <2>4 DEF IOInv, CallsInv
    <3> QED BY <2>2, <2>3, <3>1, <3>3, <3>4
  <2> QED BY <2>2, <2>3, <2>4
<1>8. Waiters \subseteq ToSet(running') \cup {waiting'[e] : e \in Side}
  <2> SUFFICES ASSUME NEW e \in Side, waiting[e] # NIL
               PROVE  waiting[e] \in ToSet(running') \cup {waiting'[x] : x \in Side}
    BY DEF Waiters
  <2>1. CASE e \in ready
    <3>1. waiting[e] \in released \cup ToSet(running)
      BY <2>1 DEF Watched
    <3> QED BY <1>1, <1>4, <1>5, <3>1
  <2>2. CASE e \notin ready
    BY <1>2, <2>2
  <2> QED BY <2>1, <2>2
<1> QED BY <1>1, <1>2, <1>5, <1>6, <1>7, <1>8

(* A step that signals, and changes nothing else of the invariant.         *)
LEMMA SignalKeeps ==
  ASSUME IOInv, Signal \/ IORunAgain
  PROVE  IOInv'
<1>1. /\ UNCHANGED <<sleeping, wake, currentkey, current, status, clock, parked, locked, op, ready>>
      /\ phase # "routine" /\ phase' # "routine"
      /\ Signalled \/ UNCHANGED <<running, waiting>>
  BY DEF Signal, IORunAgain
<1>2. CASE Signalled
  <2>1. /\ WellFormed(Ready(running', currentkey))
        /\ ToSet(running) \subseteq ToSet(running')
        /\ \A r \in ToSet(running') \ ToSet(running) :
             /\ r \in Routine /\ op[r] # NIL
             /\ op[r].kind # "select" => \A e \in Side : waiting'[e] # r
        /\ waiting' \in [Side -> Maybe(Routine)]
        /\ \A e \in Side : waiting'[e] = IF e \in ready THEN NIL ELSE waiting[e]
        /\ Waiters \subseteq ToSet(running') \cup {waiting'[e] : e \in Side}
    BY <1>2, SignalledFacts
  <2>2. ASSUME NEW r \in Routine, op[r] # NIL, op[r].kind # "select", r \in Active' \cap Waiters'
        PROVE  r \in Active
    <3>1. r \in ToSet(running') /\ \E e \in Side : waiting'[e] = r
      BY <1>1, <2>2 DEF Active, Waiters
    <3> QED BY <2>1, <2>2, <3>1 DEF Active
  <2>3. Moved
    BY <1>1, <2>1, <2>2, ListFacts DEF Moved, IOInv, IOTypes, CallsInv
  <2>4. Waiters \subseteq ToSet(running') \cup Waiters'
    <3>1. NIL \notin Waiters
      BY DEF Waiters
    <3>2. Waiters' = {waiting'[e] : e \in Side} \ {NIL}
      BY DEF Waiters
    <3> QED BY <2>1, <3>1, <3>2
  <2>5. SelfCalls = {} => NobodyLost'
    BY <1>1, <2>1, <2>4 DEF IOInv, NobodyLost
  <2> QED BY <2>3, <2>5, MovedKeeps
<1>3. CASE UNCHANGED <<running, waiting>>
  <2>1. Moved
    BY <1>1, <1>3, ListFacts DEF Moved, IOInv, IOTypes, CallsInv, Active
  <2>2. SelfCalls = {} => NobodyLost'
    BY <1>1, <1>3 DEF IOInv, NobodyLost, Waiters
  <2> QED BY <2>1, <2>2, MovedKeeps
<1> QED BY <1>1, <1>2, <1>3

(* wakeupall() moves the first sleepers to the ready.                      *)
LEMMA IOWakeUpKeeps ==
  ASSUME IOInv, IOWakeUpAll
  PROVE  IOInv'
<1>1. PICK n \in 0..Len(sleeping) :
        /\ running' = Enqueued(running, SubSeq(sleeping, 1, n))
        /\ sleeping' = SubSeq(sleeping, n + 1, Len(sleeping))
        /\ wake' = Priorities(sleeping', wake)
  BY DEF IOWakeUpAll
<1> DEFINE awake == SubSeq(sleeping, 1, n)
           rest == SubSeq(sleeping, n + 1, Len(sleeping))
<1>2. /\ UNCHANGED <<current, currentkey, status, clock, parked, waiting, locked, op, ready>>
      /\ phase' = "cycle" /\ Waiters' = Waiters
  BY DEF IOWakeUpAll, iovars, Waiters
<1>3. /\ running \in Seq(Routine) /\ NoRepeats(running)
      /\ sleeping \in Seq(Routine) /\ NoRepeats(sleeping)
      /\ currentkey \in Keys(running) /\ currentkey \in Routine \cup {FIRST}
  BY ListFacts
<1>4. /\ awake \in Seq(Routine) /\ rest \in Seq(Routine) /\ NoRepeats(rest)
      /\ ToSet(awake) \cap ToSet(rest) = {} /\ ToSet(awake) \cup ToSet(rest) = ToSet(sleeping)
  BY ONLY <1>3, n \in 0..Len(sleeping), Names, SplitFacts
<1> HIDE DEF awake, rest
<1>5. /\ running' \in Seq(Routine) /\ NoRepeats(running')
      /\ ToSet(running') = ToSet(running) \cup ToSet(awake)
  BY <1>1, <1>3, <1>4, EnqueuedFacts DEF awake
<1>6. sleeping' = rest /\ wake' \in [Routine -> Int]
  BY <1>1 DEF rest, Priorities, IOInv, IOTypes
<1>7. WellFormed(Ready(running', currentkey'))
  BY <1>2, <1>3, <1>5, WellFormedReady DEF Keys
<1>8. Moved
  <2>1. \A r \in ToSet(running') \cap ToSet(sleeping') : op[r] # NIL
    BY <1>4, <1>5, <1>6 DEF IOInv, CallsInv
  <2>2. ASSUME NEW r \in Active', r \in ToSet(sleeping') PROVE r \in Active
    BY <1>2, <1>4, <1>5, <1>6, <2>2 DEF Active
  <2> QED BY <1>2, <1>4, <1>5, <1>6, <1>7, <2>1, <2>2 DEF Moved, IOInv, IOTypes
<1>9. SelfCalls = {} => NobodyLost'
  BY <1>2, <1>4, <1>5, <1>6 DEF IOInv, NobodyLost
<1> QED BY <1>8, <1>9, MovedKeeps

-----------------------------------------------------------------------------
(* Steps of the socket calls *)

(* No other call uses the sides of a call that begins or goes on, and      *)
(* nobody else is subscribed to them.                                      *)
LEMMA SidesFree ==
  ASSUME IOInv, current \in Routine, NEW call \in Calls,
         op[current] = call \/ (op[current] = NIL /\ call.sides \cap locked = {})
  PROVE  /\ \A r \in Routine \ {current} : op[r] # NIL => op[r].sides \cap call.sides = {}
         /\ \A e \in call.sides : waiting[e] \in {NIL, current}
<1>1. LocksMatchCalls /\ call # NIL
  BY IOAssumption DEF IOInv
<1>2. ASSUME NEW r \in Routine \ {current}, op[r] # NIL PROVE op[r].sides \cap call.sides = {}
  <2>1. CASE op[current] = call
    BY <1>1, <1>2, <2>1 DEF LocksMatchCalls
  <2>2. CASE call.sides \cap locked = {}
    <3>1. op[r].sides \subseteq locked
      BY <1>1, <1>2 DEF LocksMatchCalls
    <3> QED BY <2>2, <3>1
  <2> QED BY <2>1, <2>2
<1>3. ASSUME NEW e \in call.sides, waiting[e] \notin {NIL, current} PROVE FALSE
  <2>1. e \in Side
    BY DEF Calls
  <2>2. e \in Watched /\ waiting[e] \in Routine \ {current}
    BY <1>3, <2>1 DEF Watched, IOInv, IOTypes, Maybe
  <2>3. op[waiting[e]] # NIL /\ e \in op[waiting[e]].sides
    BY <1>1, <2>2 DEF LocksMatchCalls
  <2> QED BY <1>2, <2>2, <2>3
<1> QED BY <1>2, <1>3

(* The current routine, in a call that begins or goes on, waits for a      *)
(* signal.                                                                 *)
LEMMA CallWaits ==
  ASSUME IOInv, NEW call \in Calls, NEW key \in {FIRST, currentkey},
         Waits(call.sides, key), call.sides # {},
         call.kind # "select" => \E e \in Side : call.sides = {e},
         op[current] = call \/ (op[current] = NIL /\ call.sides \cap locked = {}),
         op' = [op EXCEPT ![current] = call], locked' = locked \cup call.sides,
         ready' \subseteq Side,
         sleeping' \in Seq(Routine), NoRepeats(sleeping'), wake' \in [Routine -> Int],
         ToSet(sleeping) \subseteq ToSet(sleeping'),
         ToSet(sleeping') \subseteq ToSet(sleeping) \cup {current},
         current \in ToSet(sleeping') => Timed(call)
  PROVE  IOInv'
<1>1. /\ EndTurn /\ running' = Removed(running, current, key)
      /\ waiting' = [e \in Side |-> IF e \in call.sides THEN current ELSE waiting[e]]
      /\ currentkey' = currentkey /\ status' = status /\ parked' = parked
  BY DEF Waits
<1>2. /\ phase = "routine" /\ phase' = "cycle" /\ current \in Routine
      /\ current' = current /\ clock' = clock /\ status[current] # "new"
  BY <1>1, CurrentFacts
<1>3. /\ IOTypes /\ ExistInv /\ CallsInv /\ LocksMatchCalls /\ call # NIL
      /\ call.sides \subseteq Side
  BY IOAssumption DEF IOInv, Calls
<1>4. /\ WellFormed(Ready(running', currentkey')) /\ current \notin ToSet(running')
      /\ running' \in Seq(Routine)
      /\ ToSet(running) \ {current} \subseteq ToSet(running') /\ ToSet(running') \subseteq ToSet(running)
  BY <1>1, <1>2, LeftList
<1>5. \A r \in Routine : op'[r] = IF r = current THEN call ELSE op[r]
  BY <1>3 DEF IOTypes
<1>6. /\ \A r \in Routine \ {current} : op[r] # NIL => op[r].sides \cap call.sides = {}
      /\ \A e \in call.sides : waiting[e] \in {NIL, current}
  BY <1>2, SidesFree
<1>7. /\ waiting' \in [Side -> Maybe(Routine)]
      /\ \A e \in Side : waiting'[e] = IF e \in call.sides THEN current ELSE waiting[e]
  BY <1>1, <1>2, <1>3 DEF IOTypes, Maybe
<1>8. /\ Waiters' \subseteq Waiters \cup {current}
      /\ Waiters \cup {current} \subseteq Waiters'
  <2>1. Waiters' = {waiting'[e] : e \in Side} \ {NIL}
    BY DEF Waiters
  <2>2. current # NIL
    BY <1>2, Names
  <2>3. ASSUME NEW e \in Side, waiting[e] # NIL PROVE waiting[e] \in Waiters' \/ waiting[e] = current
    BY <1>6, <1>7, <2>1, <2>3
  <2>4. current \in Waiters'
    BY <1>3, <1>7, <2>1, <2>2
  <2>5. Waiters' \subseteq Waiters \cup {current}
    BY <1>7, <2>1 DEF Waiters
  <2>6. Waiters \subseteq Waiters' \cup {current}
    BY <2>3 DEF Waiters
  <2> QED BY <2>4, <2>5, <2>6
<1>9. Active' \subseteq Active /\ current \notin Active'
  BY <1>2, <1>4 DEF Active
<1>10. IOTypes'
  <2>1. op' \in [Routine -> Calls \cup {NIL}]
    BY <1>3 DEF IOTypes
  <2> QED BY <1>1, <1>2, <1>3, <1>4, <1>7, <2>1 DEF IOTypes
<1>11. ExistInv' /\ ListsInv' /\ TurnPlaced'
  <2>1. ExistInv'
    BY <1>1, <1>2, <1>3, <1>4, <1>5 DEF ExistInv
  <2>2. ListsInv'
    BY <1>4 DEF ListsInv
  <2>3. TurnPlaced'
    BY <1>2 DEF TurnPlaced
  <2> QED BY <2>1, <2>2, <2>3
<1>12. CallsInv'
  <2>1. ASSUME NEW r \in ToSet(running') \cap ToSet(sleeping') PROVE op'[r] # NIL
    <3>1. r \in Routine /\ r # current /\ r \in ToSet(running) \cap ToSet(sleeping)
      BY <1>4, <2>1, ListFacts
    <3> QED BY <1>3, <1>5, <3>1 DEF CallsInv
  <2>2. ASSUME NEW r \in Routine, op'[r] # NIL
        PROVE  /\ op'[r].kind # "select" => \E e \in Side : op'[r].sides = {e}
               /\ r \in ToSet(sleeping') => Timed(op'[r])
               /\ op'[r].kind # "select" /\ r \in Active' \cap Waiters' => r \notin ToSet(sleeping')
    <3>1. CASE r = current
      BY <1>5, <1>9, <3>1
    <3>2. CASE r # current
      <4>1. op'[r] = op[r]
        BY <1>5, <3>2
      <4> QED BY <1>3, <1>8, <1>9, <2>2, <3>2, <4>1 DEF CallsInv
    <3> QED BY <3>1, <3>2
  <2> QED BY <2>1, <2>2 DEF CallsInv, Timed
<1>13. LocksMatchCalls'
  <2>1. locked' = UNION {op'[r].sides : r \in {x \in Routine : op'[x] # NIL}}
    <3>1. \A r \in Routine \ {current} : op'[r] = op[r]
      BY <1>5
    <3>2. op'[current] = call
      BY <1>2, <1>5
    <3>3. locked = UNION {op[r].sides : r \in {x \in Routine : op[x] # NIL}}
      BY <1>3 DEF LocksMatchCalls
    <3>4. ASSUME NEW x PROVE x \in locked' <=> \E r \in Routine : op'[r] # NIL /\ x \in op'[r].sides
      <4>1. x \in locked <=> \E r \in Routine : op[r] # NIL /\ x \in op[r].sides
        BY <3>3
      <4> QED BY <1>2, <1>3, <3>1, <3>2, <4>1
    <3> QED BY <3>4
  <2>2. \A r, q \in Routine : op'[r] # NIL /\ op'[q] # NIL /\ r # q => op'[r].sides \cap op'[q].sides = {}
    BY <1>3, <1>5, <1>6 DEF LocksMatchCalls
  <2>3. ASSUME NEW e \in Side, waiting'[e] # NIL
        PROVE  op'[waiting'[e]] # NIL /\ e \in op'[waiting'[e]].sides
    <3>1. CASE e \in call.sides
      BY <1>2, <1>3, <1>5, <1>7, <3>1
    <3>2. CASE e \notin call.sides
      <4>1. waiting'[e] = waiting[e] /\ waiting[e] \in Routine /\ e \in Watched
        BY <1>3, <1>7, <2>3, <3>2 DEF IOTypes, Watched, Maybe
      <4>2. op[waiting[e]] # NIL /\ e \in op[waiting[e]].sides
        BY <1>3, <4>1 DEF LocksMatchCalls
      <4>3. waiting[e] # current
        BY IOAssumption, <3>2, <4>2
      <4> QED BY <1>5, <4>1, <4>2, <4>3
    <3> QED BY <3>1, <3>2
  <2> QED BY <2>1, <2>2, <2>3 DEF LocksMatchCalls, Watched
<1>14. SelfCalls = {} => NobodyLost'
  BY <1>1, <1>2, <1>4, <1>8 DEF IOInv, NobodyLost
<1> QED BY <1>10, <1>11, <1>12, <1>13, <1>14 DEF IOInv

(* A call returns.                                                         *)
LEMMA CallEnds ==
  ASSUME IOInv, phase = "routine", op[current] # NIL, Returns, ready' \subseteq Side,
         waiting' \in [Side -> Maybe(Routine)],
         \A e \in Side : waiting'[e] = IF waiting[e] = current THEN NIL ELSE waiting[e],
         sleeping' \in Seq(Routine), NoRepeats(sleeping'), wake' \in [Routine -> Int],
         ToSet(sleeping') = ToSet(sleeping) \ {current}
  PROVE  IOInv'
<1>1. /\ op' = [op EXCEPT ![current] = NIL] /\ locked' = locked \ op[current].sides
      /\ UNCHANGED <<running, currentkey, current, phase, status, clock, parked>>
  BY DEF Returns
<1>2. /\ IOTypes /\ ListsInv /\ ExistInv /\ CallsInv /\ LocksMatchCalls
      /\ Placed(Ready(running, currentkey), current) /\ status[current] # "new"
  BY DEF IOInv, TurnPlaced
<1>3. current \in Routine /\ current # NIL /\ (SelfCalls = {} => current \in ToSet(running))
  BY <1>2, Names DEF Placed, Ready
<1>4. \A r \in Routine : op'[r] = IF r = current THEN NIL ELSE op[r]
  BY <1>1, <1>2 DEF IOTypes
<1>5. Waiters' = Waiters \ {current}
  <2>1. Waiters' = {waiting'[e] : e \in Side} \ {NIL}
    BY DEF Waiters
  <2>2. \A x : x # NIL => ((\E e \in Side : x = waiting'[e]) <=> (x # current /\ \E e \in Side : x = waiting[e]))
    BY <1>3
  <2> QED BY <2>1, <2>2 DEF Waiters
<1>6. Active' = Active
  BY <1>1 DEF Active
<1>7. IOTypes'
  <2>1. op' \in [Routine -> Calls \cup {NIL}]
    BY <1>1, <1>2 DEF IOTypes
  <2> QED BY <1>1, <1>2, <2>1 DEF IOTypes
<1>8. ExistInv' /\ ListsInv' /\ TurnPlaced'
  <2>1. ExistInv'
    BY <1>1, <1>2, <1>4 DEF ExistInv
  <2>2. ListsInv'
    BY <1>1, <1>2 DEF ListsInv
  <2>3. TurnPlaced'
    BY <1>1, <1>2 DEF TurnPlaced
  <2> QED BY <2>1, <2>2, <2>3
<1>9. CallsInv'
  <2>1. ASSUME NEW r \in ToSet(running') \cap ToSet(sleeping') PROVE op'[r] # NIL
    <3>1. r \in Routine /\ r # current /\ r \in ToSet(running) \cap ToSet(sleeping)
      BY <1>1, <2>1, ListFacts
    <3> QED BY <1>2, <1>4, <3>1 DEF CallsInv
  <2>2. ASSUME NEW r \in Routine, op'[r] # NIL
        PROVE  /\ op'[r].kind # "select" => \E e \in Side : op'[r].sides = {e}
               /\ r \in ToSet(sleeping') => Timed(op'[r])
               /\ op'[r].kind # "select" /\ r \in Active' \cap Waiters' => r \notin ToSet(sleeping')
    <3>1. op'[r] = op[r] /\ r # current
      BY <1>4, <2>2
    <3> QED BY <1>2, <1>5, <1>6, <2>2, <3>1 DEF CallsInv
  <2> QED BY <2>1, <2>2 DEF CallsInv, Timed
<1>10. LocksMatchCalls'
  <2>1. locked' = UNION {op'[r].sides : r \in {x \in Routine : op'[x] # NIL}}
    <3>3. locked = UNION {op[r].sides : r \in {x \in Routine : op[x] # NIL}}
      BY <1>2 DEF LocksMatchCalls
    <3>4. ASSUME NEW x PROVE x \in locked' <=> \E r \in Routine : op'[r] # NIL /\ x \in op'[r].sides
      <4>1. x \in locked <=> \E r \in Routine : op[r] # NIL /\ x \in op[r].sides
        BY <3>3
      <4>2. \A r \in Routine \ {current} : op[r] # NIL => op[r].sides \cap op[current].sides = {}
        BY <1>2, <1>3 DEF LocksMatchCalls
      <4>3. x \in op[current].sides =>
              \A r \in Routine \ {current} : op[r] # NIL => x \notin op[r].sides
        BY <4>2
      <4> QED BY <1>1, <1>3, <1>4, <4>1, <4>3
    <3> QED BY <3>4
  <2>2. \A r, q \in Routine : op'[r] # NIL /\ op'[q] # NIL /\ r # q => op'[r].sides \cap op'[q].sides = {}
    BY <1>2, <1>4 DEF LocksMatchCalls
  <2>3. ASSUME NEW e \in Side, waiting'[e] # NIL
        PROVE  op'[waiting'[e]] # NIL /\ e \in op'[waiting'[e]].sides
    <3>1. waiting'[e] = waiting[e] /\ waiting[e] \in Routine \ {current} /\ e \in Watched
      BY <1>2, <2>3 DEF IOTypes, Watched, Maybe
    <3> QED BY <1>2, <1>4, <3>1 DEF LocksMatchCalls
  <2> QED BY <2>1, <2>2, <2>3 DEF LocksMatchCalls, Watched
<1>11. SelfCalls = {} => NobodyLost'
  BY <1>1, <1>3, <1>5 DEF IOInv, NobodyLost
<1> QED BY <1>7, <1>8, <1>9, <1>10, <1>11 DEF IOInv

(* The current routine is taken out of the sleepers.                       *)
LEMMA AwakeFacts ==
  ASSUME IOInv, current \in Routine, NEW timed \in BOOLEAN, Awake(timed),
         ~timed => current \notin ToSet(sleeping)
  PROVE  /\ sleeping' \in Seq(Routine) /\ NoRepeats(sleeping') /\ wake' \in [Routine -> Int]
         /\ ToSet(sleeping') = ToSet(sleeping) \ {current}
<1>1. sleeping \in Seq(Routine) /\ NoRepeats(sleeping) /\ wake \in [Routine -> Int]
  BY ListFacts DEF IOInv, IOTypes
<1>2. wake' = Priorities(sleeping', wake) /\ wake' \in [Routine -> Int]
  BY <1>1 DEF Awake, Priorities
<1>3. CASE timed
  <2>1. sleeping' = Removed(sleeping, current, FIRST)
    BY <1>3 DEF Awake
  <2>2. current \in ToSet(sleeping) => Found(sleeping, current, FIRST)
    <3>1. ASSUME current \in ToSet(sleeping) PROVE Pos(sleeping, FIRST) < Pos(sleeping, current)
      BY <1>1, <3>1, Names, PosFacts
    <3> QED BY <3>1 DEF Found, Keys
  <2>3. /\ Removed(sleeping, current, FIRST) \in Seq(Routine)
        /\ NoRepeats(Removed(sleeping, current, FIRST))
        /\ ToSet(Removed(sleeping, current, FIRST)) =
             IF Found(sleeping, current, FIRST) THEN ToSet(sleeping) \ {current} ELSE ToSet(sleeping)
    BY ONLY <1>1, current \in Routine, Names, RemovedFacts
  <2> QED BY <1>2, <2>1, <2>2, <2>3 DEF Found
<1>4. CASE ~timed
  <2>1. sleeping' = sleeping
    BY <1>4 DEF Awake
  <2> QED BY <1>1, <1>2, <1>4, <2>1
<1> QED BY <1>3, <1>4

(* time() counts the seconds, and does not go back.                        *)
LEMMA SecondsPass ==
  ASSUME NEW c \in Nat
  PROVE  /\ c \div TicksPerSecond \in Nat
         /\ (c + 1) \div TicksPerSecond >= c \div TicksPerSecond
<1>1. TicksPerSecond \in Nat \ {0}
  BY SchedulerAssumption
<1> QED BY <1>1

(* A call that begins waits, and perhaps sleeps.                           *)
LEMMA BlocksKeeps ==
  ASSUME IOInv, NEW call \in Calls, NEW key \in {FIRST, currentkey}, NEW timed \in BOOLEAN,
         op[current] = NIL, call.sides \cap locked = {}, call.sides # {},
         call.kind # "select" => \E e \in Side : call.sides = {e},
         Blocks(call, key, timed), timed => Timed(call), ready' \subseteq Side
  PROVE  IOInv'
<1>1. /\ Waits(call.sides, key) /\ EndTurn
      /\ IF timed THEN Asleep(call.timeout) ELSE UNCHANGED <<sleeping, wake>>
      /\ locked' = locked \cup call.sides /\ op' = [op EXCEPT ![current] = call]
  BY DEF Blocks, Waits
<1>2. current \in Routine /\ current \notin ToSet(sleeping)
  BY <1>1, CurrentFacts
<1>3. /\ sleeping' \in Seq(Routine) /\ NoRepeats(sleeping') /\ wake' \in [Routine -> Int]
      /\ ToSet(sleeping) \subseteq ToSet(sleeping')
      /\ ToSet(sleeping') \subseteq ToSet(sleeping) \cup {current}
      /\ current \in ToSet(sleeping') => Timed(call)
  <2>1. CASE timed
    <3>1. call.timeout \in Int
      BY <2>1, IOAssumption DEF Timed, Positive, Calls
    <3>2. Asleep(call.timeout)
      BY <1>1, <2>1
    <3> QED BY <1>2, <2>1, <3>1, <3>2, AsleepFacts
  <2>2. CASE ~timed
    BY <1>1, <1>2, <2>2, ListFacts DEF IOInv, IOTypes
  <2> QED BY <2>1, <2>2
<1> QED BY <1>1, <1>3, CallWaits

(* receive() and send(), accept() and select() are called.                 *)
LEMMA SocketCallsKeep ==
  ASSUME IOInv, SocketCalls
  PROVE  IOInv'
<1>1. ready \subseteq Side /\ Seconds \in Nat
  BY SecondsPass DEF IOInv, IOTypes, Seconds
<1>2. ASSUME NEW kind \in Operations, NEW sides \in SUBSET Side, NEW t \in Timeouts
      PROVE  /\ Call(kind, sides, t) \in Calls /\ Call(kind, sides, t).kind = kind
             /\ Call(kind, sides, t).sides = sides /\ Call(kind, sides, t).timeout = t
             /\ Call(kind, sides, t).from = Seconds
  BY <1>1 DEF Call, Calls
<1>3. ASSUME AtOnce, ready' \subseteq Side PROVE IOInv'
  BY <1>3, StandsStill DEF AtOnce
<1>4. ASSUME NEW e \in Side, NEW t \in Timeouts, Transfer(e, t) PROVE IOInv'
  <2> DEFINE call == Call("transfer", {e}, t)
  <2>1. /\ op[current] = NIL /\ "transfer" \in Operations /\ {e} \cap locked = {}
        /\ ready' \subseteq Side
        /\ AtOnce \/ Blocks(call, FIRST, Positive(t))
    BY <1>1, <1>4 DEF Transfer, MayCall, Call, TriedData, Tried
  <2>2. call \in Calls /\ call.kind = "transfer" /\ call.sides = {e} /\ call.timeout = t
    BY <1>2, <2>1
  <2> HIDE DEF call
  <2>3. Positive(t) \in BOOLEAN /\ (Positive(t) => Timed(call))
    BY <2>2 DEF Positive, Timed
  <2> QED BY <1>3, <2>1, <2>2, <2>3, BlocksKeeps
<1>5. ASSUME NEW e \in Side, NEW t \in Timeouts, Accept(e, t) PROVE IOInv'
  <2> DEFINE call == Call("accept", {e}, t)
  <2>1. /\ op[current] = NIL /\ "accept" \in Operations /\ {e} \cap locked = {}
        /\ ready' \subseteq Side
        /\ AtOnce \/ Blocks(call, currentkey, t # NIL)
    BY <1>1, <1>5 DEF Accept, MayCall, Call, Tried
  <2>2. call \in Calls /\ call.kind = "accept" /\ call.sides = {e} /\ call.timeout = t
    BY <1>2, <2>1
  <2> HIDE DEF call
  <2>3. (t # NIL) \in BOOLEAN /\ (t # NIL => Timed(call))
    BY <2>2 DEF Timed
  <2> QED BY <1>3, <2>1, <2>2, <2>3, BlocksKeeps
<1>6. ASSUME NEW sides \in (SUBSET Side) \ {{}}, NEW t \in Timeouts, Select(sides, t) PROVE IOInv'
  <2> DEFINE call == Call("select", sides, t)
  <2>1. /\ op[current] = NIL /\ "select" \in Operations /\ sides \cap locked = {}
        /\ ready' \subseteq Side
        /\ AtOnce \/ Blocks(call, FIRST, Positive(t))
    BY <1>1, <1>6 DEF Select, MayCall, Call
  <2>2. call \in Calls /\ call.kind = "select" /\ call.sides = sides /\ call.timeout = t
    BY <1>2, <2>1
  <2> HIDE DEF call
  <2>3. Positive(t) \in BOOLEAN /\ (Positive(t) => Timed(call))
    BY <2>2 DEF Positive, Timed
  <2>4. CASE AtOnce
    BY <1>3, <2>1, <2>4
  <2>5. CASE Blocks(call, FIRST, Positive(t))
    <3>1. call.sides \cap locked = {} /\ call.sides # {} /\ call.kind = "select"
      BY <2>1, <2>2
    <3> QED BY <2>1, <2>2, <2>3, <2>5, <3>1, BlocksKeeps
  <2> QED BY <2>1, <2>4, <2>5
<1> QED BY <1>4, <1>5, <1>6 DEF SocketCalls

(* A routine goes on with its call: what holds of it.                      *)
LEMMA ResumedFacts ==
  ASSUME IOInv, NEW kind, Resumed(kind)
  PROVE  /\ phase = "routine" /\ current \in Routine /\ current \in Active
         /\ op[current] \in Calls /\ op[current] # NIL /\ op[current].kind = kind
         /\ op[current].sides \subseteq Side
         /\ kind # "select" => \A e \in op[current].sides : op[current].sides = {e}
         /\ current \in ToSet(sleeping) => Timed(op[current])
         /\ kind # "select" /\ current \in Waiters => current \notin ToSet(sleeping)
         /\ \A e \in Side : waiting[e] = current => e \in op[current].sides
<1>1. phase = "routine" /\ op[current] # NIL /\ op[current].kind = kind
  BY DEF Resumed
<1>2. current \in Routine /\ current \in Active
  BY <1>1 DEF IOInv, TurnPlaced, Placed, Active
<1>3. op[current] \in Calls
  BY <1>1, <1>2 DEF IOInv, IOTypes
<1>4. /\ kind # "select" => \E e \in Side : op[current].sides = {e}
      /\ current \in ToSet(sleeping) => Timed(op[current])
      /\ kind # "select" /\ current \in Waiters => current \notin ToSet(sleeping)
  BY <1>1, <1>2 DEF IOInv, CallsInv
<1>5. \A e \in Side : waiting[e] = current => e \in op[current].sides
  BY <1>2, Names DEF IOInv, LocksMatchCalls, Watched
<1> QED BY <1>1, <1>2, <1>3, <1>4, <1>5 DEF Calls

(* receive() and send(), accept() and select() go on.                      *)
LEMMA GoesOnKeeps ==
  ASSUME IOInv, GoesOn
  PROVE  IOInv'
<1>1. ready \subseteq Side /\ waiting \in [Side -> Maybe(Routine)]
  BY DEF IOInv, IOTypes
<1>2. ASSUME current \in Routine, waiting' = Unsubscribed(current)
      PROVE  /\ waiting' \in [Side -> Maybe(Routine)]
             /\ \A e \in Side : waiting'[e] = IF waiting[e] = current THEN NIL ELSE waiting[e]
  BY <1>1, <1>2 DEF Unsubscribed, Maybe
<1>3. ASSUME current \notin ToSet(sleeping), UNCHANGED <<sleeping, wake>>
      PROVE  /\ sleeping' \in Seq(Routine) /\ NoRepeats(sleeping') /\ wake' \in [Routine -> Int]
             /\ ToSet(sleeping') = ToSet(sleeping) \ {current}
  BY <1>3, ListFacts DEF IOInv, IOTypes
<1>4. ASSUME NEW e \in Side, TransferGoesOn(e) PROVE IOInv'
  <2>1. Resumed("transfer") /\ e \in op[current].sides
    BY <1>4 DEF TransferGoesOn
  <2>2. /\ phase = "routine" /\ current \in Routine /\ current \in Active
        /\ op[current] \in Calls /\ op[current] # NIL /\ op[current].kind = "transfer"
        /\ op[current].sides = {e}
        /\ current \in ToSet(sleeping) => Timed(op[current])
        /\ current \in Waiters => current \notin ToSet(sleeping)
        /\ \A d \in Side : waiting[d] = current => d = e
    BY <2>1, ResumedFacts
  <2>3. CASE /\ waiting[e] = current /\ waiting' = Unsubscribed(current)
             /\ Returns /\ UNCHANGED <<sleeping, wake, ready>>
    <3>1. current \notin ToSet(sleeping)
      BY <2>2, <2>3, Names DEF Waiters
    <3> QED BY <1>1, <1>2, <1>3, <2>2, <2>3, <3>1, CallEnds
  <2>4. CASE /\ waiting[e] # current /\ TriedData(e, "done")
             /\ Awake(Positive(op[current].timeout)) /\ Returns /\ UNCHANGED waiting
    <3> DEFINE timed == Positive(op[current].timeout)
    <3>1. timed \in BOOLEAN /\ (~timed => current \notin ToSet(sleeping))
      BY <2>2 DEF Timed, Positive
    <3>2. ready' \subseteq Side
      BY <1>1, <2>4 DEF TriedData, Tried
    <3>3. \A d \in Side : waiting'[d] = IF waiting[d] = current THEN NIL ELSE waiting[d]
      BY <2>2, <2>4
    <3> HIDE DEF timed
    <3>4. /\ sleeping' \in Seq(Routine) /\ NoRepeats(sleeping') /\ wake' \in [Routine -> Int]
          /\ ToSet(sleeping') = ToSet(sleeping) \ {current}
      BY <2>2, <2>4, <3>1, AwakeFacts DEF timed
    <3> QED BY <1>1, <2>2, <2>4, <3>2, <3>3, <3>4, CallEnds
  <2>5. CASE /\ TriedData(e, "timeout") /\ Waits({e}, FIRST)
             /\ UNCHANGED <<sleeping, wake, locked, op>>
    <3> DEFINE call == op[current]
    <3>1. op' = [op EXCEPT ![current] = call] /\ locked' = locked \cup call.sides
      <4>1. call.sides \subseteq locked
        BY <2>2 DEF IOInv, LocksMatchCalls
      <4>2. op \in [Routine -> Calls \cup {NIL}]
        BY DEF IOInv, IOTypes
      <4> QED BY <2>2, <2>5, <4>1, <4>2
    <3>2. ready' \subseteq Side
      BY <1>1, <2>5 DEF TriedData, Tried
    <3>3. /\ call \in Calls /\ call.sides = {e} /\ Waits(call.sides, FIRST) /\ op[current] = call
          /\ current \in ToSet(sleeping') => Timed(call)
      BY <2>2, <2>5
    <3>4. /\ sleeping' \in Seq(Routine) /\ NoRepeats(sleeping') /\ wake' \in [Routine -> Int]
          /\ ToSet(sleeping) \subseteq ToSet(sleeping')
          /\ ToSet(sleeping') \subseteq ToSet(sleeping) \cup {current}
      BY <2>5, ListFacts DEF IOInv, IOTypes
    <3> HIDE DEF call
    <3> QED BY <3>1, <3>2, <3>3, <3>4, CallWaits
  <2> QED BY <1>4, <2>3, <2>4, <2>5 DEF TransferGoesOn
<1>5. ASSUME NEW e \in Side, AcceptGoesOn(e) PROVE IOInv'
  <2>1. Resumed("accept") /\ e \in op[current].sides /\ waiting' = Unsubscribed(current) /\ Returns
    BY <1>5 DEF AcceptGoesOn
  <2>2. /\ phase = "routine" /\ current \in Routine
        /\ op[current] \in Calls /\ op[current] # NIL /\ op[current].kind = "accept"
        /\ current \in ToSet(sleeping) => Timed(op[current])
        /\ current \in Waiters => current \notin ToSet(sleeping)
    BY <2>1, ResumedFacts
  <2>3. CASE waiting[e] = current /\ UNCHANGED <<sleeping, wake, ready>>
    <3>1. current \notin ToSet(sleeping)
      BY <2>2, <2>3, Names DEF Waiters
    <3> QED BY <1>1, <1>2, <1>3, <2>1, <2>2, <2>3, <3>1, CallEnds
  <2>4. CASE Awake(op[current].timeout # NIL) /\ ready' \subseteq Side
    <3> DEFINE timed == op[current].timeout # NIL
    <3>1. timed \in BOOLEAN /\ (~timed => current \notin ToSet(sleeping))
      BY <2>2 DEF Timed
    <3> HIDE DEF timed
    <3>2. /\ sleeping' \in Seq(Routine) /\ NoRepeats(sleeping') /\ wake' \in [Routine -> Int]
          /\ ToSet(sleeping') = ToSet(sleeping) \ {current}
      BY <2>2, <2>4, <3>1, AwakeFacts DEF timed
    <3> QED BY <1>2, <2>1, <2>2, <2>4, <3>2, CallEnds
  <2>5. (waiting[e] = current /\ UNCHANGED <<sleeping, wake, ready>>)
        \/ (Awake(op[current].timeout # NIL) /\ ready' \subseteq Side)
    BY <1>1, <1>5 DEF AcceptGoesOn, Tried
  <2> QED BY <2>3, <2>4, <2>5
<1>6. ASSUME SelectGoesOn PROVE IOInv'
  <2> DEFINE timed == Positive(op[current].timeout)
  <2>1. /\ Resumed("select") /\ Awake(timed) /\ waiting' = Unsubscribed(current)
        /\ Returns /\ ready' = ready
    BY <1>6 DEF SelectGoesOn
  <2>2. /\ phase = "routine" /\ current \in Routine
        /\ op[current] \in Calls /\ op[current] # NIL /\ op[current].kind = "select"
        /\ current \in ToSet(sleeping) => Timed(op[current])
    BY <2>1, ResumedFacts
  <2>3. timed \in BOOLEAN /\ (~timed => current \notin ToSet(sleeping))
    BY <2>2 DEF Timed, Positive
  <2> HIDE DEF timed
  <2>4. /\ sleeping' \in Seq(Routine) /\ NoRepeats(sleeping') /\ wake' \in [Routine -> Int]
        /\ ToSet(sleeping') = ToSet(sleeping) \ {current}
    BY <2>1, <2>2, <2>3, AwakeFacts
  <2> QED BY <1>1, <1>2, <2>1, <2>2, <2>4, CallEnds
<1> QED BY <1>4, <1>5, <1>6 DEF GoesOn

-----------------------------------------------------------------------------
(* Every step *)

(* No step breaks the invariant.                                           *)
LEMMA IOInvariance == IOInv /\ [IONext]_allvars => IOInv'
<1> SUFFICES ASSUME IOInv, [IONext]_allvars PROVE IOInv'
  OBVIOUS
<1>1. ASSUME UNCHANGED allvars PROVE IOInv'
  BY <1>1, StandsStill DEF allvars, iovars, IOInv, IOTypes
<1>2. ASSUME NEW e \in Side, Arrive(e) PROVE IOInv'
  BY <1>2, StandsStill DEF Arrive, IOInv, IOTypes
<1>3. ASSUME IOTurnEnds PROVE IOInv'
  BY <1>3, TurnEndsKeep, IOResumeKeeps DEF IOTurnEnds
<1>4. ASSUME IOControl PROVE IOInv'
  BY <1>4, QuietKeeps, SignalKeeps, IOWakeUpKeeps, GoesOnKeeps DEF IOControl
<1>5. ASSUME (Halt \/ Run(NIL) \/ Tick) /\ Quiet PROVE IOInv'
  BY <1>5, QuietKeeps
<1> QED BY <1>1, <1>2, <1>3, <1>4, <1>5, IORegisterKeeps, IODropKeeps, SocketCallsKeep DEF IONext

(* The invariant holds before anything is called.                          *)
LEMMA IOBeginning == IOInit => IOInv
<1> SUFFICES ASSUME IOInit PROVE IOInv
  OBVIOUS
<1>1. <<>> \in Seq(Routine) /\ ToSet(<<>>) = {} /\ NoRepeats(<<>>)
  BY DEF ToSet, NoRepeats
<1>2. IOTypes /\ ListsInv
  <2>1. op \in [Routine -> Calls \cup {NIL}] /\ waiting \in [Side -> Maybe(Routine)]
    BY DEF IOInit, Maybe
  <2>2. IOTypes
    BY <1>1, <2>1 DEF IOInit, Init, IOTypes, Maybe
  <2>3. ListsInv
    BY <1>1, WellFormedReady DEF IOInit, Init, ListsInv, Keys
  <2> QED BY <2>2, <2>3
<1>3. ExistInv /\ TurnPlaced /\ CallsInv
  BY <1>1 DEF IOInit, Init, ExistInv, TurnPlaced, CallsInv
<1>4. LocksMatchCalls
  BY DEF IOInit, LocksMatchCalls, Watched
<1>5. NobodyLost
  BY DEF IOInit, Init, NobodyLost
<1> QED BY <1>2, <1>3, <1>4, <1>5 DEF IOInv

(* Signal, timeout and resume() may release a routine in the same step, in *)
(* any order: it is listed once among the ready and once among the         *)
(* sleepers, and in both only in the middle of a call.                     *)
THEOREM RoutinesListedOnce == IOSpec => []ListedOnce
<1>1. IOInv => ListedOnce
  <2> SUFFICES ASSUME IOInv PROVE ListedOnce
    OBVIOUS
  <2>1. IOTypeOK
    BY DEF IOInv, IOTypes, IOTypeOK
  <2> QED BY <2>1, ListFacts DEF IOInv, CallsInv, ListedOnce
<1> QED BY <1>1, IOBeginning, IOInvariance, PTL DEF IOSpec

(* A socket is locked exactly while a call uses it, no two calls use the   *)
(* same, and nobody is subscribed to a socket after the call.              *)
THEOREM LocksAlwaysMatch == IOSpec => []LocksMatchCalls
<1>1. IOInv => LocksMatchCalls
  BY DEF IOInv
<1> QED BY <1>1, IOBeginning, IOInvariance, PTL DEF IOSpec

(* If no routine names itself in register(), remove() or resume(), a live  *)
(* routine that was not taken out is ready, asleep or waits for a socket.  *)
THEOREM RoutinesNeverLost ==
  ASSUME SelfCalls = {}
  PROVE  IOSpec => []NobodyLost
<1>1. IOInv => NobodyLost
  BY DEF IOInv
<1> QED BY <1>1, IOBeginning, IOInvariance, PTL DEF IOSpec

-----------------------------------------------------------------------------
(* The time of the calls *)

(* A step that goes by a call: it stays as late, or as early, as it was.   *)
Undisturbed(r) ==
  /\ op'[r] = op[r]
  /\ r \in ToSet(sleeping') => r \in ToSet(sleeping) /\ wake'[r] = wake[r]
  /\ r \in Active' \cap Waiters' => r \in Active
  /\ r \in Waiters' <=> r \in Waiters
  /\ op[r].sides \cap ready \subseteq ready'

(* The time of the calls is kept if each call is gone by, or is itself in  *)
(* time after the step.                                                    *)
LEMMA TimeKeeps ==
  ASSUME IOInv, TimeInv, Seconds \in Nat, Seconds' \in Nat, Seconds' >= Seconds,
         \A r \in Routine : op'[r] # NIL => Undisturbed(r) \/ OnTime(r)',
         Timeouts \subseteq Nat \cup {NIL}
  PROVE  TimeInv'
<1> SUFFICES ASSUME NEW r \in Routine, op'[r] # NIL, Undisturbed(r) PROVE OnTime(r)'
  BY DEF TimeInv
<1>1. op[r] # NIL /\ op'[r] = op[r] /\ OnTime(r)
  BY DEF Undisturbed, TimeInv
<1>2. op[r] \in Calls /\ op[r].timeout \in Timeouts /\ op[r].from \in Nat
  BY <1>1 DEF IOInv, IOTypes, Calls
<1>3. op'[r].kind # "select" /\ r \in Active' \cap Waiters' =>
        Timed(op'[r]) /\ Seconds' >= op'[r].from + op'[r].timeout
  <2> SUFFICES ASSUME op[r].kind # "select", r \in Active' \cap Waiters'
               PROVE  Timed(op[r]) /\ Seconds' >= op[r].from + op[r].timeout
    BY <1>1
  <2>1. Timed(op[r]) /\ Seconds >= op[r].from + op[r].timeout
    BY <1>1 DEF Undisturbed, OnTime
  <2>2. op[r].timeout \in Nat
    BY <1>2, <2>1 DEF Timed, Positive
  <2> QED BY <1>2, <2>1, <2>2
<1>4. r \in ToSet(sleeping') => wake'[r] = op'[r].from + op'[r].timeout
  BY <1>1 DEF Undisturbed, OnTime
<1>5. op'[r].kind = "accept" /\ r \notin Waiters' => op'[r].sides \subseteq ready'
  BY <1>1 DEF Undisturbed, OnTime
<1> QED BY <1>3, <1>4, <1>5 DEF OnTime, Timed

(* If no call is interrupted, the operations of the program and the steps  *)
(* of resumeall and run go by every call.                                  *)
LEMMA ProgramGoesBy ==
  ASSUME IOInv, Interrupts = {}, NEW c \in Routine, op'[c] # NIL
  PROVE  \A r \in Routine : IORegister(r) \/ IODrop(r) \/ IOResume(r) => Undisturbed(c)
<1>0. /\ running \in Seq(Routine) /\ NoRepeats(running)
      /\ wake \in [Routine -> Int]
  BY ListFacts DEF IOInv, IOTypes
<1>1. ASSUME NEW q \in QueueRecord, SetQueues(q), c \in ToSet(q.sleep) => c \in ToSet(sleeping)
      PROVE  running' = q.run /\ (c \in ToSet(sleeping') => c \in ToSet(sleeping) /\ wake'[c] = wake[c])
  BY <1>1 DEF SetQueues, Priorities
<1>2. ASSUME NEW r \in Routine, IORegister(r) PROVE Undisturbed(c)
  <2> DEFINE q == Registered(Queues, r, NIL)
  <2>1. /\ SetQueues(q) /\ r \notin Waiters
        /\ current' = current /\ phase' = phase /\ waiting' = waiting /\ op' = op /\ ready' = ready
    BY <1>2 DEF IORegister, Register, iovars
  <2>2. /\ q \in QueueRecord /\ q.sleep = sleeping /\ ToSet(q.run) \subseteq ToSet(running) \cup {r}
    BY QueuesFacts, RegisteredList
  <2> HIDE DEF q
  <2>3. Waiters' = Waiters
    BY <2>1 DEF Waiters
  <2>4. running' = q.run /\ (c \in ToSet(sleeping') => c \in ToSet(sleeping) /\ wake'[c] = wake[c])
    BY <1>1, <2>1, <2>2
  <2>5. c \in Active' \cap Waiters' => c \in Active
    BY <2>1, <2>2, <2>3, <2>4 DEF Active
  <2> QED BY <2>1, <2>3, <2>4, <2>5 DEF Undisturbed
<1>3. ASSUME NEW r \in Routine, waiting' = Unsubscribed(r), op[r] = NIL, op' = op
      PROVE  c # r /\ (c \in Waiters' <=> c \in Waiters)
  <2>1. Waiters' = Waiters \ {r}
    BY <1>3, UnsubscribedFacts DEF Waiters
  <2> QED BY <1>3, <2>1
<1>4. ASSUME NEW r \in Routine, IODrop(r) PROVE Undisturbed(c)
  <2> DEFINE q == Dropped(Queues, r)
  <2>1. /\ SetQueues(q) /\ op[r] = NIL
        /\ current' = current /\ phase' = phase /\ waiting' = Unsubscribed(r)
        /\ op' = op /\ ready' = ready
    BY <1>4 DEF IODrop, Drop, MayInterrupt
  <2>2. /\ q \in QueueRecord /\ ToSet(q.sleep) \subseteq ToSet(sleeping)
        /\ ToSet(q.run) \subseteq ToSet(running)
    BY QueuesFacts, DroppedList
  <2> HIDE DEF q
  <2>3. running' = q.run /\ (c \in ToSet(sleeping') => c \in ToSet(sleeping) /\ wake'[c] = wake[c])
    BY <1>1, <2>1, <2>2
  <2>4. Active' \subseteq Active
    BY <2>1, <2>2, <2>3 DEF Active
  <2> QED BY <1>3, <2>1, <2>3, <2>4 DEF Undisturbed
<1>5. ASSUME NEW r \in Routine, IOResume(r) PROVE Undisturbed(c)
  <2> DEFINE q == Advanced(Queues, r)
  <2>1. /\ SetQueues(q) /\ op[r] = NIL /\ phase' = "cycle"
        /\ waiting' = Unsubscribed(r) /\ op' = op /\ ready' = ready
    BY <1>5 DEF IOResume, Resume, EndTurn, MayInterrupt
  <2>2. /\ q \in QueueRecord /\ ToSet(q.sleep) \subseteq ToSet(sleeping)
        /\ ToSet(q.run) \subseteq ToSet(running) \cup {r}
    BY QueuesFacts, AdvancedList
  <2> HIDE DEF q
  <2>3. running' = q.run /\ (c \in ToSet(sleeping') => c \in ToSet(sleeping) /\ wake'[c] = wake[c])
    BY <1>1, <2>1, <2>2
  <2>4. Active' \subseteq Active \cup {r}
    BY <2>1, <2>2, <2>3 DEF Active
  <2> QED BY <1>3, <2>1, <2>3, <2>4 DEF Undisturbed
<1> QED BY <1>2, <1>4, <1>5

(* Likewise the ways to end a turn and the steps of resumeall and run,     *)
(* whether or not calls are interrupted.                                   *)
LEMMA TurnsGoBy ==
  ASSUME IOInv, NEW c \in Routine, op'[c] # NIL, Quiet
  PROVE  /\ InProgram /\ ((\E d \in Delays : Suspend(d)) \/ Park \/ Yield) => Undisturbed(c)
         /\ InProgram /\ (\E r \in Routine : Start(r)) => Undisturbed(c)
         /\ InProgram /\ (\E s \in {"done", "failed"} : End(s)) => Undisturbed(c)
         /\ NextRoutine \/ Bury \/ CallTrap \/ TrapReturns \/ Raise \/ RunEnds => Undisturbed(c)
         /\ Halt \/ Run(NIL) \/ Tick => Undisturbed(c)
<1>0. waiting' = waiting /\ op' = op /\ ready' = ready /\ Waiters' = Waiters /\ op[c] # NIL
  BY DEF Quiet, iovars, Waiters
<1>1. ASSUME c \in ToSet(sleeping') => c \in ToSet(sleeping) /\ wake'[c] = wake[c],
             c \in Active' => c \in Active
      PROVE  Undisturbed(c)
  BY <1>0, <1>1 DEF Undisturbed
<1>2. \A start : ToSet(Removed(running, current, start)) \subseteq ToSet(running) \/ current \notin Routine
  BY LeftList
<1>3. ASSUME InProgram, EndTurn
      PROVE  /\ current \in Routine /\ op[current] = NIL /\ current \notin ToSet(sleeping)
             /\ phase' = "cycle" /\ c # current
  BY <1>0, <1>3, CurrentFacts DEF InProgram
<1>4. ASSUME InProgram, NEW d \in Delays, Suspend(d) PROVE Undisturbed(c)
  <2>1. EndTurn /\ Asleep(d) /\ running' = Removed(running, current, currentkey) /\ d \in Int
    BY <1>4, SchedulerAssumption DEF Suspend
  <2>2. /\ ToSet(sleeping') = ToSet(sleeping) \cup {current}
        /\ wake' = [wake EXCEPT ![current] = Seconds + d]
    BY <1>3, <1>4, <2>1, AsleepFacts
  <2>3. wake'[c] = wake[c]
    BY <1>3, <1>4, <2>1, <2>2 DEF IOInv, IOTypes
  <2>4. c \in Active' => c \in Active
    BY <1>2, <1>3, <1>4, <2>1 DEF Active
  <2> QED BY <1>1, <1>3, <1>4, <2>1, <2>2, <2>3, <2>4
<1>5. ASSUME InProgram, Park PROVE Undisturbed(c)
  <2>1. /\ EndTurn /\ running' = Removed(running, current, currentkey)
        /\ sleeping' = sleeping /\ wake' = wake
    BY <1>5 DEF Park
  <2>2. c \in Active' => c \in Active
    BY <1>2, <1>3, <1>5, <2>1 DEF Active
  <2> QED BY <1>1, <2>1, <2>2
<1>6. ASSUME InProgram, Yield \/ \E s \in {"done", "failed"} : End(s) PROVE Undisturbed(c)
  <2>1. EndTurn /\ running' = running /\ sleeping' = sleeping /\ wake' = wake
    BY <1>6 DEF Yield, End, lists
  <2>2. c \in Active' => c \in Active
    BY <1>3, <1>6, <2>1 DEF Active
  <2> QED BY <1>1, <2>1, <2>2
<1>7. ASSUME InProgram, NEW r \in Routine, Start(r) PROVE Undisturbed(c)
  <2>1. /\ EndTurn /\ running' = Inserted(running, r, current) /\ sleeping' = sleeping
        /\ wake' = wake /\ status[r] = "new"
    BY <1>7 DEF Start
  <2>2. r # c
    BY <1>0, <2>1 DEF IOInv, ExistInv
  <2>3. ToSet(running') \subseteq ToSet(running) \cup {r}
    <3>1. running \in Seq(Routine) /\ NoRepeats(running)
      BY ListFacts
    <3>2. ToSet(Inserted(running, r, current)) =
            IF CanInsert(running, r, current) THEN ToSet(running) \cup {r} ELSE ToSet(running)
      BY ONLY <3>1, r \in Routine, Names, InsertedFacts
    <3> QED BY <2>1, <3>2
  <2>4. c \in Active' => c \in Active
    BY <1>3, <1>7, <2>1, <2>2, <2>3 DEF Active
  <2> QED BY <1>1, <2>1, <2>4
<1>8. ASSUME /\ sleeping' = sleeping /\ wake' = wake /\ ToSet(running') \subseteq ToSet(running)
             /\ phase' = "routine" => current' \in ToSet(running') \/ (current' = current /\ phase = "routine")
      PROVE  Undisturbed(c)
  <2>1. c \in Active' => c \in Active
    BY <1>8 DEF Active
  <2> QED BY <1>1, <1>8, <2>1
<1>9. ASSUME InCycle, running' = Buried, Ended PROVE ToSet(running') \subseteq ToSet(running)
  BY <1>2, <1>9 DEF Buried, Ended, IOInv, IOTypes, Maybe
<1>10. ASSUME NextRoutine PROVE Undisturbed(c)
  <2> DEFINE key == IF current \in ToSet(running) THEN current ELSE currentkey
  <2>1. sleeping' = sleeping /\ wake' = wake /\ running' = running /\ ResumeAfter(running, key)
    BY <1>10 DEF NextRoutine, InCycle
  <2>2. WellFormed(Ready(running, key))
    BY ListFacts, WellFormedReady DEF Keys
  <2> HIDE DEF key
  <2>3. phase' = "routine" => current' \in ToSet(running')
    BY <2>1, <2>2, TurnPasses
  <2> QED BY <1>8, <2>1, <2>3
<1>11. ASSUME Bury PROVE Undisturbed(c)
  <2>1. /\ sleeping' = sleeping /\ wake' = wake /\ running' = Buried /\ InCycle /\ Ended
        /\ ResumeAfter(Buried, currentkey)
    BY <1>11 DEF Bury, InCycle
  <2>2. WellFormed(Ready(Buried, currentkey))
    BY <2>1, LeftList DEF Buried, Ended, IOInv, IOTypes, Maybe
  <2>3. phase' = "routine" => current' \in ToSet(running')
    BY <2>1, <2>2, TurnPasses
  <2> QED BY <1>8, <1>9, <2>1, <2>3
<1>12. ASSUME CallTrap \/ Raise PROVE Undisturbed(c)
  <2>1. /\ sleeping' = sleeping /\ wake' = wake /\ running' = Buried /\ InCycle /\ Ended
        /\ phase' # "routine"
    BY <1>12 DEF CallTrap, Raise, InCycle
  <2> QED BY <1>8, <1>9, <2>1
<1>13. ASSUME TrapReturns \/ RunEnds \/ Run(NIL) \/ Halt \/ Tick PROVE Undisturbed(c)
  <2>1. /\ sleeping' = sleeping /\ wake' = wake /\ running' = running
        /\ phase' # "routine" \/ (phase' = phase /\ current' = current)
    BY <1>13 DEF TrapReturns, RunEnds, Run, Halt, Tick, lists
  <2> QED BY <1>8, <2>1
<1> QED BY <1>4, <1>5, <1>6, <1>7, <1>10, <1>11, <1>12, <1>13

(* A signal: accept finds its socket ready, and a call that was woken by   *)
(* its timeout may also be released.                                       *)
LEMMA SignalOnTime ==
  ASSUME IOInv, TimeInv, Signal \/ IORunAgain, NEW c \in Routine, op'[c] # NIL
  PROVE  Undisturbed(c) \/ OnTime(c)'
<1>1. /\ UNCHANGED <<sleeping, wake, clock, op, ready>>
      /\ phase # "routine" /\ phase' # "routine"
      /\ Signalled \/ UNCHANGED <<running, waiting>>
  BY DEF Signal, IORunAgain
<1>2. CASE UNCHANGED <<running, waiting>>
  BY <1>1, <1>2 DEF Undisturbed, Active, Waiters
<1>3. CASE Signalled
  <2>1. /\ \A r \in ToSet(running') \ ToSet(running) :
             op[r].kind # "select" => \A e \in Side : waiting'[e] # r
        /\ \A e \in Side : waiting'[e] = IF e \in ready THEN NIL ELSE waiting[e]
    BY <1>3, SignalledFacts
  <2>2. op[c] # NIL /\ OnTime(c) /\ Seconds' = Seconds
    BY <1>1 DEF TimeInv, Seconds
  <2>3. op[c].kind # "select" /\ c \in Active' \cap Waiters' => c \in Active \cap Waiters
    <3> SUFFICES ASSUME op[c].kind # "select", c \in ToSet(running'), c \in Waiters'
                 PROVE  c \in Active \cap Waiters
      BY <1>1 DEF Active
    <3>1. PICK e \in Side : waiting'[e] = c /\ c # NIL
      BY DEF Waiters
    <3>2. waiting[e] = c /\ c \in ToSet(running)
      BY <2>1, <3>1
    <3> QED BY <3>1, <3>2 DEF Active, Waiters
  <2>4. op[c].kind = "accept" /\ c \notin Waiters' => op[c].sides \subseteq ready
    <3> SUFFICES ASSUME op[c].kind = "accept", c \notin Waiters', c \in Waiters
                 PROVE  op[c].sides \subseteq ready
      BY <2>2 DEF OnTime
    <3>1. PICK e \in Side : waiting[e] = c /\ c # NIL
      BY DEF Waiters
    <3>2. e \in ready
      BY <2>1, <3>1 DEF Waiters
    <3>3. e \in op[c].sides
      BY <3>1 DEF IOInv, LocksMatchCalls, Watched
    <3>4. \E x \in Side : op[c].sides = {x}
      BY <2>2 DEF IOInv, CallsInv
    <3> QED BY <3>2, <3>3, <3>4
  <2>5. OnTime(c)'
    <3>1. c \in ToSet(sleeping') => wake'[c] = op'[c].from + op'[c].timeout
      BY <1>1, <2>2 DEF OnTime
    <3>2. op'[c].kind # "select" /\ c \in Active' \cap Waiters' =>
            Timed(op'[c]) /\ Seconds' >= op'[c].from + op'[c].timeout
      BY <1>1, <2>2, <2>3 DEF OnTime
    <3>3. op'[c].kind = "accept" /\ c \notin Waiters' => op'[c].sides \subseteq ready'
      BY <1>1, <2>4
    <3> QED BY <3>1, <3>2, <3>3 DEF OnTime, Timed
  <2> QED BY <2>5
<1> QED BY <1>1, <1>2, <1>3

(* wakeupall() only wakes those whose time is over.                        *)
LEMMA WakeOnTime ==
  ASSUME IOInv, TimeInv, IOWakeUpAll, NEW c \in Routine, op'[c] # NIL
  PROVE  OnTime(c)'
<1>1. PICK n \in 0..Len(sleeping) :
        /\ Due(n)
        /\ running' = Enqueued(running, SubSeq(sleeping, 1, n))
        /\ sleeping' = SubSeq(sleeping, n + 1, Len(sleeping))
        /\ wake' = Priorities(sleeping', wake)
  BY DEF IOWakeUpAll
<1> DEFINE awake == SubSeq(sleeping, 1, n)
<1>2. /\ UNCHANGED <<clock, waiting, op, ready>> /\ phase # "routine" /\ phase' # "routine"
      /\ Waiters' = Waiters /\ Seconds' = Seconds
  BY DEF IOWakeUpAll, iovars, Waiters, Seconds
<1>3. /\ running \in Seq(Routine) /\ NoRepeats(running)
      /\ sleeping \in Seq(Routine) /\ NoRepeats(sleeping)
  BY ListFacts
<1>4. /\ awake \in Seq(Routine) /\ ToSet(awake) \subseteq ToSet(sleeping)
      /\ ToSet(sleeping') \subseteq ToSet(sleeping)
  BY ONLY <1>1, <1>3, n \in 0..Len(sleeping), Names, SplitFacts
<1>5. ToSet(running') = ToSet(running) \cup ToSet(awake)
  <2> HIDE DEF awake
  <2> QED BY <1>1, <1>3, <1>4, EnqueuedFacts DEF awake
<1>6. ASSUME c \in ToSet(awake) PROVE wake[c] <= Seconds
  <2>1. Len(awake) = n /\ \A i \in 1..n : awake[i] = sleeping[i]
    BY <1>3
  <2>2. DOMAIN awake = 1..n
    BY <1>4, <2>1, LenProperties
  <2> HIDE DEF awake
  <2>3. PICK i \in 1..n : awake[i] = c
    BY <1>6, <2>2 DEF ToSet
  <2> QED BY <1>1, <2>1, <2>3 DEF Due, DueBy
<1>7. op[c] # NIL /\ OnTime(c)
  BY <1>2 DEF TimeInv
<1> HIDE DEF awake
<1>8. ASSUME c \in ToSet(awake) PROVE Timed(op[c]) /\ Seconds >= op[c].from + op[c].timeout
  <2>1. c \in ToSet(sleeping) /\ wake[c] = op[c].from + op[c].timeout
    BY <1>4, <1>7, <1>8 DEF OnTime
  <2>2. Timed(op[c])
    BY <1>7, <2>1 DEF IOInv, CallsInv
  <2>3. wake[c] \in Int /\ Seconds \in Nat
    BY SecondsPass DEF IOInv, IOTypes, Seconds
  <2> QED BY <1>6, <1>8, <2>1, <2>2, <2>3
<1>9. c \in ToSet(sleeping') => wake'[c] = op'[c].from + op'[c].timeout
  BY <1>1, <1>2, <1>4, <1>7 DEF OnTime, Priorities
<1>10. op'[c].kind # "select" /\ c \in Active' \cap Waiters' =>
         Timed(op'[c]) /\ Seconds' >= op'[c].from + op'[c].timeout
  BY <1>2, <1>5, <1>7, <1>8 DEF Active, OnTime
<1>11. op'[c].kind = "accept" /\ c \notin Waiters' => op'[c].sides \subseteq ready'
  BY <1>2, <1>7 DEF OnTime
<1> QED BY <1>9, <1>10, <1>11 DEF OnTime, Timed

(* A step of the call of the current routine goes by the other calls.      *)
LEMMA OthersGoBy ==
  ASSUME IOInv, current \in Routine, NEW call \in Calls,
         op[current] = call \/ (op[current] = NIL /\ call.sides \cap locked = {}),
         NEW c \in Routine, c # current, op'[c] = op[c], op[c] # NIL,
         \A e \in Side : waiting'[e] = waiting[e] \/
                         (waiting[e] \in {NIL, current} /\ waiting'[e] \in {NIL, current}),
         c \in ToSet(sleeping') => c \in ToSet(sleeping) /\ wake'[c] = wake[c],
         ToSet(running') \subseteq ToSet(running), current' = current,
         ready \ call.sides \subseteq ready'
  PROVE  Undisturbed(c)
<1>1. op[c].sides \cap call.sides = {}
  BY SidesFree
<1>2. c \in Waiters' <=> c \in Waiters
  <2>1. c # NIL
    BY Names
  <2>2. (\E e \in Side : waiting'[e] = c) <=> (\E e \in Side : waiting[e] = c)
    BY <2>1
  <2> QED BY <2>1, <2>2 DEF Waiters
<1>3. c \in Active' => c \in Active
  BY DEF Active
<1> QED BY <1>1, <1>2, <1>3 DEF Undisturbed

(* A call begins and waits until its time is over.                         *)
LEMMA BlocksOnTime ==
  ASSUME IOInv, NEW call \in Calls, NEW key \in {FIRST, currentkey}, NEW timed \in BOOLEAN,
         op[current] = NIL, call.sides \cap locked = {}, call.sides # {}, call.from = Seconds,
         Blocks(call, key, timed), timed => Timed(call), ready \ call.sides \subseteq ready',
         NEW c \in Routine, op'[c] # NIL
  PROVE  Undisturbed(c) \/ OnTime(c)'
<1>1. /\ Waits(call.sides, key) /\ EndTurn
      /\ IF timed THEN Asleep(call.timeout) ELSE UNCHANGED <<sleeping, wake>>
      /\ op' = [op EXCEPT ![current] = call]
      /\ running' = Removed(running, current, key)
      /\ waiting' = [e \in Side |-> IF e \in call.sides THEN current ELSE waiting[e]]
  BY DEF Blocks, Waits
<1>2. /\ current \in Routine /\ current \notin ToSet(sleeping) /\ current' = current
      /\ phase = "routine" /\ phase' = "cycle"
  BY <1>1, CurrentFacts
<1>3. /\ op \in [Routine -> Calls \cup {NIL}] /\ wake \in [Routine -> Int]
      /\ call.sides \subseteq Side
  BY DEF IOInv, IOTypes, Calls
<1>4. ToSet(running') \subseteq ToSet(running) /\ current \notin ToSet(running')
  BY <1>1, <1>2, LeftList
<1>5. ASSUME timed
      PROVE  /\ ToSet(sleeping') = ToSet(sleeping) \cup {current}
             /\ wake' = [wake EXCEPT ![current] = Seconds + call.timeout]
  <2>1. call.timeout \in Int
    BY <1>5, IOAssumption DEF Timed, Positive, Calls
  <2>2. Asleep(call.timeout)
    BY <1>1, <1>5
  <2> QED BY <1>2, <2>1, <2>2, AsleepFacts
<1>6. CASE c = current
  <2>1. op'[c] = call /\ c \notin Active' /\ c \in Waiters'
    <3>1. op'[c] = call /\ c \notin Active'
      BY <1>1, <1>2, <1>3, <1>4, <1>6 DEF Active
    <3>2. \E e \in Side : waiting'[e] = c
      BY <1>1, <1>3, <1>6
    <3>3. c # NIL
      BY Names
    <3> QED BY <3>1, <3>2, <3>3 DEF Waiters
  <2>2. c \in ToSet(sleeping') => wake'[c] = call.from + call.timeout
    <3>1. timed => wake'[c] = Seconds + call.timeout
      BY <1>3, <1>5, <1>6
    <3>2. ~timed => c \notin ToSet(sleeping')
      BY <1>1, <1>2, <1>6
    <3> QED BY <3>1, <3>2
  <2> QED BY <2>1, <2>2 DEF OnTime
<1>7. CASE c # current
  <2>1. op'[c] = op[c]
    BY <1>1, <1>3, <1>7
  <2>2. \A e \in call.sides : waiting[e] \in {NIL, current}
    BY <1>2, SidesFree
  <2>3. \A e \in Side : waiting'[e] = waiting[e] \/
                        (waiting[e] \in {NIL, current} /\ waiting'[e] \in {NIL, current})
    BY <1>1, <2>2
  <2>4. c \in ToSet(sleeping') => c \in ToSet(sleeping) /\ wake'[c] = wake[c]
    BY <1>1, <1>3, <1>5, <1>7
  <2> QED BY <1>2, <1>4, <1>7, <2>1, <2>3, <2>4, OthersGoBy
<1> QED BY <1>6, <1>7

(* A call that answers at once does so without a timeout to wait for, and  *)
(* takes nothing that another call has found.                              *)
LEMMA SocketCallsOnTime ==
  ASSUME IOInv, SocketCalls, NEW c \in Routine, op'[c] # NIL
  PROVE  Undisturbed(c) \/ OnTime(c)'
<1>1. Seconds \in Nat
  BY SecondsPass DEF IOInv, IOTypes, Seconds
<1>2. ASSUME NEW kind \in Operations, NEW sides \in SUBSET Side, NEW t \in Timeouts
      PROVE  /\ Call(kind, sides, t) \in Calls /\ Call(kind, sides, t).kind = kind
             /\ Call(kind, sides, t).sides = sides /\ Call(kind, sides, t).timeout = t
             /\ Call(kind, sides, t).from = Seconds
  BY <1>1 DEF Call, Calls
<1>3. ASSUME AtOnce, phase = "routine", op[current] = NIL, NEW call \in Calls,
             call.sides \cap locked = {}, ready \ call.sides \subseteq ready'
      PROVE  Undisturbed(c)
  <2>1. /\ UNCHANGED <<running, sleeping, wake, current, waiting, op>>
    BY <1>3 DEF AtOnce, vars, lists
  <2>2. current \in Routine
    BY <1>3 DEF IOInv, TurnPlaced, Placed
  <2>3. c # current
    BY <1>3, <2>1
  <2> QED BY <1>3, <2>1, <2>2, <2>3, OthersGoBy
<1>4. ASSUME NEW e \in Side, NEW t \in Timeouts, Transfer(e, t) PROVE Undisturbed(c) \/ OnTime(c)'
  <2> DEFINE call == Call("transfer", {e}, t)
  <2>1. /\ phase = "routine" /\ op[current] = NIL /\ "transfer" \in Operations
        /\ {e} \cap locked = {} /\ ready \ {e} \subseteq ready'
        /\ AtOnce \/ Blocks(call, FIRST, Positive(t))
    BY <1>4 DEF Transfer, MayCall, Call, TriedData, Tried
  <2>2. /\ call \in Calls /\ call.kind = "transfer" /\ call.sides = {e} /\ call.timeout = t
        /\ call.from = Seconds
    BY <1>2, <2>1
  <2> HIDE DEF call
  <2>3. Positive(t) \in BOOLEAN /\ (Positive(t) => Timed(call))
    BY <2>2 DEF Positive, Timed
  <2> QED BY <1>3, <2>1, <2>2, <2>3, BlocksOnTime
<1>5. ASSUME NEW e \in Side, NEW t \in Timeouts, Accept(e, t) PROVE Undisturbed(c) \/ OnTime(c)'
  <2> DEFINE call == Call("accept", {e}, t)
  <2>1. /\ phase = "routine" /\ op[current] = NIL /\ "accept" \in Operations
        /\ {e} \cap locked = {} /\ ready \ {e} \subseteq ready'
        /\ AtOnce \/ Blocks(call, currentkey, t # NIL)
    BY <1>5 DEF Accept, MayCall, Call, Tried
  <2>2. /\ call \in Calls /\ call.kind = "accept" /\ call.sides = {e} /\ call.timeout = t
        /\ call.from = Seconds
    BY <1>2, <2>1
  <2> HIDE DEF call
  <2>3. (t # NIL) \in BOOLEAN /\ (t # NIL => Timed(call))
    BY <2>2 DEF Timed
  <2> QED BY <1>3, <2>1, <2>2, <2>3, BlocksOnTime
<1>6. ASSUME NEW sides \in (SUBSET Side) \ {{}}, NEW t \in Timeouts, Select(sides, t)
      PROVE  Undisturbed(c) \/ OnTime(c)'
  <2> DEFINE call == Call("select", sides, t)
  <2>1. /\ phase = "routine" /\ op[current] = NIL /\ "select" \in Operations
        /\ sides \cap locked = {} /\ ready \ sides \subseteq ready'
        /\ AtOnce \/ Blocks(call, FIRST, Positive(t))
    BY <1>6 DEF Select, MayCall, Call
  <2>2. /\ call \in Calls /\ call.kind = "select" /\ call.sides = sides /\ call.timeout = t
        /\ call.from = Seconds
    BY <1>2, <2>1
  <2> HIDE DEF call
  <2>3. Positive(t) \in BOOLEAN /\ (Positive(t) => Timed(call))
    BY <2>2 DEF Positive, Timed
  <2> QED BY <1>3, <2>1, <2>2, <2>3, BlocksOnTime
<1> QED BY <1>4, <1>5, <1>6 DEF SocketCalls

(* A call that goes on takes nothing that another call has found.          *)
LEMMA GoesOnOnTime ==
  ASSUME IOInv, TimeInv, GoesOn, NEW c \in Routine, op'[c] # NIL
  PROVE  Undisturbed(c) \/ OnTime(c)'
<1>1. PICK kind \in {"transfer", "accept", "select"} : Resumed(kind)
  BY DEF GoesOn, TransferGoesOn, AcceptGoesOn, SelectGoesOn
<1> DEFINE call == op[current]
<1>2. /\ phase = "routine" /\ current \in Routine /\ call \in Calls /\ call # NIL
      /\ \A e \in Side : waiting[e] = current => e \in call.sides
  BY <1>1, ResumedFacts
<1>3. /\ op \in [Routine -> Calls \cup {NIL}] /\ waiting \in [Side -> Maybe(Routine)]
      /\ running \in Seq(Routine) /\ sleeping \in Seq(Routine) /\ NoRepeats(sleeping)
  BY ListFacts DEF IOInv, IOTypes
<1>4. ready \ call.sides \subseteq ready'
  BY <1>1, ResumedFacts
     DEF GoesOn, TransferGoesOn, AcceptGoesOn, SelectGoesOn, TriedData, Tried
<1>5. ASSUME NEW timed, Awake(timed), c \in ToSet(sleeping')
      PROVE  c \in ToSet(sleeping) /\ wake'[c] = wake[c]
  <2>1. wake'[c] = wake[c]
    BY <1>5 DEF Awake, Priorities
  <2>2. ToSet(Removed(sleeping, current, FIRST)) =
          IF Found(sleeping, current, FIRST) THEN ToSet(sleeping) \ {current} ELSE ToSet(sleeping)
    BY ONLY <1>2, <1>3, Names, RemovedFacts
  <2>3. sleeping' = sleeping \/ sleeping' = Removed(sleeping, current, FIRST)
    BY <1>5 DEF Awake
  <2> QED BY <1>5, <2>1, <2>2, <2>3
<1>6. c \in ToSet(sleeping') => c \in ToSet(sleeping) /\ wake'[c] = wake[c]
  BY <1>5 DEF GoesOn, TransferGoesOn, AcceptGoesOn, SelectGoesOn
<1>7. \A e \in Side : Unsubscribed(current)[e] = IF waiting[e] = current THEN NIL ELSE waiting[e]
  BY DEF Unsubscribed
<1>8. CASE Returns /\ (waiting' = waiting \/ waiting' = Unsubscribed(current))
  <2>1. running' = running /\ current' = current /\ op' = [op EXCEPT ![current] = NIL]
    BY <1>8 DEF Returns
  <2>2. c # current /\ op'[c] = op[c] /\ op[c] # NIL
    BY <1>2, <1>3, <2>1
  <2>3. \A e \in Side : waiting'[e] = waiting[e] \/
                        (waiting[e] \in {NIL, current} /\ waiting'[e] \in {NIL, current})
    BY <1>7, <1>8
  <2> HIDE DEF call
  <2> QED BY <1>2, <1>4, <1>6, <2>1, <2>2, <2>3, OthersGoBy DEF call
<1>9. ASSUME NEW e \in Side, TransferGoesOn(e), Waits({e}, FIRST), UNCHANGED <<sleeping, wake, op>>
      PROVE  Undisturbed(c) \/ OnTime(c)'
  <2>1. Resumed("transfer") /\ e \in call.sides
    BY <1>9 DEF TransferGoesOn
  <2>2. call.kind = "transfer" /\ call.sides = {e}
    BY <2>1, ResumedFacts
  <2>3. /\ running' = Removed(running, current, FIRST) /\ phase' = "cycle" /\ current' = current
        /\ waiting' = [d \in Side |-> IF d \in {e} THEN current ELSE waiting[d]]
    BY <1>9 DEF Waits, EndTurn
  <2>4. ToSet(running') \subseteq ToSet(running) /\ current \notin ToSet(running')
    BY <1>2, <2>3, LeftList
  <2>5. CASE c = current
    <3>1. c \notin Active'
      BY <2>3, <2>4, <2>5 DEF Active
    <3>2. OnTime(c) /\ op'[c] = op[c] /\ op[c].kind = "transfer"
      BY <1>2, <1>9, <2>2, <2>5 DEF TimeInv
    <3> QED BY <1>9, <3>1, <3>2 DEF OnTime
  <2>6. CASE c # current
    <3>1. \A d \in call.sides : waiting[d] \in {NIL, current}
      BY <1>2, SidesFree
    <3>2. \A d \in Side : waiting'[d] = waiting[d] \/
                          (waiting[d] \in {NIL, current} /\ waiting'[d] \in {NIL, current})
      BY <2>2, <2>3, <3>1
    <3>3. op'[c] = op[c] /\ op[c] # NIL
      BY <1>9
    <3> HIDE DEF call
    <3> QED BY <1>2, <1>4, <1>6, <2>3, <2>4, <2>6, <3>2, <3>3, OthersGoBy DEF call
  <2> QED BY <2>5, <2>6
<1> QED BY <1>8, <1>9 DEF GoesOn, TransferGoesOn, AcceptGoesOn, SelectGoesOn

(* What a call answers at once, or when it has waited.                     *)
LEMMA AnswersAreTrue ==
  ASSUME IOInv, TimeInv, SocketCalls \/ GoesOn, Timeouts \subseteq Nat \cup {NIL}
  PROVE  TimeoutIsTrue'
<1>1. Seconds \in Nat
  BY SecondsPass DEF IOInv, IOTypes, Seconds
<1>0. NIL # 0
  BY IOAssumption
<1>2. ASSUME clock' = clock PROVE Seconds' = Seconds
  BY <1>2 DEF Seconds
<1>3. ASSUME Unanswered PROVE TimeoutIsTrue'
  BY <1>3 DEF Unanswered, TimeoutIsTrue
<1>4. ASSUME NEW call, NEW message, NEW found, Answered(call, message, found),
             clock' = clock,
             call.kind # "select" /\ message = "timeout" =>
               call.timeout # NIL /\ call.timeout >= 0 /\ Seconds >= call.from + call.timeout
      PROVE  TimeoutIsTrue'
  <2>1. /\ answer'.kind = call.kind /\ answer'.timeout = call.timeout
        /\ answer'.from = call.from /\ answer'.message = message
    BY <1>4 DEF Answered
  <2> QED BY <1>2, <1>4, <2>1 DEF TimeoutIsTrue
<1>5. ASSUME NEW e \in Side, NEW t \in Timeouts, Transfer(e, t) PROVE TimeoutIsTrue'
  <2> DEFINE call == Call("transfer", {e}, t)
  <2>1. PICK result \in {"done", "timeout"} :
          \/ /\ result = "done" \/ t = 0
             /\ AtOnce /\ Answered(call, result, result = "done")
          \/ Blocks(call, FIRST, Positive(t))
    BY <1>5 DEF Transfer
  <2>2. call.timeout = t /\ call.from = Seconds
    BY DEF Call
  <2> HIDE DEF call
  <2>3. CASE (result = "done" \/ t = 0) /\ AtOnce /\ Answered(call, result, result = "done")
    <3>1. clock' = clock
      BY <2>3 DEF AtOnce, vars
    <3>2. result = "timeout" => call.timeout # NIL /\ call.timeout >= 0 /\ Seconds >= call.from + call.timeout
      BY <1>0, <1>1, <2>2, <2>3
    <3> QED BY <1>4, <2>3, <3>1, <3>2
  <2> QED BY <1>3, <2>1, <2>3 DEF Blocks
<1>6. ASSUME NEW e \in Side, NEW t \in Timeouts, Accept(e, t) PROVE TimeoutIsTrue'
  <2> DEFINE call == Call("accept", {e}, t)
  <2>1. PICK result \in {"done", "timeout"} :
          \/ /\ result = "done" \/ t = 0
             /\ AtOnce /\ Answered(call, result, result = "done")
          \/ Blocks(call, currentkey, t # NIL)
    BY <1>6 DEF Accept
  <2>2. call.timeout = t /\ call.from = Seconds
    BY DEF Call
  <2> HIDE DEF call
  <2>3. CASE (result = "done" \/ t = 0) /\ AtOnce /\ Answered(call, result, result = "done")
    <3>1. clock' = clock
      BY <2>3 DEF AtOnce, vars
    <3>2. result = "timeout" => call.timeout # NIL /\ call.timeout >= 0 /\ Seconds >= call.from + call.timeout
      BY <1>0, <1>1, <2>2, <2>3
    <3> QED BY <1>4, <2>3, <3>1, <3>2
  <2> QED BY <1>3, <2>1, <2>3 DEF Blocks
<1>7. ASSUME NEW sides, NEW t \in Timeouts, Select(sides, t) PROVE TimeoutIsTrue'
  <2> DEFINE call == Call("select", sides, t)
             found == sides \cap ready # {}
  <2>1. \/ AtOnce /\ Answered(call, IF found THEN "done" ELSE "timeout", found)
        \/ Blocks(call, FIRST, Positive(t))
    BY <1>7 DEF Select
  <2>2. call.kind = "select"
    BY DEF Call
  <2> HIDE DEF call, found
  <2>3. AtOnce => clock' = clock
    BY DEF AtOnce, vars
  <2> QED BY <1>3, <1>4, <2>1, <2>2, <2>3 DEF Blocks
<1> DEFINE call == op[current]
<1>8. ASSUME NEW kind \in {"transfer", "accept"}, Resumed(kind), NEW e \in call.sides,
             waiting[e] = current
      PROVE  call.timeout # NIL /\ call.timeout >= 0 /\ Seconds >= call.from + call.timeout
  <2>1. /\ current \in Routine /\ current \in Active /\ call # NIL /\ call.kind = kind
        /\ call \in Calls /\ call.timeout \in Timeouts /\ e \in Side
    BY <1>8, ResumedFacts DEF Calls
  <2>2. current \in Waiters
    BY <1>8, <2>1, Names DEF Waiters
  <2>3. Timed(call) /\ Seconds >= call.from + call.timeout
    BY <2>1, <2>2 DEF TimeInv, OnTime
  <2>4. call.timeout # NIL
    BY <2>3 DEF Timed, Positive
  <2>5. call.timeout \in Nat
    BY <2>1, <2>4
  <2> QED BY <2>3, <2>4, <2>5
<1>9. ASSUME NEW e \in Side, TransferGoesOn(e) PROVE TimeoutIsTrue'
  <2>1. /\ Resumed("transfer") /\ e \in call.sides
        /\ \/ waiting[e] = current /\ Answered(call, "timeout", FALSE) /\ Returns
           \/ Answered(call, "done", TRUE) /\ Returns
           \/ Unanswered
    BY <1>9 DEF TransferGoesOn
  <2>2. Returns => clock' = clock
    BY DEF Returns
  <2>3. waiting[e] = current =>
          call.timeout # NIL /\ call.timeout >= 0 /\ Seconds >= call.from + call.timeout
    BY <1>8, <2>1
  <2> HIDE DEF call
  <2> QED BY <1>3, <1>4, <2>1, <2>2, <2>3
<1>10. ASSUME NEW e \in Side, AcceptGoesOn(e) PROVE TimeoutIsTrue'
  <2>1. /\ Resumed("accept") /\ e \in call.sides /\ Returns
        /\ \/ waiting[e] = current /\ Answered(call, "timeout", FALSE)
           \/ /\ waiting[e] # current
              /\ \E result \in {"done", "timeout"} :
                   Tried(e, result) /\ Answered(call, result, result = "done")
    BY <1>10 DEF AcceptGoesOn
  <2>2. clock' = clock
    BY <2>1 DEF Returns
  <2>3. waiting[e] = current =>
          call.timeout # NIL /\ call.timeout >= 0 /\ Seconds >= call.from + call.timeout
    BY <1>8, <2>1
  <2>4. waiting[e] # current => e \in ready
    <3> SUFFICES ASSUME waiting[e] # current PROVE e \in ready
      OBVIOUS
    <3>1. /\ current \in Routine /\ call # NIL /\ call.kind = "accept" /\ call.sides = {e}
          /\ \A d \in Side : waiting[d] = current => d \in call.sides
      BY <2>1, ResumedFacts
    <3>2. current \notin Waiters
      BY <3>1 DEF Waiters
    <3> QED BY <3>1, <3>2 DEF TimeInv, OnTime
  <2> HIDE DEF call
  <2>5. ASSUME NEW result, Tried(e, result), waiting[e] # current PROVE result # "timeout"
    BY <2>4, <2>5 DEF Tried
  <2> QED BY <1>4, <2>1, <2>2, <2>3, <2>5
<1>11. ASSUME SelectGoesOn PROVE TimeoutIsTrue'
  <2>1. /\ Resumed("select") /\ Returns /\ \E m, f : Answered(call, m, f)
    BY <1>11 DEF SelectGoesOn
  <2>2. clock' = clock /\ call.kind = "select"
    BY <2>1 DEF Returns, Resumed
  <2> HIDE DEF call
  <2> QED BY <1>4, <2>1, <2>2
<1> QED BY <1>5, <1>6, <1>7, <1>9, <1>10, <1>11 DEF SocketCalls, GoesOn

(* The time of the calls, whatever a step does.                            *)
LEMMA TimeInvariance ==
  ASSUME Interrupts = {}, Timeouts \subseteq Nat \cup {NIL}
  PROVE  IOInv /\ TimeInv /\ TimeoutIsTrue /\ [IONext]_allvars => TimeInv' /\ TimeoutIsTrue'
<1> SUFFICES ASSUME IOInv, TimeInv, TimeoutIsTrue, [IONext]_allvars
             PROVE  TimeInv' /\ TimeoutIsTrue'
  OBVIOUS
<1>1. Seconds \in Nat /\ Seconds' \in Nat /\ Seconds' >= Seconds
  <2>1. clock \in Nat /\ Seconds \in Nat
    BY SecondsPass DEF IOInv, IOTypes, Seconds
  <2>2. clock' = clock \/ clock' = clock + 1
    <3>1. \A r \in Routine : IORegister(r) \/ IODrop(r) \/ IOResume(r) => clock' = clock
      BY DEF IORegister, IODrop, IOResume, Register, Drop, Resume, EndTurn
    <3>2. IOTurnEnds => clock' = clock
      BY <3>1 DEF IOTurnEnds, Suspend, Park, Yield, Start, End, EndTurn
    <3>3. AtOnce => clock' = clock
      BY DEF AtOnce, vars
    <3>4. \A call, key, timed : Blocks(call, key, timed) => clock' = clock
      BY DEF Blocks, Waits, EndTurn
    <3>5. SocketCalls => clock' = clock
      BY <3>3, <3>4 DEF SocketCalls, Transfer, Accept, Select
    <3>6. GoesOn => clock' = clock
      BY DEF GoesOn, TransferGoesOn, AcceptGoesOn, SelectGoesOn, Returns, Waits, EndTurn
    <3>7. NextRoutine \/ Bury \/ CallTrap \/ TrapReturns \/ Raise \/ RunEnds => clock' = clock
      BY DEF NextRoutine, Bury, CallTrap, TrapReturns, Raise, InCycle, RunEnds
    <3>8. Signal \/ IOWakeUpAll \/ IORunAgain => clock' = clock
      BY DEF Signal, IOWakeUpAll, IORunAgain
    <3>9. Halt \/ Run(NIL) \/ (\E e \in Side : Arrive(e)) \/ UNCHANGED allvars => clock' = clock
      BY DEF Halt, Run, Arrive, vars, allvars
    <3> QED BY <3>1, <3>2, <3>5, <3>6, <3>7, <3>8, <3>9 DEF IONext, IOControl, Tick
  <2>3. CASE clock' = clock
    BY <2>1, <2>3 DEF Seconds
  <2>4. CASE clock' = clock + 1
    <3>1. (clock + 1) \in Nat
      BY <2>1
    <3>2. (clock + 1) \div TicksPerSecond \in Nat
      BY <3>1, SecondsPass
    <3>3. (clock + 1) \div TicksPerSecond >= clock \div TicksPerSecond
      BY <2>1, SecondsPass
    <3> QED BY <2>1, <2>4, <3>2, <3>3 DEF Seconds
  <2> QED BY <2>2, <2>3, <2>4
<1>2. ASSUME NEW c \in Routine, op'[c] # NIL PROVE Undisturbed(c) \/ OnTime(c)'
  <2>1. ASSUME UNCHANGED <<vars, waiting, locked, op>>, ready \subseteq ready' PROVE Undisturbed(c)
    BY <2>1 DEF Undisturbed, Active, Waiters, vars, lists
  <2>2. CASE UNCHANGED allvars
    BY <2>1, <2>2 DEF allvars, iovars
  <2>3. CASE \E e \in Side : Arrive(e)
    BY <2>1, <2>3 DEF Arrive
  <2>4. CASE IOTurnEnds
    BY <1>2, <2>4, ProgramGoesBy, TurnsGoBy DEF IOTurnEnds
  <2>5. CASE IOControl
    BY <1>2, <2>5, TurnsGoBy, SignalOnTime, WakeOnTime, GoesOnOnTime DEF IOControl
  <2>6. CASE (Halt \/ Run(NIL) \/ Tick) /\ Quiet
    BY <1>2, <2>6, TurnsGoBy
  <2>7. CASE \E r \in Routine : IORegister(r) \/ IODrop(r)
    BY <1>2, <2>7, ProgramGoesBy
  <2>8. CASE SocketCalls
    BY <1>2, <2>8, SocketCallsOnTime
  <2> QED BY <2>2, <2>3, <2>4, <2>5, <2>6, <2>7, <2>8 DEF IONext
<1>3. TimeInv'
  BY <1>1, <1>2, TimeKeeps
<1>4. TimeoutIsTrue'
  <2>1. CASE SocketCalls \/ GoesOn
    BY <2>1, AnswersAreTrue
  <2>2. CASE UNCHANGED allvars
    BY <2>2 DEF allvars, vars, TimeoutIsTrue, Seconds
  <2>3. CASE Unanswered
    BY <2>3 DEF Unanswered, TimeoutIsTrue
  <2>4. SocketCalls \/ GoesOn \/ UNCHANGED allvars \/ Unanswered
    BY DEF IONext, IORegister, IODrop, IOResume, IOTurnEnds, Quiet, IOControl, Signal,
           IOWakeUpAll, IORunAgain, Arrive
  <2> QED BY <2>1, <2>2, <2>3, <2>4
<1> QED BY <1>3, <1>4

(* If nobody interrupts a routine in the middle of a call, and timeouts    *)
(* are not negative (accept() takes a negative one for a time to sleep),   *)
(* receive, send and accept report a timeout only when it is over.         *)
THEOREM TimeoutsAreTrue ==
  ASSUME Interrupts = {}, Timeouts \subseteq Nat \cup {NIL}
  PROVE  IOSpec => []TimeoutIsTrue
<1>1. IOInit => TimeInv /\ TimeoutIsTrue
  BY DEF IOInit, TimeInv, TimeoutIsTrue
<1>2. IOInv /\ TimeInv /\ TimeoutIsTrue /\ [IONext]_allvars => TimeInv' /\ TimeoutIsTrue'
  BY TimeInvariance
<1> QED BY <1>1, <1>2, IOBeginning, IOInvariance, PTL DEF IOSpec

=============================================================================
