----------------------------- MODULE Scheduler -----------------------------
(***************************************************************************)
(* loop.thread.Scheduler: co-operative threads ("routines") on top of Lua  *)
(* coroutines.  The routines ready to execute are listed in running, an    *)
(* OrderedSet; those suspended for a time in sleeping, a PriorityQueue     *)
(* ordered by the time they are to be woken.  run() repeats step(): wake   *)
(* the sleepers that are due, then resume every routine of running in      *)
(* order (resumeall).  currentkey is the key of running whose successor is *)
(* executed next; current is the routine being executed.                   *)
(*                                                                         *)
(* phase is the place of the control flow:                                 *)
(*   "stopped"  the main program, outside run()                            *)
(*   "step"     at the start of step()                                     *)
(*   "cycle"    in resumeall(), a routine has just yielded or ended        *)
(*   "routine"  the code of current is executing                           *)
(*   "trap"     the trap function of a routine that ended is executing     *)
(*   "stepped"  step() has returned to run()                               *)
(* Program code runs in "stopped", "routine" and "trap", and there calls   *)
(* the operations of the scheduler in any order.                           *)
(***************************************************************************)
EXTENDS DistinctSeq

CONSTANTS
  Routine,         \* the coroutines the program may create
  Trapped,         \* those that have a trap function
  Delays,          \* times given to suspend(), in seconds
  MaxTime,         \* bound on the clock, in seconds
  TicksPerSecond,  \* grain of real time: time() only counts whole seconds
  SelfCalls,       \* which of these calls a routine may make naming itself
  MayRaise,        \* a routine without a trap may end with an error
  RunLimits        \* timeouts given to run()

ASSUME SchedulerAssumption ==
  /\ FIRST \notin Routine /\ NIL \notin Routine /\ FIRST # NIL
  /\ Trapped \subseteq Routine
  /\ Delays \subseteq Nat
  /\ MaxTime \in Nat
  /\ TicksPerSecond \in Nat \ {0}
  /\ SelfCalls \subseteq {"register", "remove", "resume"}
  /\ MayRaise \in BOOLEAN
  /\ RunLimits \subseteq Nat

VARIABLES
  running, sleeping, wake, current, currentkey, halted,  \* fields of self
  phase, woken, resumed,  \* control flow and the results step() combines
  status,                 \* life of each coroutine
  clock,                  \* real time, in ticks
  limit,                  \* argument of the latest run()
  served,                 \* history: routines executed in this cycle
  parked,                 \* history: routines taken out of the lists by request
  handoff,                \* history: target of a resume() or start() under way
  due                     \* history: tick before which a sleeper must not wake

lists == <<running, sleeping, wake, currentkey>>
history == <<served, parked, handoff, due>>
vars == <<lists, current, halted, phase, woken, resumed, status, clock, limit,
          history>>

Maybe(S) == S \cup {NIL}

TypeOK ==
  /\ running \in Seq(Routine) /\ sleeping \in Seq(Routine)
  /\ wake \in [Routine -> Nat]
  /\ current \in Maybe(Routine)
  /\ currentkey \in Routine \cup {FIRST}
  /\ halted \in BOOLEAN /\ woken \in BOOLEAN /\ resumed \in BOOLEAN
  /\ phase \in {"stopped", "step", "cycle", "routine", "trap", "stepped"}
  /\ status \in [Routine -> {"new", "live", "done", "failed"}]
  /\ clock \in Nat
  /\ limit \in Maybe(RunLimits)
  /\ served \subseteq Routine /\ parked \subseteq Routine
  /\ handoff \in Maybe(Routine)
  /\ due \in [Routine -> Nat]

Init ==
  /\ running = <<>> /\ sleeping = <<>> /\ wake = [r \in Routine |-> 0]
  /\ current = NIL /\ currentkey = FIRST /\ halted = FALSE
  /\ phase = "stopped" /\ woken = FALSE /\ resumed = FALSE
  /\ status = [r \in Routine |-> "new"]
  /\ clock = 0 /\ limit = NIL
  /\ served = {} /\ parked = {} /\ handoff = NIL
  /\ due = [r \in Routine |-> 0]

(***************************************************************************)
(* The two lists.  A record of the three fields lets the operations that   *)
(* call one another be composed as the code composes them.                 *)
(***************************************************************************)
Queues == [run |-> running, sleep |-> sleeping, key |-> currentkey]

(* Fault: only running is looked at. *)
AcceptedWhenAsleep(q, r, previous) == CanInsert(q.run, r, previous)

(* register(routine, previous) takes effect *)
Accepted(q, r, previous) ==
  r \notin ToSet(q.sleep) /\ CanInsert(q.run, r, previous)

(* Fault: routines are registered at the front. *)
RegisteredInFront(q, r, previous) ==
  IF Accepted(q, r, previous)
  THEN [q EXCEPT !.run = Inserted(q.run, r, IF previous = NIL THEN FIRST ELSE previous)]
  ELSE q

Registered(q, r, previous) ==
  IF Accepted(q, r, previous)
  THEN [q EXCEPT !.run = Inserted(q.run, r, previous)] ELSE q

(* Fault: the key the traversal continues from may be removed. *)
DroppedWithKey(q, r) ==
  IF r \in ToSet(q.run) THEN [q EXCEPT !.run = Removed(q.run, r, FIRST)]
  ELSE [q EXCEPT !.sleep = Removed(q.sleep, r, FIRST)]

(* remove(routine) *)
Dropped(q, r) ==
  LET before == KeyBefore(q.run, r, FIRST) IN
  CASE r = current -> [q EXCEPT !.run = Removed(q.run, r, q.key)]
    [] r # current /\ r = q.key ->
         [q EXCEPT !.key = before, !.run = Removed(q.run, r, before)]
    [] r \notin {current, q.key} /\ r \in ToSet(q.run) ->
         [q EXCEPT !.run = Removed(q.run, r, FIRST)]
    [] OTHER -> [q EXCEPT !.sleep = Removed(q.sleep, r, FIRST)]

(* Fault: a routine that was registered is removed and not put back. *)
AdvancedOnce(q, r) ==
  IF Accepted(q, r, current) THEN Registered(q, r, current) ELSE Dropped(q, r)

(* Fault: the resumed routine goes to the end of the list. *)
AdvancedLast(q, r) ==
  IF Accepted(q, r, NIL) THEN Registered(q, r, NIL)
  ELSE Registered(Dropped(q, r), r, NIL)

(* the change resume(routine) makes before it yields *)
Advanced(q, r) ==
  IF Accepted(q, r, current) THEN Registered(q, r, current)
  ELSE Registered(Dropped(q, r), r, current)

(* A value out of the queue has no priority. *)
Priorities(sleep, w) ==
  [r \in Routine |-> IF r \in ToSet(sleep) THEN w[r] ELSE 0]

SetQueues(q) ==
  /\ running' = q.run /\ sleeping' = q.sleep /\ currentkey' = q.key
  /\ wake' = Priorities(q.sleep, wake)
  /\ due' = Priorities(q.sleep, due)

(* Fault: the priority is recorded but not used. *)
LastPlace(i, time) == i = Len(sleeping) + 1

(* PriorityQueue.enqueue: just before the first value with a later time. *)
PlaceFor(i, time) ==
  /\ \A j \in 1..(i - 1) : wake[sleeping[j]] <= time
  /\ i <= Len(sleeping) => wake[sleeping[i]] > time

Seconds == clock \div TicksPerSecond

(***************************************************************************)
(* Operations called by program code.                                      *)
(***************************************************************************)
Calling == phase \in {"stopped", "routine", "trap"}

(* A routine that names itself is a case of its own: see SelfCalls. *)
MayName(call, r) == r # current \/ call \in SelfCalls

(* register(routine), with the creation of a coroutine not yet created *)
Register(r) ==
  /\ Calling /\ MayName("register", r) /\ status[r] \in {"new", "live"}
  /\ SetQueues(Registered(Queues, r, NIL))
  /\ status' = [status EXCEPT ![r] = "live"]
  /\ parked' = parked \ {r}
  /\ UNCHANGED <<current, halted, phase, woken, resumed, clock, limit, served,
                 handoff>>

(* remove(routine) *)
Drop(r) ==
  /\ Calling /\ MayName("remove", r) /\ status[r] = "live"
  /\ SetQueues(Dropped(Queues, r))
  /\ parked' = parked \cup {r}
  /\ UNCHANGED <<current, halted, phase, woken, resumed, status, clock, limit,
                 served, handoff>>

Halt ==
  /\ Calling
  /\ halted' = TRUE
  /\ UNCHANGED <<lists, current, phase, woken, resumed, status, clock, limit,
                 history>>

(* The ends of a routine's turn: control returns to resumeall. *)
EndTurn ==
  /\ phase = "routine" /\ phase' = "cycle"
  /\ UNCHANGED <<current, halted, woken, resumed, clock, limit, served>>

(* The current routine goes to sleep until time() + d. *)
Asleep(d) ==
  LET t == Seconds + d IN
  /\ t < MaxTime
  /\ \E i \in 1..(Len(sleeping) + 1) :
       PlaceFor(i, t) /\ sleeping' = InsertAt(sleeping, i, current)
  /\ wake' = [wake EXCEPT ![current] = t]
  /\ due' = [due EXCEPT ![current] = clock + d * TicksPerSecond]

(* suspend(time) *)
Suspend(d) ==
  /\ EndTurn /\ Asleep(d)
  /\ running' = Removed(running, current, currentkey)
  /\ parked' = parked \ {current}
  /\ UNCHANGED <<currentkey, status, handoff>>

(* suspend() *)
Park ==
  /\ EndTurn
  /\ running' = Removed(running, current, currentkey)
  /\ parked' = parked \cup {current}
  /\ UNCHANGED <<sleeping, wake, due, currentkey, status, handoff>>

(* resume(routine) *)
Resume(r) ==
  /\ EndTurn /\ MayName("resume", r) /\ status[r] = "live"
  /\ SetQueues(Advanced(Queues, r))
  /\ parked' = parked \ {r}
  /\ handoff' = r
  /\ UNCHANGED status

(* start(func): the new routine goes right after the current one *)
Start(r) ==
  /\ EndTurn /\ status[r] = "new"
  /\ running' = Inserted(running, r, current)
  /\ status' = [status EXCEPT ![r] = "live"]
  /\ handoff' = r
  /\ UNCHANGED <<sleeping, wake, due, currentkey, parked>>

(* coroutine.yield() *)
Yield == EndTurn /\ UNCHANGED <<lists, status, parked, handoff, due>>

(* The routine's function returns, or raises an error. *)
End(s) ==
  /\ EndTurn
  /\ s = "failed" => current \in Trapped \/ MayRaise
  /\ status' = [status EXCEPT ![current] = s]
  /\ parked' = parked \ {current}
  /\ UNCHANGED <<lists, handoff, due>>

(***************************************************************************)
(* resumeall.                                                              *)
(***************************************************************************)

(* Fault: at the end of the list currentkey takes the nil found there. *)
ResumeAfterUnreset(run, key) ==
  LET next == ValueAfter(run, key) IN
  /\ handoff' = NIL /\ current' = next
  /\ IF next # NIL
     THEN /\ currentkey' = key /\ resumed' = TRUE /\ phase' = "routine"
          /\ served' = served \cup {next}
     ELSE currentkey' = next /\ phase' = "stepped" /\ UNCHANGED <<resumed, served>>

(* Resume the successor of key in run, or end the cycle. *)
ResumeAfter(run, key) ==
  LET next == ValueAfter(run, key) IN
  /\ handoff' = NIL
  /\ \/ /\ next # NIL
        /\ current' = next /\ currentkey' = key
        /\ resumed' = TRUE /\ phase' = "routine"
        /\ served' = served \cup {next}
     \/ /\ next = NIL
        /\ current' = NIL /\ currentkey' = FIRST
        /\ phase' = "stepped"
        /\ UNCHANGED <<resumed, served>>

InCycle == phase = "cycle" /\ UNCHANGED <<sleeping, wake, halted, woken, status,
                                          clock, limit, parked, due>>

Ended == current # NIL /\ status[current] \in {"done", "failed"}

(* Fault: currentkey does not follow the routine that yielded. *)
NextRoutineInPlace ==
  InCycle /\ ~Ended /\ ResumeAfter(running, currentkey) /\ UNCHANGED running

(* The current routine yielded, or the cycle starts or goes on after a trap. *)
NextRoutine ==
  /\ InCycle /\ ~Ended
  /\ ResumeAfter(running, IF current \in ToSet(running) THEN current ELSE currentkey)
  /\ UNCHANGED running

Buried == Removed(running, current, currentkey)

(* The routine returned and nobody asked to be told. *)
Bury ==
  /\ InCycle /\ Ended /\ current \notin Trapped /\ status[current] = "done"
  /\ running' = Buried
  /\ ResumeAfter(Buried, currentkey)

CallTrap ==
  /\ InCycle /\ Ended /\ current \in Trapped
  /\ running' = Buried /\ current' = NIL /\ phase' = "trap"
  /\ UNCHANGED <<currentkey, resumed, served, handoff>>

TrapReturns ==
  /\ phase = "trap" /\ phase' = "cycle"
  /\ UNCHANGED <<lists, current, halted, woken, resumed, status, clock, limit,
                 history>>

(* self:error raises: the error leaves resumeall, step and run. *)
Raise ==
  /\ InCycle /\ Ended /\ current \notin Trapped /\ status[current] = "failed"
  /\ running' = Buried /\ current' = NIL /\ phase' = "stopped"
  /\ handoff' = NIL
  /\ UNCHANGED <<currentkey, resumed, served>>

(***************************************************************************)
(* step and run.                                                           *)
(***************************************************************************)

(* wakeupall takes the first n sleepers: those due before the first that is not. *)
DueBy(n, now) ==
  /\ \A i \in 1..n : wake[sleeping[i]] <= now
  /\ n < Len(sleeping) => wake[sleeping[n + 1]] > now

(* Fault: sleepers are looked at only when no routine is ready. *)
DueWhenIdle(n) == IF running = <<>> THEN DueBy(n, Seconds) ELSE n = 0

Due(n) == DueBy(n, Seconds)

(* The result of wakeupall. *)
SomeoneSleeps == sleeping # <<>>

(* wakeupall; no sleeper is in running (NeverInBoth), so enqueue appends. *)
WakeUpAll ==
  /\ phase = "step" /\ phase' = "cycle"
  /\ \E n \in 0..Len(sleeping) :
       LET rest == SubSeq(sleeping, n + 1, Len(sleeping)) IN
       /\ Due(n)
       /\ running' = running \o SubSeq(sleeping, 1, n)
       /\ sleeping' = rest
       /\ wake' = Priorities(rest, wake) /\ due' = Priorities(rest, due)
  /\ woken' = SomeoneSleeps
  /\ resumed' = FALSE /\ served' = {}
  /\ UNCHANGED <<current, currentkey, halted, status, clock, limit, parked, handoff>>

Run(timeout) ==
  /\ phase = "stopped" /\ phase' = "step"
  /\ limit' = timeout
  /\ UNCHANGED <<lists, current, halted, woken, resumed, status, clock, history>>

(* With nothing to run, idle() is busy until the first sleeper's time is past. *)
RunAgain ==
  /\ phase = "stepped" /\ phase' = "step"
  /\ (woken \/ resumed) /\ ~halted
  /\ running = <<>> /\ sleeping # <<>> => Seconds > wake[Head(sleeping)]
  /\ UNCHANGED <<lists, current, halted, woken, resumed, status, clock, limit,
                 history>>

RunEnds ==
  /\ phase = "stepped" /\ phase' = "stopped"
  /\ halted \/ ~(woken \/ resumed)
  /\ halted' = FALSE /\ limit' = NIL
  /\ UNCHANGED <<lists, current, woken, resumed, status, clock, history>>

Tick ==
  /\ clock < MaxTime * TicksPerSecond
  /\ clock' = clock + 1
  /\ UNCHANGED <<lists, current, halted, phase, woken, resumed, status, limit,
                 history>>

(***************************************************************************)
(* The specification.                                                      *)
(***************************************************************************)
TurnEnds ==
  \/ \E d \in Delays : Suspend(d)
  \/ Park
  \/ \E r \in Routine : Resume(r) \/ Start(r)
  \/ Yield
  \/ \E s \in {"done", "failed"} : End(s)

Control ==
  \/ NextRoutine \/ Bury \/ CallTrap \/ TrapReturns \/ Raise
  \/ WakeUpAll \/ RunAgain \/ RunEnds

(* Calls after which the lists are no longer served in their own order. *)
Reorder == \E r \in Routine : Register(r) \/ Drop(r) \/ Resume(r)

Next ==
  \/ \E r \in Routine : Register(r) \/ Drop(r)
  \/ Halt
  \/ TurnEnds
  \/ Control
  \/ \E timeout \in Maybe(RunLimits) : Run(timeout)
  \/ Tick

Spec == Init /\ [][Next]_vars

(* The scheduler's own code goes on, time passes, and every routine gives  *)
(* up the processor some day: a co-operative scheduler can ask no less.    *)
Fairness == WF_vars(Control) /\ WF_vars(TurnEnds) /\ WF_vars(Tick)

FairSpec == Spec /\ Fairness

(***************************************************************************)
(* Properties.                                                             *)
(***************************************************************************)
(* No routine is listed twice, or both as ready and as sleeping: it would  *)
(* be resumed again before its time, or twice in a cycle.  register()      *)
(* looks in both lists, resume() and suspend() move between them.          *)
NeverInBoth ==
  /\ NoRepeats(running) /\ NoRepeats(sleeping)
  /\ ToSet(running) \cap ToSet(sleeping) = {}

(* The traversal of resumeall keeps its place whatever routines and traps  *)
(* do to the list under it: the key it continues from is still listed,     *)
(* and the routine executing is the one after it.                          *)
PlaceKept ==
  /\ currentkey \in Keys(running)
  /\ SelfCalls = {} /\ phase = "routine" => ValueAfter(running, currentkey) = current

(* Sleepers are in the order of their times: wakeupall and idle only look  *)
(* at the head.                                                            *)
SleepersInOrder ==
  \A i, j \in DOMAIN sleeping : i < j => wake[sleeping[i]] <= wake[sleeping[j]]

(* A routine that is alive is in a list exactly if it did not ask to be    *)
(* out, by suspend(), and was not taken out by remove(): none is forgotten *)
(* or brought back while the lists are rearranged.                         *)
NobodyForgotten ==
  \A r \in Routine :
    status[r] = "live" =>
      (r \notin parked <=> r \in ToSet(running) \cup ToSet(sleeping))

(* Scheduler.html on step(): a cycle "consists of executing each scheduled *)
(* co-routine ready for execution (i.e. running) at least once".           *)
CycleServesAll == phase = "stepped" => ToSet(running) \subseteq served

(* Scheduler.html on resume() and start(): the execution switches          *)
(* immediately to the routine named, before any other is resumed.          *)
SwitchIsImmediate ==
  [][phase = "cycle" /\ phase' # "cycle" /\ handoff # NIL
       => current' = handoff]_vars

Stopped(r) == phase = "stopped" \/ status[r] # "live"

(* If routines stop rearranging the lists, each one that is ready gets its *)
(* turn while the scheduler runs.                                          *)
ReadyIsExecuted ==
  <>[][~Reorder]_vars =>
    \A r \in Routine :
      r \in ToSet(running) ~> (current = r \/ r \notin ToSet(running) \/ Stopped(r))

(* Likewise, each sleeper is made ready: neither the ones ready nor the    *)
(* wait of idle() keep wakeupall from it.                                  *)
SleeperWakes ==
  <>[][~Reorder]_vars =>
    \A r \in Routine :
      r \in ToSet(sleeping) ~> (r \notin ToSet(sleeping) \/ Stopped(r))
=============================================================================
