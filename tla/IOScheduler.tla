---------------------------- MODULE IOScheduler ----------------------------
(***************************************************************************)
(* loop.thread.IOScheduler with loop.thread.CoSocket: routines that wait   *)
(* for sockets.  The scheduler also keeps, for each socket to read from or *)
(* to write to, the routine to resume when select() reports it ready; a    *)
(* routine may be among the sleepers at the same time, for its timeout.    *)
(*                                                                         *)
(* The code treats reading and writing alike, with a map (reading,         *)
(* writing) and a set of locks (readlocks, writelocks) for each.  Here a   *)
(* Side is one direction of one socket: waiting is the two maps and locked *)
(* the two sets of locks.  The order of the arrays of sockets is left      *)
(* open.  receive and send are the same call, "transfer".                  *)
(*                                                                         *)
(* The operations of Scheduler are those of the program between its calls  *)
(* of the socket API.  In a call a routine is suspended once or more; op   *)
(* holds the local state of the call meanwhile.                            *)
(***************************************************************************)
EXTENDS Scheduler

CONSTANTS
  Side,        \* directions of sockets
  Operations,  \* calls the program makes: "transfer", "accept", "select"
  Timeouts,    \* their timeouts; NIL is none, negative is none
  Partial,     \* data may arrive in pieces
  Interrupts   \* which of remove, resume may name a routine that waits

(* The calls a routine may be in. *)
Calls == [kind : Operations, sides : SUBSET Side, timeout : Timeouts, from : Nat]

ASSUME IOAssumption ==
  /\ IsFiniteSet(Side)
  /\ NIL \notin Int /\ NIL \notin Calls
  /\ Operations \subseteq {"transfer", "accept", "select"}
  /\ \A t \in Timeouts : t = NIL \/ t \in Int
  /\ Partial \in BOOLEAN
  /\ Interrupts \subseteq {"remove", "resume"}

VARIABLES
  waiting,  \* the routine to resume when the side is ready
  locked,   \* the sides some routine is using
  op,       \* the socket call each routine is in
  ready,    \* environment: the sides with data, or room for data
  answer    \* the result of a call that has just returned

iovars == <<waiting, locked, op, ready>>
allvars == <<vars, iovars, answer>>

Waiters == {waiting[e] : e \in Side} \ {NIL}

Positive(t) == t # NIL /\ t > 0

IOTypeOK ==
  /\ running \in Seq(Routine) /\ sleeping \in Seq(Routine)
  /\ wake \in [Routine -> Int] /\ currentkey \in Routine \cup {FIRST}
  /\ waiting \in [Side -> Maybe(Routine)]
  /\ locked \subseteq Side /\ ready \subseteq Side
  /\ \A r \in Routine : op[r] = NIL \/ op[r] \in Calls

IOInit ==
  /\ Init
  /\ waiting = [e \in Side |-> NIL] /\ locked = {}
  /\ op = [r \in Routine |-> NIL]
  /\ ready = {} /\ answer = NIL

Unanswered == answer' = NIL

(* handleremoved *)
Unsubscribed(r) == [e \in Side |-> IF waiting[e] = r THEN NIL ELSE waiting[e]]

(***************************************************************************)
(* Operations of the scheduler.                                            *)
(***************************************************************************)
(* The code of the program is executing, not that of a socket call. *)
InProgram == phase = "routine" => op[current] = NIL

MayInterrupt(call, r) == op[r] # NIL => call \in Interrupts

(* register(routine) of one that waits for a socket has no effect. *)
IORegister(r) ==
  /\ InProgram /\ r \notin Waiters
  /\ Register(r) /\ UNCHANGED iovars /\ Unanswered

(* remove(routine) *)
IODrop(r) ==
  /\ InProgram /\ MayInterrupt("remove", r)
  /\ Drop(r)
  /\ waiting' = Unsubscribed(r)
  /\ UNCHANGED <<locked, op, ready>> /\ Unanswered

(* resume(routine): one that waits is removed, then registered. *)
IOResume(r) ==
  /\ InProgram /\ MayInterrupt("resume", r)
  /\ Resume(r)
  /\ waiting' = Unsubscribed(r)
  /\ UNCHANGED <<locked, op, ready>> /\ Unanswered

(***************************************************************************)
(* step and idle.                                                          *)
(***************************************************************************)
Watched == {e \in Side : waiting[e] # NIL}

(* Fault: the routines released stay subscribed. *)
SignalledSubscribed ==
  LET released == {waiting[e] : e \in Watched \cap ready} \ ToSet(running) IN
  /\ \E s \in SetToSeqs(released) : running' = running \o s
  /\ UNCHANGED waiting

(* Fault: select() is called only when no routine is ready. *)
SignalledWhenIdle ==
  LET released == {waiting[e] : e \in Watched \cap ready} IN
  \/ running # <<>> /\ UNCHANGED <<running, waiting>>
  \/ /\ running = <<>>
     /\ \E s \in SetToSeqs(released) : running' = s
     /\ waiting' = [e \in Side |-> IF e \in ready THEN NIL ELSE waiting[e]]

(* signalall, select() having reported the sides that are ready. *)
Signalled ==
  LET released == {waiting[e] : e \in Watched \cap ready} \ ToSet(running) IN
  /\ \E s \in SetToSeqs(released) : running' = running \o s
  /\ waiting' = [e \in Side |-> IF e \in ready THEN NIL ELSE waiting[e]]

Signal ==
  /\ phase = "step" /\ phase' = "wake"
  /\ Signalled
  /\ woken' = (Watched # {})
  /\ UNCHANGED <<sleeping, wake, due, currentkey, current, halted, resumed,
                 status, clock, limit, served, parked, handoff, locked, op, ready>>
  /\ Unanswered

(* Fault: a routine that the signal has already released is listed again. *)
IOWakeUpAgain ==
  /\ phase = "wake" /\ phase' = "cycle"
  /\ \E n \in 0..Len(sleeping) :
       LET rest == SubSeq(sleeping, n + 1, Len(sleeping)) IN
       /\ Due(n)
       /\ running' = running \o SubSeq(sleeping, 1, n)
       /\ sleeping' = rest
       /\ wake' = Priorities(rest, wake) /\ due' = Priorities(rest, due)
  /\ woken' = (woken \/ SomeoneSleeps)
  /\ resumed' = FALSE /\ served' = {}
  /\ UNCHANGED <<current, currentkey, halted, status, clock, limit, parked,
                 handoff, iovars>>
  /\ Unanswered

(* running:enqueue() of one routine after the other: it refuses those that *)
(* are listed, as the signal released them.                                *)
Enqueued(run, routines) ==
  LET after[i \in 0..Len(routines)] ==
        IF i = 0 THEN run ELSE Inserted(after[i - 1], routines[i], NIL)
  IN  after[Len(routines)]

(* wakeupall *)
IOWakeUpAll ==
  /\ phase = "wake" /\ phase' = "cycle"
  /\ \E n \in 0..Len(sleeping) :
       LET rest == SubSeq(sleeping, n + 1, Len(sleeping)) IN
       /\ Due(n)
       /\ running' = Enqueued(running, SubSeq(sleeping, 1, n))
       /\ sleeping' = rest
       /\ wake' = Priorities(rest, wake) /\ due' = Priorities(rest, due)
  /\ woken' = (woken \/ SomeoneSleeps)
  /\ resumed' = FALSE /\ served' = {}
  /\ UNCHANGED <<current, currentkey, halted, status, clock, limit, parked,
                 handoff, iovars>>
  /\ Unanswered

(* idle() ends: select() has found something, the first sleeper is due, or *)
(* there is nothing to wait for.                                           *)
IdleEnds ==
  \/ Watched \cap ready # {}
  \/ sleeping # <<>> /\ Seconds >= wake[Head(sleeping)]
  \/ Watched = {} /\ sleeping = <<>>

IORunAgain ==
  /\ phase = "stepped" /\ phase' = "step"
  /\ (woken \/ resumed) /\ ~halted
  /\ IF running = <<>> THEN IdleEnds /\ Signalled ELSE UNCHANGED <<running, waiting>>
  /\ UNCHANGED <<sleeping, wake, due, currentkey, current, halted, woken, resumed,
                 status, clock, limit, served, parked, handoff, locked, op, ready>>
  /\ Unanswered

(***************************************************************************)
(* The socket API.                                                         *)
(***************************************************************************)
Arrive(e) ==
  /\ e \notin ready /\ ready' = ready \cup {e}
  /\ UNCHANGED <<vars, waiting, locked, op>> /\ Unanswered

(* What the socket of LuaSocket answers without waiting: "done" is data, a *)
(* connection, or an error that is not a timeout.                          *)
Tried(e, result) ==
  \/ e \notin ready /\ result = "timeout" /\ UNCHANGED ready
  \/ e \in ready /\ result = "done" /\ ready' \in {ready, ready \ {e}}

(* Likewise for data, of which there may be less than was asked for. *)
TriedData(e, result) ==
  \/ Tried(e, result)
  \/ e \in ready /\ Partial /\ result = "timeout" /\ ready' = ready \ {e}

Answered(call, message, found) ==
  answer' = [kind |-> call.kind, timeout |-> call.timeout, from |-> call.from,
             message |-> message, found |-> found]

(* The program calls the API; no other routine is using these sides (the   *)
(* code asserts it).                                                       *)
Call(kind, sides, timeout) ==
  [kind |-> kind, sides |-> sides, timeout |-> timeout, from |-> Seconds]

MayCall(call) ==
  /\ phase = "routine" /\ op[current] = NIL
  /\ call.kind \in Operations /\ call.sides \cap locked = {}

AtOnce == UNCHANGED <<vars, waiting, locked, op>>

(* Fault: the routine does not subscribe for the signal. *)
WaitsUnsubscribed(sides, key) ==
  /\ EndTurn
  /\ running' = Removed(running, current, key)
  /\ UNCHANGED <<currentkey, status, parked, handoff, waiting>>

(* running:remove(current) and coroutine.yield() *)
Waits(sides, key) ==
  /\ EndTurn
  /\ running' = Removed(running, current, key)
  /\ waiting' = [e \in Side |-> IF e \in sides THEN current ELSE waiting[e]]
  /\ UNCHANGED <<currentkey, status, parked, handoff>>

(* The first wait of a call, with the lock and perhaps the timeout. *)
Blocks(call, key, timed) ==
  /\ Waits(call.sides, key)
  /\ IF timed THEN Asleep(call.timeout) ELSE UNCHANGED <<sleeping, wake, due>>
  /\ locked' = locked \cup call.sides
  /\ op' = [op EXCEPT ![current] = call]
  /\ Unanswered

Resumed(kind) == phase = "routine" /\ op[current] # NIL /\ op[current].kind = kind

(* Fault: the lock is not released. *)
ReturnsLocked ==
  /\ op' = [op EXCEPT ![current] = NIL]
  /\ UNCHANGED <<running, currentkey, current, halted, phase, woken, resumed,
                 status, clock, limit, served, parked, handoff, locked>>

(* The call returns, and the program goes on. *)
Returns ==
  /\ op' = [op EXCEPT ![current] = NIL]
  /\ locked' = locked \ op[current].sides
  /\ UNCHANGED <<running, currentkey, current, halted, phase, woken, resumed,
                 status, clock, limit, served, parked, handoff>>

(* sleeping:remove(current), if the call had set a timeout *)
Awake(timed) ==
  /\ sleeping' = IF timed THEN Removed(sleeping, current, FIRST) ELSE sleeping
  /\ wake' = Priorities(sleeping', wake) /\ due' = Priorities(sleeping', due)

(* receive() or send() *)
Transfer(e, timeout) ==
  LET call == Call("transfer", {e}, timeout) IN
  /\ MayCall(call)
  /\ \E result \in {"done", "timeout"} :
       /\ TriedData(e, result)
       /\ \/ /\ result = "done" \/ timeout = 0
             /\ AtOnce /\ Answered(call, result, result = "done")
          \/ /\ result = "timeout" /\ timeout # 0
             /\ Blocks(call, FIRST, Positive(timeout))

TransferGoesOn(e) ==
  LET call == op[current] IN
  /\ Resumed("transfer") /\ e \in call.sides
  /\ \/ /\ waiting[e] = current
        /\ waiting' = Unsubscribed(current)
        /\ Returns /\ Answered(call, "timeout", FALSE)
        /\ UNCHANGED <<sleeping, wake, due, ready>>
     \/ /\ waiting[e] # current /\ TriedData(e, "done")
        /\ Awake(Positive(call.timeout))
        /\ Returns /\ Answered(call, "done", TRUE)
        /\ UNCHANGED waiting
     \/ /\ waiting[e] # current /\ TriedData(e, "timeout")
        /\ Waits({e}, FIRST)
        /\ UNCHANGED <<sleeping, wake, due, locked, op>> /\ Unanswered

(* accept() *)
Accept(e, timeout) ==
  LET call == Call("accept", {e}, timeout) IN
  /\ MayCall(call)
  /\ \E result \in {"done", "timeout"} :
       /\ Tried(e, result)
       /\ \/ /\ result = "done" \/ timeout = 0
             /\ AtOnce /\ Answered(call, result, result = "done")
          \/ /\ result = "timeout" /\ timeout # 0
             /\ Blocks(call, currentkey, timeout # NIL)

AcceptGoesOn(e) ==
  LET call == op[current] IN
  /\ Resumed("accept") /\ e \in call.sides
  /\ waiting' = Unsubscribed(current)
  /\ Returns
  /\ \/ /\ waiting[e] = current
        /\ Answered(call, "timeout", FALSE)
        /\ UNCHANGED <<sleeping, wake, due, ready>>
     \/ /\ waiting[e] # current
        /\ Awake(call.timeout # NIL)
        /\ \E result \in {"done", "timeout"} :
             Tried(e, result) /\ Answered(call, result, result = "done")

(* select() *)
Select(sides, timeout) ==
  LET call == Call("select", sides, timeout)
      found == sides \cap ready # {} IN
  /\ MayCall(call)
  /\ UNCHANGED ready
  /\ \/ /\ found \/ timeout = 0
        /\ AtOnce /\ Answered(call, IF found THEN "done" ELSE "timeout", found)
     \/ /\ ~found /\ timeout # 0
        /\ Blocks(call, FIRST, Positive(timeout))

SelectGoesOn ==
  LET call == op[current]
      timed == Positive(call.timeout) IN
  /\ Resumed("select")
  /\ Awake(timed)
  /\ waiting' = Unsubscribed(current)
  /\ Returns
  /\ Answered(call, IF timed /\ current \in ToSet(sleeping) THEN "done" ELSE "timeout",
              \E e \in call.sides : waiting[e] # current)
  /\ UNCHANGED ready

(***************************************************************************)
(* The specification.                                                      *)
(***************************************************************************)
SocketCalls ==
  \/ \E e \in Side, t \in Timeouts : Transfer(e, t) \/ Accept(e, t)
  \/ \E sides \in (SUBSET Side) \ {{}}, t \in Timeouts : Select(sides, t)

GoesOn ==
  \/ \E e \in Side : TransferGoesOn(e) \/ AcceptGoesOn(e)
  \/ SelectGoesOn

Quiet == UNCHANGED iovars /\ Unanswered

IOControl ==
  \/ (NextRoutine \/ Bury \/ CallTrap \/ TrapReturns \/ Raise \/ RunEnds) /\ Quiet
  \/ Signal \/ IOWakeUpAll \/ IORunAgain
  \/ GoesOn

IOTurnEnds ==
  \/ InProgram /\ Quiet /\ (Park \/ Yield \/ \E d \in Delays : Suspend(d))
  \/ InProgram /\ Quiet /\ \E r \in Routine : Start(r)
  \/ InProgram /\ Quiet /\ \E s \in {"done", "failed"} : End(s)
  \/ \E r \in Routine : IOResume(r)

IOReorder == \E r \in Routine : IORegister(r) \/ IODrop(r) \/ IOResume(r)

IONext ==
  \/ \E r \in Routine : IORegister(r) \/ IODrop(r)
  \/ InProgram /\ Halt /\ Quiet
  \/ IOTurnEnds
  \/ SocketCalls
  \/ IOControl
  \/ Run(NIL) /\ Quiet
  \/ Tick /\ Quiet
  \/ \E e \in Side : Arrive(e)

IOSpec == IOInit /\ [][IONext]_allvars

IOFairSpec ==
  IOSpec /\ WF_allvars(IOControl) /\ WF_allvars(IOTurnEnds) /\ WF_allvars(Tick /\ Quiet)

(***************************************************************************)
(* Properties.                                                             *)
(***************************************************************************)
(* A routine is listed once among the ready and once among the sleepers,   *)
(* though signal, timeout and resume() may release it in the same step;    *)
(* it is never woken, by its timeout or otherwise, in the middle of code   *)
(* that is not waiting.  The variables have their types besides.            *)
ListedOnce ==
  /\ IOTypeOK
  /\ NoRepeats(running) /\ NoRepeats(sleeping)
  /\ \A r \in ToSet(running) \cap ToSet(sleeping) : op[r] # NIL

(* Sockets are locked exactly while a call uses them, never by two calls,  *)
(* and no routine is still subscribed to a socket when its call is over:   *)
(* data would wake it in the middle of something else.                     *)
LocksMatchCalls ==
  LET inCall == {r \in Routine : op[r] # NIL} IN
  /\ locked = UNION {op[r].sides : r \in inCall}
  /\ \A r, q \in inCall : r # q => op[r].sides \cap op[q].sides = {}
  /\ \A e \in Watched : op[waiting[e]] # NIL /\ e \in op[waiting[e]].sides

(* A live routine that was not taken out is ready, asleep or waiting for a *)
(* socket: whichever cause comes first, the routine is not lost.           *)
NobodyLost ==
  \A r \in Routine :
    status[r] = "live" /\ r \notin parked =>
      r \in ToSet(running) \cup ToSet(sleeping) \cup Waiters

(* receive, send and accept report a timeout only if there is one and the  *)
(* time has passed, in the whole seconds that time() counts (LuaSocket,    *)
(* settimeout: no timeout and negative ones let them "block indefinitely").*)
TimeoutIsTrue ==
  answer # NIL /\ answer.kind # "select" /\ answer.message = "timeout" =>
    /\ answer.timeout # NIL /\ answer.timeout >= 0
    /\ Seconds >= answer.from + answer.timeout

(* If routines stop rearranging the lists, a call whose socket stays ready *)
(* gets to try it while the scheduler runs.                                *)
ReadySocketIsServed ==
  <>[][~IOReorder]_allvars =>
    \A r \in Routine, e \in Side :
      op[r] # NIL /\ e \in op[r].sides \cap ready
        ~> (current = r \/ op[r] = NIL \/ phase = "stopped")

(* Every call with a timeout returns, as long as data does not arrive in   *)
(* pieces.                                                                 *)
TimedCallReturns ==
  <>[][~IOReorder]_allvars =>
    \A r \in Routine :
      op[r] # NIL /\ Positive(op[r].timeout) ~> (op[r] = NIL \/ phase = "stopped")
=============================================================================
