------------------------------ MODULE CoPcall ------------------------------
(***************************************************************************)
(* The pcall of loop.thread.Scheduler that may be yielded across.  It runs *)
(* the protected function in a coroutine of its own and passes on every    *)
(* yield of it, so a routine may be executing in the innermost of a stack  *)
(* of coroutines while the scheduler knows only the outermost.  PCallMap   *)
(* tells checkcurrent() which routine that is; the same table keeps, from  *)
(* the routine, the list of the calls to go back to.                       *)
(*                                                                         *)
(* A root is a coroutine not made by pcall: a scheduled routine, another   *)
(* coroutine of the program, or the first protected call of the main       *)
(* program, which has no coroutine (PCallMap[pcall] = nil).  stack is what *)
(* the Lua runtime holds: for each root the protected calls under way in   *)
(* it, the innermost last.  Roots execute in any interleaving, as the      *)
(* scheduler resumes them; in each only the innermost coroutine executes.  *)
(***************************************************************************)
EXTENDS Integers, Sequences

CONSTANTS Coroutine, NIL

ASSUME CoroutineAssumption == NIL \notin Coroutine

VARIABLES PCallMap, roots, stack

vars == <<PCallMap, roots, stack>>

Calls(r) == {stack[r][i] : i \in 1..Len(stack[r])}

Busy == roots \cup UNION {Calls(r) : r \in roots}

Innermost(r) == IF stack[r] = <<>> THEN r ELSE stack[r][Len(stack[r])]

(* Every coroutine is a root, or one call of one root. *)
TypeOK ==
  /\ PCallMap \in [Coroutine -> Coroutine \cup {NIL}]
  /\ roots \subseteq Coroutine
  /\ stack \in [Coroutine -> Seq(Coroutine)]
  /\ \A c \in Coroutine \ roots : stack[c] = <<>>
  /\ \A r \in roots : Calls(r) \cap roots = {}
  /\ \A r, q \in roots : \A i \in 1..Len(stack[r]), j \in 1..Len(stack[q]) :
       stack[r][i] = stack[q][j] => r = q /\ i = j

Init ==
  /\ PCallMap = [c \in Coroutine |-> NIL]
  /\ roots = {}
  /\ stack = [c \in Coroutine |-> <<>>]

Create(c) ==
  /\ c \notin Busy
  /\ roots' = roots \cup {c}
  /\ UNCHANGED <<PCallMap, stack>>

(* The function of a root returns, all its protected calls having done so. *)
Finish(r) ==
  /\ r \in roots /\ stack[r] = <<>>
  /\ roots' = roots \ {r}
  /\ UNCHANGED <<PCallMap, stack>>

(* Fault: the list of calls is not handed on from the call that was innermost. *)
Pushed(running, current, p) ==
  IF current # NIL
  THEN [PCallMap EXCEPT ![current] = running, ![p] = current]
  ELSE [PCallMap EXCEPT ![p] = running]

(* pcall(func), called in coroutine running: the new innermost is p. *)
Called(running, current, p) ==
  IF current # NIL
  THEN [PCallMap EXCEPT ![running] = PCallMap[current],
                        ![current] = running, ![p] = current]
  ELSE [PCallMap EXCEPT ![p] = running]

Pcall(r, p) ==
  /\ r \in roots /\ p \notin Busy
  /\ PCallMap' = Called(Innermost(r), PCallMap[Innermost(r)], p)
  /\ stack' = [stack EXCEPT ![r] = Append(stack[r], p)]
  /\ UNCHANGED roots

(* Fault: the call that is innermost again is not told its routine. *)
Popped(current, running, p) ==
  IF running # NIL
  THEN [PCallMap EXCEPT ![current] = PCallMap[running], ![p] = NIL]
  ELSE [PCallMap EXCEPT ![p] = NIL]

(* Fault: the entry of the call that returned is left. *)
PoppedOnly(current, running, p) ==
  IF running # NIL
  THEN [PCallMap EXCEPT ![current] = PCallMap[running], ![running] = current]
  ELSE PCallMap

(* resumepcall, when the protected function has returned or failed. *)
Returned(current, running, p) ==
  IF running # NIL
  THEN [PCallMap EXCEPT ![current] = PCallMap[running],
                        ![running] = current, ![p] = NIL]
  ELSE [PCallMap EXCEPT ![p] = NIL]

Return(r) ==
  LET p == Innermost(r)
      current == PCallMap[p] IN
  /\ r \in roots /\ stack[r] # <<>>
  /\ PCallMap' = Returned(current, IF current = NIL THEN NIL ELSE PCallMap[current], p)
  /\ stack' = [stack EXCEPT ![r] = SubSeq(stack[r], 1, Len(stack[r]) - 1)]
  /\ UNCHANGED roots

Next ==
  \/ \E c \in Coroutine : Create(c) \/ Finish(c) \/ Return(c)
  \/ \E r, p \in Coroutine : Pcall(r, p)

Spec == Init /\ [][Next]_vars

(* The innermost call leads to its root, the root to the call before the   *)
(* innermost, each of those to the one before it, the outermost to none    *)
(* (the note at Scheduler.lua:64-74); no other coroutine has an entry.     *)
Entry(r, i) ==
  LET n == Len(stack[r]) IN
  IF i = n THEN r ELSE IF i = 1 THEN NIL ELSE stack[r][i - 1]

ChainKept ==
  /\ \A r \in roots :
       LET n == Len(stack[r]) IN
       /\ PCallMap[r] = IF n < 2 THEN NIL ELSE stack[r][n - 1]
       /\ \A i \in 1..n : PCallMap[stack[r][i]] = Entry(r, i)
  /\ \A c \in Coroutine \ Busy : PCallMap[c] = NIL

(* checkcurrent() finds the routine of the code that calls it, however     *)
(* many protected calls it is in and however the calls of routines were    *)
(* interleaved: the assertion at Scheduler.lua:119 never fails.            *)
CheckCurrent ==
  \A r \in roots : Innermost(r) = r \/ PCallMap[Innermost(r)] = r
=============================================================================
