--------------------------- MODULE MCIOScheduler ---------------------------
(* Two routines and two sides of sockets: each routine on a side of its    *)
(* own, one selecting on both, and one that manages the other.             *)
EXTENDS IOScheduler
CONSTANTS a, b, r1, w1
MCRoutine == {a, b}
NoTrap == {}
MCSide == {r1, w1}
MCOneSide == {r1}
MCDelays == {1}
NoDelay == {}
NoLimits == {}
MCTimeouts == {NIL, 0, 1}
MCTimed == {NIL, 1}
=============================================================================
