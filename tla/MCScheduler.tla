---------------------------- MODULE MCScheduler ----------------------------
(* Three routines: one executing, one before it and one after it in the    *)
(* list; the third is also the one created by start() or kept asleep.      *)
EXTENDS Scheduler
CONSTANTS a, b, c
MCRoutine == {a, b, c}
MCTrapped == {c}
MCTwo == {a, b}
NoTrap == {}
MCDelays == {1, 2}
MCDelayZeroOne == {0, 1}
NoLimits == {}
MCLimits == {0}
=============================================================================
