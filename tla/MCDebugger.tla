---------------------------- MODULE MCDebugger -----------------------------
(* The main program and two threads, which may create each other; a file    *)
(* that has its source, debugger.lua, and one that has none; a breakpoint.  *)
EXTENDS Debugger, FiniteSets
MCThread == {"co", "inner"}
MCFile == {"debugger", "prog"}
MCNoSource == {"prog"}
MCRoot == {"project"}
MCPlace == {<<"prog", 1>>}
MCCounts == {1}
MCMaxDepth == [t \in Threads |-> IF t = "co" THEN 4 ELSE 2]

Concerns == {"threads", "files", "points"}

\* Whether a second thread, a directory of the project or a breakpoint is there.
Present(concern) ==
    \/ concern = "threads" /\ created["inner"] # "no"
    \/ concern = "files" /\ root # NoRoot
    \/ concern = "points" /\ \E place \in Place : breakpoints[place] # NONE

\* Bound: at most one of these at a time.
OneConcern == Cardinality({concern \in Concerns : Present(concern)}) <= 1
=============================================================================
