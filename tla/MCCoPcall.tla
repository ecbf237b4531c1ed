----------------------------- MODULE MCCoPcall -----------------------------
(* Six coroutines: a stack of four calls in one routine, one more than the *)
(* depth at which every entry of the list is of its own kind, and a second *)
(* routine beside it.                                                      *)
EXTENDS CoPcall
CONSTANTS c1, c2, c3, c4, c5, c6
MCCoroutine == {c1, c2, c3, c4, c5, c6}
=============================================================================
