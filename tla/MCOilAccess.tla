---------------------------- MODULE MCOilAccess -----------------------------
(* Two C++ classes with a method of the same name, and an object of each. *)
EXTENDS OilAccess, TLC

CONSTANTS c1, c2, a1, a2

MCMethod == (c1 :> {"run", "stop"}) @@ (c2 :> {"run"})
MCClassOf == (a1 :> c1) @@ (a2 :> c2)

=============================================================================
