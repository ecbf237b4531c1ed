---------------------------- MODULE MCOilClient -----------------------------
(***************************************************************************)
(* Three requests: two of them of one thread, which may have made the second  *)
(* before it waits for the first.                                           *)
(***************************************************************************)
EXTENDS OilClient

CONSTANTS t1, t2

MCCalls == (t1 :> 2) @@ (t2 :> 1)
=============================================================================
