----------------------------- MODULE MCSpStore -----------------------------
(***************************************************************************)
(* Instances of SpStore for TLC: two accepts and a revocation; two status  *)
(* list positions, so that two grants can draw the same one and can draw   *)
(* different ones.                                                         *)
(***************************************************************************)
EXTENDS SpStore

CONSTANTS a1, a2, r1
=============================================================================
