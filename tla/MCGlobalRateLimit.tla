------------------------- MODULE MCGlobalRateLimit -------------------------
(***************************************************************************)
(* Instances of GlobalRateLimit for TLC.                                   *)
(***************************************************************************)
EXTENDS GlobalRateLimit, TLC

Symmetry == Permutations(Ip)
=============================================================================
