--------------------------- MODULE MCLoginLimiter ---------------------------
(***************************************************************************)
(* Instances of LoginLimiter for TLC.  The run of a liveness property does *)
(* not use the symmetry.                                                   *)
(***************************************************************************)
EXTENDS LoginLimiter, TLC

Symmetry == Permutations(Ip) \cup Permutations(Request)
=============================================================================
