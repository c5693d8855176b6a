--------------------------- MODULE MCAuthSessions ---------------------------
(***************************************************************************)
(* Instances of AuthSessions for TLC.  No action and no property names a    *)
(* particular user or request, so both sets are symmetric in the runs of   *)
(* invariants and action properties; the run of a liveness property does   *)
(* not use the symmetry.                                                   *)
(***************************************************************************)
EXTENDS AuthSessionsInv, TLC

Symmetry == Permutations(User) \cup Permutations(Request)
=============================================================================
