------------------------------- MODULE MCRbac -------------------------------
(***************************************************************************)
(* An instance of Rbac for TLC: an administrator, a user with a group and   *)
(* the permission of one route, and a handful of calls.                     *)
(***************************************************************************)
EXTENDS Rbac, TLC

CONSTANTS ana, root, g, p, w, r1, r2, r3

View == <<"view", "permission">>
Drop == <<"delete", "permission">>
MCStandard == <<View, Drop>>
MCOperated ==
  {<<<<ana, g>>, TRUE>>, <<<<g, p>>, TRUE>>, <<<<ana, p>>, FALSE>>}

MCStart ==
  {[i \in Row |-> IF i = g THEN [model |-> "group", key |-> w]
                          ELSE [model |-> "permission", key |-> k]] : k \in {View, w}}

Route(u, k, m, t, b) == [kind |-> k, user |-> u, model |-> m, target |-> t, body |-> b]

Seed == Route(None, "seed", None, None, <<>>)

Calls ==
  {Route(ana, "retrieve", "permission", p, <<>>),
   Route(ana, "leave", None, None, [groups |-> "empty", user_permissions |-> "empty"]),
   Route(root, "list", "group", None, <<>>),
   Route(root, "delete", "permission", p, <<>>),
   Route(root, "delete", "group", g, <<>>),
   Route(root, "update", "permission", p, [key |-> View]),
   Route(root, "update", "permission", p, [key |-> Drop]),
   Route(root, "update", "group", g, [permissions |-> "empty"]),
   Route(root, "create", "permission", None, [key |-> Drop, name |-> "given"]),
   Route(root, "create", "group", None, [key |-> w, permissions |-> "empty"]),
   Seed}

MCCall == [r \in Request |-> IF r = r3 THEN {Seed} ELSE Calls]

Symmetry == Permutations({r1, r2})
=============================================================================
