----------------------------- MODULE MCAccounts -----------------------------
(***************************************************************************)
(* Instances of Accounts for TLC: two mailboxes, one of them written in two *)
(* ways, and bodies that change one column, two columns, a column a client *)
(* must not set, or a column to null.                                      *)
(***************************************************************************)
EXTENDS Accounts, TLC

CONSTANTS AliceUpper, Alice, Bob, Ana, Bea

MCNormal == [a \in Address |-> IF a = AliceUpper THEN Alice ELSE a]

MCSignup ==
  {[email |-> AliceUpper, full_name |-> Ana], [email |-> Alice, full_name |-> Ana],
   [email |-> Bob, full_name |-> Bea]}

MCUpdate ==
  {[email |-> AliceUpper], [email |-> Bob, full_name |-> Ana],
   [full_name |-> Bea, is_staff |-> TRUE],
   [password |-> "given"], [full_name |-> None, password |-> None]}

Symmetry == Permutations(Request)
=============================================================================
