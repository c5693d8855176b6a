---------------------------- MODULE TokenLedger ----------------------------
(***************************************************************************)
(* What app/modules/auth/services.py promises of refresh tokens, with no   *)
(* index, marker or request in sight: a token is issued once, to one user; *)
(* it can be retired, together only with tokens of the same user, or lapse *)
(* as time passes; and it never comes back.                                *)
(***************************************************************************)
EXTENDS Integers

CONSTANTS Token, User, None

VARIABLES
  now,    \* the clock
  owner,  \* the user a token was issued to, None before that
  live    \* the tokens that can be rotated

vars == <<now, owner, live>>

TypeOK ==
  /\ now \in Nat
  /\ owner \in [Token -> User \cup {None}]
  /\ live \subseteq {t \in Token : owner[t] # None}

Init ==
  /\ now = 0
  /\ owner = [t \in Token |-> None]
  /\ live = {}

Issue(t, u) ==
  /\ owner[t] = None
  /\ owner' = [owner EXCEPT ![t] = u]
  /\ live' = live \cup {t}
  /\ UNCHANGED now

Retire(u) ==
  /\ live' \subseteq live
  /\ \A t \in live \ live' : owner[t] = u
  /\ UNCHANGED <<now, owner>>

Lapse ==
  /\ now' > now
  /\ live' \subseteq live
  /\ UNCHANGED owner

Next ==
  \/ \E t \in Token, u \in User : Issue(t, u)
  \/ \E u \in User : Retire(u)
  \/ Lapse

Spec == Init /\ [][Next]_vars
=============================================================================
