-------------------------- MODULE AuthSessionsInv --------------------------
(***************************************************************************)
(* The inductive invariants of AuthSessions, in named parts: what makes    *)
(* TypeOK and the safety properties inductive.  TLC checks them; the       *)
(* proofs are in AuthSessions_proofs and AuthSessionsIndex_proofs.         *)
(***************************************************************************)
EXTENDS AuthSessions

Creating == {"set", "sadd", "expire", "mint"}
Rotating == {"get", "get_user", "del", "srem", "set_used", "get_used"}
Revoking == {"smembers", "del_keys", "del_index", "stamp", "set_mark"}
Bearing == {"decode", "get_blacklist", "get_mark", "get_current"}
LoggingOut == {"decode_again", "lookup", "lo_srem", "lo_del", "set_blacklist"}

\* Labels at which user[r] is an id read from Redis or the database.
UserKnown ==
  {"authenticate", "get_user", "del", "srem", "set_used", "lo_srem", "lo_del"}
    \cup Creating \cup Revoking

\* Labels past the DEL of rotate_session.
Rotated == {"srem", "set_used"} \cup Creating

\* A request is at a label of its endpoint, with the inputs of its endpoint,
\* and knows the user where the code uses it.
WellFormedAt(r) ==
  /\ pc[r] = "new" <=> kind[r] = None
  /\ pc[r] = "new" => outcome[r] = None
  /\ pc[r] = "authenticate" => kind[r] = "login"
  /\ pc[r] \in Creating => kind[r] \in {"login", "refresh"}
  /\ pc[r] \in Rotating \cup Revoking => kind[r] = "refresh"
  /\ pc[r] \in Bearing => kind[r] \in {"me", "logout"}
  /\ pc[r] \in LoggingOut => kind[r] = "logout"
  /\ kind[r] = "login" => user[r] \in User
  /\ kind[r] \in {"refresh", "logout"} => rt[r] \in Request /\ Delivered(rt[r])
  /\ kind[r] \in {"me", "logout"} => at[r] \in Request /\ Delivered(at[r])
  /\ kind[r] \notin {"refresh", "logout"} => rt[r] = None
  /\ kind[r] \notin {"me", "logout"} => at[r] = None
  /\ pc[r] \in UserKnown => user[r] \in User
  /\ outcome[r] = "revoked" => kind[r] = "refresh" /\ user[r] \in User

WellFormed == \A r \in Request : WellFormedAt(r)

\* Tokens appear with the steps that write them, and name their user.
TokensOfRequestAt(t) ==
  /\ Delivered(t) => pc[t] = "done" /\ outcome[t] = "ok"
                     /\ kind[t] \in {"login", "refresh"}
  /\ pc[t] = "done" => outcome[t] # None
  /\ refresh[t] # None => pc[t] \in {"sadd", "expire", "mint"} \/ Delivered(t)
  /\ used[t] # None => Delivered(t)
  /\ refresh[t] # None => refresh[t].user = user[t]
  /\ used[t] # None => used[t].user = user[t]
  /\ Delivered(t) => access[t].sub = user[t]
  /\ pc[t] \in {"get_user", "del", "lo_srem", "lo_del"} \cup Rotated /\ kind[t] # "login"
       => user[t] = user[rt[t]]

TokensOfRequest == \A t \in Request : TokensOfRequestAt(t)

\* Only answered requests, and users that stay disabled, are "before".
BeforeStable ==
  \A r \in Request :
    /\ before[r] \cap Request \subseteq Answered
    /\ \A u \in before[r] \cap User : users[u] # "active"

\* A token that was deleted by rotation or logout stays dead, and leaves its
\* replay marker behind when it was rotated.
SpentIsDeadAt(r) ==
  /\ kind[r] = "refresh" /\ (pc[r] \in Rotated \/ outcome[r] = "ok")
       => ~Live(refresh[rt[r]])
  /\ kind[r] = "logout" /\ (pc[r] = "set_blacklist" \/ outcome[r] = "ok")
       => ~Live(refresh[rt[r]])
  /\ kind[r] = "refresh" /\ (pc[r] \in Creating \/ outcome[r] = "ok")
       => used[rt[r]] # None

SpentIsDead == \A r \in Request : SpentIsDeadAt(r)

\* A request that presents a spent token does not get past GET refresh:{jti}.
SpentIsStopped ==
  \A r, s \in Request :
    r \in before[s] /\ Spent(r, rt[s])
      => /\ pc[s] \notin {"get_user", "del"} \cup Rotated
         /\ ~Is(s, "refresh", "ok")

\* The marker of an answered revocation lasts as long as the tokens it refuses.
MarkLasts ==
  /\ \A a \in Request : Delivered(a) => access[a].exp <= access[a].iat + AccessTTL
  /\ \A v \in Request :
       /\ ts[v] <= now
       /\ Is(v, "refresh", "revoked")
            => mark[user[v]] # None /\ mark[user[v]].exp >= ts[v] + MarkTTL

\* The blacklist entry of a logout covers the life of its access token but
\* for less than a second.
BlacklistLastsAt(l) ==
  /\ pc[l] \in LoggingOut \ {"decode_again"}
       => now + ttl[l] > access[at[l]].exp - Second
  /\ Is(l, "logout", "ok")
       => \/ blacklist[at[l]] > access[at[l]].exp - Second
          \/ now > access[at[l]].exp - Second

BlacklistLasts == \A l \in Request : BlacklistLastsAt(l)

\* A request for a user disabled before it arrived stops at the status check.
DisabledIsStopped ==
  \A r \in Request :
    pc[r] # "new" /\ Subject(r) \in before[r]
      => /\ pc[r] \notin {"del"} \cup Rotated \cup LoggingOut
         /\ outcome[r] # "ok"

\* create_session has added the token of request t to the index of its user.
Filed(t) == pc[t] \in {"expire", "mint"} \/ Delivered(t)

\* Revoke-all collects tokens of one user.
IndexOfUser ==
  /\ \A u \in User : \A t \in sessions[u].members : user[t] = u /\ Filed(t)
  /\ \A v \in Request :
       /\ \A t \in jtis[v] : user[t] = user[v] /\ Filed(t)
       /\ pc[v] \notin {"del_keys", "del_index", "stamp", "set_mark", "done"}
            => jtis[v] = {}

IInv ==
  /\ TypeOK /\ WellFormed /\ TokensOfRequest /\ BeforeStable
  /\ SpentIsDead /\ SpentIsStopped
  /\ MarkLasts /\ BlacklistLasts /\ LoggedOutRefused /\ DisabledIsStopped
  /\ IndexOfUser

-----------------------------------------------------------------------------
(***************************************************************************)
(* What makes the properties of the index and of the revoke-all marker     *)
(* inductive.                                                              *)
(***************************************************************************)
\* EXPIRE comes after SET and SADD and counts from a later time, so an index
\* that has been through the EXPIRE of a token outlasts the token.
IndexLasts ==
  \A t \in Request :
    /\ refresh[t] # None => refresh[t].exp <= now + RefreshTTL
    /\ (pc[t] = "mint" \/ Delivered(t)) /\ refresh[t] # None
         /\ t \in sessions[user[t]].members
         => \/ sessions[user[t]].exp = None
            \/ sessions[user[t]].exp >= refresh[t].exp

\* Revocations that do not overlap read the clock in the order of their answers.
RevokedInOrder ==
  \A v, w \in Request :
    /\ v \in before[w] /\ Is(v, "refresh", "revoked")
    /\ pc[w] = "set_mark" \/ outcome[w] = "revoked"
    => ts[v] <= ts[w]

MarkOfOverlap ==
  \A v \in Request :
    LET m == mark[user[v]] IN
    Is(v, "refresh", "revoked") /\ m # None /\ m.ts < ts[v] =>
      \E w \in Request :
        /\ Is(w, "refresh", "revoked") /\ user[w] = user[v]
        /\ ts[w] = m.ts /\ Overlap(v, w)

\* Revoke-all kills what it collected, and collects every token in the index
\* that was answered before it arrived.
Collected ==
  \A v \in Request :
    /\ pc[v] # "del_keys" => \A t \in jtis[v] : ~Live(refresh[t])
    /\ pc[v] \in {"del_keys", "del_index"} =>
         \A t \in before[v] \cap Members(user[v]) : t \in jtis[v]

IndexInv == IndexLasts /\ RevokedInOrder /\ MarkOfOverlap /\ Collected

\* The index does not expire between the SADD and the EXPIRE of a token.
IndexInTime ==
  \A t \in Request :
    pc[t] = "expire" /\ outcome[t] = None /\ t \in sessions[user[t]].members =>
      sessions[user[t]].exp = None \/ now < sessions[user[t]].exp

\* The token of a request that is, or may still be, delivered.
Promised(t) == Delivered(t) \/ (pc[t] \in {"expire", "mint"} /\ outcome[t] = None)

Explained(t) ==
  LostToRevokeAll(t) \/ \E l \in Request : rt[l] = t /\ pc[l] = "lo_del"

\* As long as IndexInTime holds.
OrphansKnown ==
  \A t \in Request :
    Promised(t) /\ Live(refresh[t]) /\ t \notin Members(user[t]) => Explained(t)
=============================================================================
