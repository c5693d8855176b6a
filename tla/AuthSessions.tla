---------------------------- MODULE AuthSessions ----------------------------
(***************************************************************************)
(* Sessions of the authentication module: the refresh tokens, the session  *)
(* index, the replay markers, the revoke-all marker and the blacklist that *)
(* app/modules/auth/services.py keeps in Redis, the access tokens that     *)
(* app/core/security.py signs, and the check get_current_user makes.       *)
(*                                                                         *)
(* An element of Request is one HTTP request, handled once.  Handlers run  *)
(* concurrently and every await is a point where others run, so one Redis  *)
(* command or one query is one action.  A request draws at most one uuid4  *)
(* for a refresh token and one for an access token: the tokens are named   *)
(* by the request that created them.                                       *)
(***************************************************************************)
EXTENDS Integers, FiniteSets

CONSTANTS
  User,        \* rows of the users table, by id
  Request,     \* HTTP requests
  Kinds,       \* the endpoints that are called
  Admin,       \* the statuses an operator may give to a user in the database
  None,        \* nil in Redis, None in Python
  AccessTTL,   \* ACCESS_TOKEN_EXPIRE_MINUTES, in ticks
  RefreshTTL,  \* REFRESH_TOKEN_EXPIRE_DAYS * 86400, in ticks
  UsedTTL,     \* the 300 seconds of the replay audit, in ticks
  MarkTTL,     \* the 86400 seconds of user_revoke_all, in ticks
  Second,      \* ticks in a second
  MaxTime,     \* bound on the clock
  MayFail      \* whether a Redis or database call may raise

Key == [user: User, exp: Nat]
Mark == [ts: Nat, exp: Nat]
Jwt == [sub: User, iat: Nat, exp: Nat]
Index == [members: SUBSET Request, exp: Nat \cup {None}]

Endpoints == {"login", "refresh", "logout", "me"}
Outcomes == {"ok", "refused", "revoked", "forbidden", "error"}

ASSUME ConstantsAssumption ==
  /\ Kinds \subseteq Endpoints
  /\ Admin \subseteq {"inactive", "deleted"}
  /\ {AccessTTL, UsedTTL, MarkTTL, MaxTime} \subseteq Nat
  /\ {RefreshTTL, Second} \subseteq Nat \ {0}
  /\ MayFail \in BOOLEAN
  /\ None \notin User \cup Request \cup Nat \cup Key \cup Mark \cup Jwt
  /\ None \notin Endpoints \cup Outcomes
  /\ User \cap Request = {}

\* The marker is written for a hard-coded day; the lifetime of an access token
\* is a setting.  The default of 15 minutes satisfies this.
ASSUME MarkCoversAccess == AccessTTL <= MarkTTL

VARIABLES
  now,        \* the clock, in ticks
  users,      \* status of each row of the users table
  refresh,    \* refresh:{jti}
  sessions,   \* user_sessions:{user_id}
  used,       \* used_refresh:{jti}
  mark,       \* user_revoke_all:{user_id}
  blacklist,  \* blacklist:{jti}, as the time it expires
  access,     \* access tokens delivered to clients
  pc,         \* where each request is, or where it failed
  kind,       \* its endpoint
  rt,         \* the refresh token it presents
  at,         \* the access token it presents
  user,       \* the user it acts for, once known (user_id)
  jtis,       \* active_jtis read by revoke_all_sessions
  ts,         \* timestamp taken by revoke_all_sessions
  ttl,        \* expires_in computed by Logout
  outcome,    \* the response
  before      \* history: requests answered and users disabled when it arrived

keys == <<refresh, sessions, used, mark, blacklist>>
inputs == <<kind, rt, at, before>>
locals == <<user, jtis, ts, ttl>>
vars == <<now, users, keys, access, pc, inputs, locals, outcome>>

Labels ==
  {"new", "done",
   "authenticate", "set", "sadd", "expire", "mint",
   "get", "get_user", "del", "srem", "set_used",
   "get_used", "smembers", "del_keys", "del_index", "stamp", "set_mark",
   "decode", "get_blacklist", "get_mark", "get_current",
   "decode_again", "lookup", "lo_srem", "lo_del", "set_blacklist"}

TypeOK ==
  /\ now \in Nat
  /\ users \in [User -> {"active", "inactive", "deleted"}]
  /\ refresh \in [Request -> Key \cup {None}]
  /\ sessions \in [User -> Index]
  /\ used \in [Request -> Key \cup {None}]
  /\ mark \in [User -> Mark \cup {None}]
  /\ blacklist \in [Request -> Nat]
  /\ access \in [Request -> Jwt \cup {None}]
  /\ pc \in [Request -> Labels]
  /\ kind \in [Request -> Kinds \cup {None}]
  /\ rt \in [Request -> Request \cup {None}]
  /\ at \in [Request -> Request \cup {None}]
  /\ user \in [Request -> User \cup {None}]
  /\ jtis \in [Request -> SUBSET Request]
  /\ ts \in [Request -> Nat]
  /\ ttl \in [Request -> Nat]
  /\ outcome \in [Request -> Outcomes \cup {None}]
  /\ before \in [Request -> SUBSET (Request \cup User)]

Init ==
  /\ now = 0
  /\ users = [u \in User |-> "active"]
  /\ refresh = [t \in Request |-> None]
  /\ sessions = [u \in User |-> [members |-> {}, exp |-> None]]
  /\ used = [t \in Request |-> None]
  /\ mark = [u \in User |-> None]
  /\ blacklist = [a \in Request |-> 0]
  /\ access = [a \in Request |-> None]
  /\ pc = [r \in Request |-> "new"]
  /\ kind = [r \in Request |-> None]
  /\ rt = [r \in Request |-> None]
  /\ at = [r \in Request |-> None]
  /\ user = [r \in Request |-> None]
  /\ jtis = [r \in Request |-> {}]
  /\ ts = [r \in Request |-> 0]
  /\ ttl = [r \in Request |-> 0]
  /\ outcome = [r \in Request |-> None]
  /\ before = [r \in Request |-> {}]

-----------------------------------------------------------------------------
(***************************************************************************)
(* Redis: a key is gone at its expiry, and a set is gone when it is empty. *)
(***************************************************************************)
Live(k) == k # None /\ now < k.exp

Get(k) == IF Live(k) THEN k.user ELSE None

Members(u) ==
  IF sessions[u].exp = None \/ now < sessions[u].exp
    THEN sessions[u].members ELSE {}

\* SADD: keeps the expiry of an existing set, a new one has none.
SAdd(u, t) ==
  [members |-> Members(u) \cup {t},
   exp |-> IF Members(u) = {} THEN None ELSE sessions[u].exp]

\* SREM: removing the last member removes the set and its expiry.
SRem(u, t) ==
  IF Members(u) \ {t} = {} THEN [members |-> {}, exp |-> None]
  ELSE [members |-> Members(u) \ {t}, exp |-> sessions[u].exp]

\* EXPIRE has no effect on a set that does not exist.
Expire(u, n) ==
  IF Members(u) = {} THEN [members |-> {}, exp |-> None]
  ELSE [members |-> Members(u), exp |-> now + n]

\* exp is encoded as a whole number of seconds, rounded down.
WholeSecond(n) == n - (n % Second)

-----------------------------------------------------------------------------
(***************************************************************************)
(* Control of a request.                                                   *)
(***************************************************************************)
Goto(r, l) == pc' = [pc EXCEPT ![r] = l] /\ UNCHANGED outcome

Answer(r, o) ==
  /\ pc' = [pc EXCEPT ![r] = "done"]
  /\ outcome' = [outcome EXCEPT ![r] = o]

Answered == {r \in Request : outcome[r] # None}

\* The request arrives at endpoint k; from here on it is handled.
Arrive(r, k, l) ==
  /\ pc[r] = "new" /\ k \in Kinds
  /\ Goto(r, l)
  /\ kind' = [kind EXCEPT ![r] = k]
  /\ before' = [before EXCEPT ![r] =
                  Answered \cup {u \in User : users[u] # "active"}]
  /\ UNCHANGED <<now, users, keys, access, jtis, ts, ttl>>

ArriveLogin(r, u) ==
  /\ Arrive(r, "login", "authenticate")
  /\ user' = [user EXCEPT ![r] = u]
  /\ UNCHANGED <<rt, at>>

\* A client presents refresh tokens that a response gave it: the refresh token
\* and the access token of a request are delivered together.
ArriveRefresh(r, t) ==
  /\ access[t] # None
  /\ Arrive(r, "refresh", "get")
  /\ rt' = [rt EXCEPT ![r] = t]
  /\ UNCHANGED <<at, user>>

ArriveMe(r, a) ==
  /\ access[a] # None
  /\ Arrive(r, "me", "decode")
  /\ at' = [at EXCEPT ![r] = a]
  /\ UNCHANGED <<rt, user>>

ArriveLogout(r, a, t) ==
  /\ access[a] # None /\ access[t] # None
  /\ Arrive(r, "logout", "decode")
  /\ at' = [at EXCEPT ![r] = a]
  /\ rt' = [rt EXCEPT ![r] = t]
  /\ UNCHANGED user

\* What every step of a request leaves alone.
Handling(r, l) ==
  /\ pc[r] = l /\ outcome[r] = None
  /\ UNCHANGED <<now, users, inputs>>

-----------------------------------------------------------------------------
(***************************************************************************)
(* Faulty variants of steps defined below, each the trace of a plausible   *)
(* slip in the code.  The runs must tell every one of them from the step.  *)
(***************************************************************************)
\* rotate_session forgets to delete the token.
LoadUserKeepingToken(r) ==
  /\ Handling(r, "get_user")
  /\ IF users[user[r]] = "active" THEN Goto(r, "srem") ELSE Answer(r, "refused")
  /\ UNCHANGED <<keys, access, locals>>

\* rotate_session checks that the row exists, not that it is active.
LoadUserAnyStatus(r) ==
  /\ Handling(r, "get_user")
  /\ IF users[user[r]] # "deleted" THEN Goto(r, "del") ELSE Answer(r, "refused")
  /\ UNCHANGED <<keys, access, locals>>

\* rotate_session deletes the index instead of one member of it.
RemoveWholeIndex(r) ==
  /\ Handling(r, "srem")
  /\ sessions' = [sessions EXCEPT ![user[r]] = [members |-> {}, exp |-> None]]
  /\ Goto(r, "set_used")
  /\ UNCHANGED <<refresh, used, mark, blacklist, access, locals>>

\* rotate_session leaves no replay marker.
RemoveWithoutTrace(r) ==
  /\ Handling(r, "srem")
  /\ sessions' = [sessions EXCEPT ![user[r]] = SRem(user[r], rt[r])]
  /\ Goto(r, "set")
  /\ UNCHANGED <<refresh, used, mark, blacklist, access, locals>>

\* The replay marker holds the token instead of the user's id.
SetUsedToToken(r) ==
  /\ Handling(r, "set_used")
  /\ used' = [used EXCEPT ![rt[r]] = [user |-> rt[r], exp |-> now + UsedTTL]]
  /\ Goto(r, "set")
  /\ UNCHANGED <<refresh, sessions, mark, blacklist, access, locals>>

\* EXPIRE ... NX: a later session does not extend the index.
ExpireIndexOnce(r) ==
  /\ Handling(r, "expire")
  /\ sessions' = IF sessions[user[r]].exp = None
       THEN [sessions EXCEPT ![user[r]] = Expire(user[r], RefreshTTL)]
       ELSE sessions
  /\ Goto(r, "mint")
  /\ UNCHANGED <<refresh, used, mark, blacklist, access, locals>>

\* revoke_all_sessions collects the tokens of every user.
ReadEveryIndex(r) ==
  /\ Handling(r, "smembers")
  /\ jtis' = [jtis EXCEPT ![r] = UNION {Members(u) : u \in User}]
  /\ Goto(r, "del_keys")
  /\ UNCHANGED <<keys, access, user, ts, ttl>>

\* The revoke-all marker lives as long as the replay marker.
SetBriefMark(r) ==
  /\ Handling(r, "set_mark")
  /\ mark' = [mark EXCEPT ![user[r]] = [ts |-> ts[r], exp |-> now + UsedTTL]]
  /\ Answer(r, "revoked")
  /\ UNCHANGED <<refresh, sessions, used, blacklist, access, locals>>

\* The revoke-all marker is set only if there is none (SET NX).
SetMarkOnce(r) ==
  /\ Handling(r, "set_mark")
  /\ mark' = IF Live(mark[user[r]]) THEN mark
              ELSE [mark EXCEPT ![user[r]] = [ts |-> ts[r], exp |-> now + MarkTTL]]
  /\ Answer(r, "revoked")
  /\ UNCHANGED <<refresh, sessions, used, blacklist, access, locals>>

\* The revoke-all marker is rounded down to a whole second.
SetRoundedMark(r) ==
  /\ Handling(r, "set_mark")
  /\ mark' = [mark EXCEPT ![user[r]] =
                [ts |-> WholeSecond(ts[r]), exp |-> now + MarkTTL]]
  /\ Answer(r, "revoked")
  /\ UNCHANGED <<refresh, sessions, used, blacklist, access, locals>>

\* expires_in > 1 in revoke_session.
BlacklistLongLived(r) ==
  /\ Handling(r, "set_blacklist")
  /\ blacklist' = IF ttl[r] > Second
                    THEN [blacklist EXCEPT ![at[r]] = now + ttl[r]]
                    ELSE blacklist
  /\ Answer(r, "ok")
  /\ UNCHANGED <<refresh, sessions, used, mark, access, locals>>

-----------------------------------------------------------------------------
(***************************************************************************)
(* services.authenticate, as far as sessions depend on it: the credentials *)
(* are right, so only the status of the row decides.                       *)
(***************************************************************************)
Authenticate(r) ==
  /\ Handling(r, "authenticate")
  /\ CASE users[user[r]] = "active" -> Goto(r, "set")
       [] users[user[r]] = "inactive" -> Answer(r, "forbidden")
       [] OTHER -> Answer(r, "refused")
  /\ UNCHANGED <<keys, access, locals>>

(***************************************************************************)
(* services.create_session: the token first, then the index.               *)
(***************************************************************************)
SetToken(r) ==
  /\ Handling(r, "set")
  /\ refresh' = [refresh EXCEPT ![r] = [user |-> user[r], exp |-> now + RefreshTTL]]
  /\ Goto(r, "sadd")
  /\ UNCHANGED <<sessions, used, mark, blacklist, access, locals>>

AddToIndex(r) ==
  /\ Handling(r, "sadd")
  /\ sessions' = [sessions EXCEPT ![user[r]] = SAdd(user[r], r)]
  /\ Goto(r, "expire")
  /\ UNCHANGED <<refresh, used, mark, blacklist, access, locals>>

ExpireIndex(r) ==
  /\ Handling(r, "expire")
  /\ sessions' = [sessions EXCEPT ![user[r]] = Expire(user[r], RefreshTTL)]
  /\ Goto(r, "mint")
  /\ UNCHANGED <<refresh, used, mark, blacklist, access, locals>>

\* security.create_access_token, and the response that delivers both tokens.
Mint(r) ==
  /\ Handling(r, "mint")
  /\ access' = [access EXCEPT ![r] =
       [sub |-> user[r], iat |-> now, exp |-> WholeSecond(now + AccessTTL)]]
  /\ Answer(r, "ok")
  /\ UNCHANGED <<keys, locals>>

(***************************************************************************)
(* services.rotate_session.                                                *)
(***************************************************************************)
GetToken(r) ==
  LET u == Get(refresh[rt[r]]) IN
  /\ Handling(r, "get")
  /\ user' = [user EXCEPT ![r] = u]
  /\ Goto(r, IF u = None THEN "get_used" ELSE "get_user")
  /\ UNCHANGED <<keys, access, jtis, ts, ttl>>

LoadUser(r) ==
  /\ Handling(r, "get_user")
  /\ IF users[user[r]] = "active" THEN Goto(r, "del") ELSE Answer(r, "refused")
  /\ UNCHANGED <<keys, access, locals>>

DeleteToken(r) ==
  /\ Handling(r, "del")
  /\ refresh' = [refresh EXCEPT ![rt[r]] = None]
  /\ Goto(r, "srem")
  /\ UNCHANGED <<sessions, used, mark, blacklist, access, locals>>

RemoveFromIndex(r) ==
  /\ Handling(r, "srem")
  /\ sessions' = [sessions EXCEPT ![user[r]] = SRem(user[r], rt[r])]
  /\ Goto(r, "set_used")
  /\ UNCHANGED <<refresh, used, mark, blacklist, access, locals>>

SetUsed(r) ==
  /\ Handling(r, "set_used")
  /\ used' = [used EXCEPT ![rt[r]] = [user |-> user[r], exp |-> now + UsedTTL]]
  /\ Goto(r, "set")
  /\ UNCHANGED <<refresh, sessions, mark, blacklist, access, locals>>

\* The token is unknown: was it rotated in the last UsedTTL?
GetUsed(r) ==
  LET u == Get(used[rt[r]]) IN
  /\ Handling(r, "get_used")
  /\ user' = [user EXCEPT ![r] = u]
  /\ IF u = None THEN Answer(r, "refused") ELSE Goto(r, "smembers")
  /\ UNCHANGED <<keys, access, jtis, ts, ttl>>

(***************************************************************************)
(* services.revoke_all_sessions, called on a replay.                       *)
(***************************************************************************)
ReadIndex(r) ==
  /\ Handling(r, "smembers")
  /\ jtis' = [jtis EXCEPT ![r] = Members(user[r])]
  /\ Goto(r, IF Members(user[r]) = {} THEN "del_index" ELSE "del_keys")
  /\ UNCHANGED <<keys, access, user, ts, ttl>>

DeleteTokens(r) ==
  /\ Handling(r, "del_keys")
  /\ refresh' = [t \in Request |-> IF t \in jtis[r] THEN None ELSE refresh[t]]
  /\ Goto(r, "del_index")
  /\ UNCHANGED <<sessions, used, mark, blacklist, access, locals>>

DeleteIndex(r) ==
  /\ Handling(r, "del_index")
  /\ sessions' = [sessions EXCEPT ![user[r]] = [members |-> {}, exp |-> None]]
  /\ Goto(r, "stamp")
  /\ UNCHANGED <<refresh, used, mark, blacklist, access, locals>>

\* The timestamp is read before the command that stores it is sent.
Stamp(r) ==
  /\ Handling(r, "stamp")
  /\ ts' = [ts EXCEPT ![r] = now]
  /\ Goto(r, "set_mark")
  /\ UNCHANGED <<keys, access, user, jtis, ttl>>

SetMark(r) ==
  /\ Handling(r, "set_mark")
  /\ mark' = [mark EXCEPT ![user[r]] = [ts |-> ts[r], exp |-> now + MarkTTL]]
  /\ Answer(r, "revoked")
  /\ UNCHANGED <<refresh, sessions, used, blacklist, access, locals>>

(***************************************************************************)
(* get_current_user, run before the handlers of GET /me and POST /logout.  *)
(***************************************************************************)
Decode(r) ==
  /\ Handling(r, "decode")
  /\ IF now < access[at[r]].exp THEN Goto(r, "get_blacklist") ELSE Answer(r, "refused")
  /\ UNCHANGED <<keys, access, locals>>

CheckBlacklist(r) ==
  /\ Handling(r, "get_blacklist")
  /\ IF now < blacklist[at[r]] THEN Answer(r, "refused") ELSE Goto(r, "get_mark")
  /\ UNCHANGED <<keys, access, locals>>

MarkRefuses(a) ==
  LET m == mark[access[a].sub] IN Live(m) /\ access[a].iat < m.ts

CheckMark(r) ==
  /\ Handling(r, "get_mark")
  /\ IF MarkRefuses(at[r]) THEN Answer(r, "refused") ELSE Goto(r, "get_current")
  /\ UNCHANGED <<keys, access, locals>>

\* A row that is gone makes user.is_active raise AttributeError.
CheckActive(r) ==
  LET status == users[access[at[r]].sub] IN
  /\ Handling(r, "get_current")
  /\ CASE status = "deleted" -> Answer(r, "error")
       [] status = "inactive" -> Answer(r, "forbidden")
       [] OTHER -> IF kind[r] = "me" THEN Answer(r, "ok") ELSE Goto(r, "decode_again")
  /\ UNCHANGED <<keys, access, locals>>

(***************************************************************************)
(* Logout and services.revoke_session: the index first, then the token.    *)
(* A token that has expired since the check is decoded as {}.              *)
(***************************************************************************)
DecodeAgain(r) ==
  LET exp == access[at[r]].exp IN
  /\ Handling(r, "decode_again")
  /\ ttl' = [ttl EXCEPT ![r] = IF now < exp THEN WholeSecond(exp - now) ELSE 0]
  /\ Goto(r, "lookup")
  /\ UNCHANGED <<keys, access, user, jtis, ts>>

LookUp(r) ==
  LET u == Get(refresh[rt[r]]) IN
  /\ Handling(r, "lookup")
  /\ user' = [user EXCEPT ![r] = u]
  /\ Goto(r, IF u = None THEN "set_blacklist" ELSE "lo_srem")
  /\ UNCHANGED <<keys, access, jtis, ts, ttl>>

LogoutRemove(r) ==
  /\ Handling(r, "lo_srem")
  /\ sessions' = [sessions EXCEPT ![user[r]] = SRem(user[r], rt[r])]
  /\ Goto(r, "lo_del")
  /\ UNCHANGED <<refresh, used, mark, blacklist, access, locals>>

LogoutDelete(r) ==
  /\ Handling(r, "lo_del")
  /\ refresh' = [refresh EXCEPT ![rt[r]] = None]
  /\ Goto(r, "set_blacklist")
  /\ UNCHANGED <<sessions, used, mark, blacklist, access, locals>>

Blacklist(r) ==
  /\ Handling(r, "set_blacklist")
  /\ blacklist' = IF ttl[r] > 0 THEN [blacklist EXCEPT ![at[r]] = now + ttl[r]]
                                ELSE blacklist
  /\ Answer(r, "ok")
  /\ UNCHANGED <<refresh, sessions, used, mark, access, locals>>

-----------------------------------------------------------------------------
(***************************************************************************)
(* The environment.                                                        *)
(***************************************************************************)
\* A call raises, or the worker dies: the rest of the handler does not run.
Fail(r) ==
  /\ MayFail /\ pc[r] # "new" /\ outcome[r] = None
  /\ outcome' = [outcome EXCEPT ![r] = "error"]
  /\ UNCHANGED <<now, users, keys, access, pc, inputs, locals>>

Tick ==
  /\ now < MaxTime
  /\ now' = now + 1
  /\ UNCHANGED <<users, keys, access, pc, inputs, locals, outcome>>

\* No route disables or deletes a user: an operator does, in the database.
Disable(u, status) ==
  /\ status \in Admin /\ users[u] \notin {status, "deleted"}
  /\ users' = [users EXCEPT ![u] = status]
  /\ UNCHANGED <<now, keys, access, pc, inputs, locals, outcome>>

\* Every request of the run has been answered.
Quiescent == Answered = Request /\ UNCHANGED vars

-----------------------------------------------------------------------------
CreateStep(r) == SetToken(r) \/ AddToIndex(r) \/ ExpireIndex(r) \/ Mint(r)

RotateStep(r) ==
  \/ GetToken(r) \/ LoadUser(r) \/ DeleteToken(r) \/ RemoveFromIndex(r)
  \/ SetUsed(r) \/ GetUsed(r)

RevokeAllStep(r) ==
  ReadIndex(r) \/ DeleteTokens(r) \/ DeleteIndex(r) \/ Stamp(r) \/ SetMark(r)

BearerStep(r) == Decode(r) \/ CheckBlacklist(r) \/ CheckMark(r) \/ CheckActive(r)

LogoutStep(r) ==
  DecodeAgain(r) \/ LookUp(r) \/ LogoutRemove(r) \/ LogoutDelete(r) \/ Blacklist(r)

Step(r) ==
  \/ Authenticate(r) \/ CreateStep(r) \/ RotateStep(r) \/ RevokeAllStep(r)
  \/ BearerStep(r) \/ LogoutStep(r)

Arrival(r) ==
  \/ \E u \in User : ArriveLogin(r, u)
  \/ \E t \in Request : ArriveRefresh(r, t) \/ ArriveMe(r, t)
  \/ \E a, t \in Request : ArriveLogout(r, a, t)

Next ==
  \/ \E r \in Request : Arrival(r) \/ Step(r) \/ Fail(r)
  \/ \E u \in User, status \in Admin : Disable(u, status)
  \/ Tick
  \/ Quiescent

Spec == Init /\ [][Next]_vars

\* The event loop runs every handler that can go on; nothing obliges a client
\* to send a request, the clock to move or an operator to act.
FairSpec == Spec /\ \A r \in Request : WF_vars(Step(r))

-----------------------------------------------------------------------------
(***************************************************************************)
(* What sessions promise.                                                  *)
(***************************************************************************)
Is(r, k, o) == kind[r] = k /\ outcome[r] = o

Delivered(t) == access[t] # None

\* The user a request speaks for, as the code knows it.
Subject(r) ==
  CASE kind[r] = "login" -> user[r]
    [] kind[r] = "refresh" -> access[rt[r]].sub
    [] OTHER -> access[at[r]].sub

\* r used up refresh token t: it rotated it or logged it out.
Spent(r, t) == rt[r] = t /\ (Is(r, "refresh", "ok") \/ Is(r, "logout", "ok"))

\* Neither request was answered when the other arrived.
Overlap(r, s) == r \notin before[s] /\ s \notin before[r]

\* A refresh token that was rotated or logged out, as seen by a client that
\* has the answer, is never rotated again (rotate_session, revoke_session).
SpentStaysSpent ==
  \A r, s \in Request :
    r \in before[s] /\ Spent(r, rt[s]) => ~Is(s, "refresh", "ok")

\* A token presented again after its rotation was answered is taken for a
\* replay, and all sessions are revoked, until the audit marker expires
\* (rotate_session, the branch of an unknown token).
ReplayDetected ==
  [][\A r, s \in Request :
       /\ r \in before[s] /\ rt[r] = rt[s] /\ Is(r, "refresh", "ok")
       /\ Is(s, "refresh", None) /\ outcome'[s] = "refused"
       => used[rt[s]] # None /\ ~Live(used[rt[s]])]_vars

\* The index does not expire before a token it lists, so that revoke-all can
\* find the token (create_session extends the index with every session).
IndexOutlivesTokens ==
  \A t \in Request :
    Delivered(t) /\ Live(refresh[t]) /\ t \in Members(refresh[t].user)
      => \/ sessions[refresh[t].user].exp = None
         \/ sessions[refresh[t].user].exp >= refresh[t].exp

\* While no key expires, a delivered live token is missing from the index of
\* its user only because a revoke-all that overlapped the request for it
\* deleted the index, or because a logout is, or failed, between its two
\* deletes (create_session, revoke_all_sessions, revoke_session).
LostToRevokeAll(t) ==
  \E v \in Request :
    /\ kind[v] = "refresh" /\ user[v] = refresh[t].user
    /\ pc[v] \in {"stamp", "set_mark"} \/ outcome[v] = "revoked"
    /\ t \notin jtis[v] /\ Overlap(t, v)

OrphansExplained ==
  \A t \in Request :
    Delivered(t) /\ Live(refresh[t]) /\ t \notin Members(refresh[t].user)
      => \/ LostToRevokeAll(t)
         \/ \E l \in Request : rt[l] = t /\ pc[l] = "lo_del"

\* An access token signed before the time a revoke-all recorded does not
\* outlive the marker that refuses it (revoke_all_sessions; get_current_user).
MarkOutlivesTokens ==
  \A v, a \in Request :
    /\ Is(v, "refresh", "revoked")
    /\ Delivered(a) /\ access[a].sub = user[v]
    /\ access[a].iat < ts[v] /\ now < access[a].exp
    => Live(mark[user[v]])

\* After a revocation was answered the marker of its user is as recent as the
\* revocation, or has expired, or was stored by a revocation that overlaps it and
\* read the clock before it (revoke_all_sessions reads the clock, then sends SET).
MarkGoesBackByOverlap ==
  \A v \in Request :
    LET m == mark[user[v]] IN
    Is(v, "refresh", "revoked") /\ Live(m) /\ m.ts < ts[v] =>
      \E w \in Request :
        /\ Is(w, "refresh", "revoked") /\ user[w] = user[v]
        /\ ts[w] = m.ts /\ Overlap(v, w)

\* Once a logout is answered, its access token passes the blacklist check of
\* get_current_user at most in the last fraction of a second of its life
\* (Logout rounds the remaining lifetime down).
PastBlacklist(g) ==
  \/ pc[g] \in {"get_mark", "get_current", "decode_again", "lookup",
               "lo_srem", "lo_del", "set_blacklist"}
  \/ at[g] # None /\ outcome[g] = "ok"

LoggedOutRefused ==
  \A l, g \in Request :
    /\ Is(l, "logout", "ok") /\ l \in before[g] /\ at[g] = at[l]
    /\ PastBlacklist(g)
    => now > access[at[g]].exp - Second

\* Whoever was deactivated or deleted before a request arrived gets nothing
\* from it, whatever tokens it presents (authenticate, rotate_session,
\* get_current_user).
DeactivatedGetsNothing ==
  \A r \in Request :
    pc[r] # "new" /\ Subject(r) \in before[r] => outcome[r] # "ok"

\* A detected replay locks out every access token its user already had: the
\* marker comes to refuse the token before it expires, if it does not fail
\* (revoke_all_sessions; get_current_user).
ReplayLocksOut ==
  \A v, a \in Request :
    pc[v] = "smembers" /\ Delivered(a) /\ access[a].sub = user[v]
      /\ access[a].iat < now
    ~> Delivered(a) /\ (MarkRefuses(a) \/ now >= access[a].exp)

\* create_session has stored the refresh token of request t.
Issued(t) == pc[t] \in {"sadd", "expire", "mint"} \/ Delivered(t)

Ledger == INSTANCE TokenLedger WITH
  Token <- Request,
  owner <- [t \in Request |-> IF Issued(t) THEN user[t] ELSE None],
  live <- {t \in Request : Live(refresh[t])}

\* Whatever requests interleave or fail, refresh tokens behave as in
\* TokenLedger: no command of rotate_session, revoke_session or
\* revoke_all_sessions revives a token or retires one of another user.
ImplementsLedger == Ledger!Spec

-----------------------------------------------------------------------------
(***************************************************************************)
(* What the docstrings promise and the code does not do.                   *)
(***************************************************************************)
\* "Rotate a refresh token to prevent replay attacks" (rotate_session): a
\* token is rotated once.
SingleUse ==
  \A r, s \in Request :
    Is(r, "refresh", "ok") /\ Is(s, "refresh", "ok") /\ rt[r] = rt[s] => r = s

\* "Revoke all sessions for a user" (revoke_all_sessions): when a replay is
\* answered, no session that a client had before it arrived is alive.
RevokeAllComplete ==
  \A v, t \in Request :
    /\ Is(v, "refresh", "revoked") /\ t \in before[v]
    /\ Delivered(t) /\ access[t].sub = user[v]
    => ~Live(refresh[t])

\* "Revoke all sessions for a user" (revoke_all_sessions): an access token
\* older than a revocation that was answered is refused while it lives.
RevokedStaysRefused ==
  \A v, a \in Request :
    /\ Is(v, "refresh", "revoked")
    /\ Delivered(a) /\ access[a].sub = user[v]
    /\ access[a].iat < ts[v] /\ now < access[a].exp
    => MarkRefuses(a)

\* "Revokes the current user's refresh token" (Logout): no session renewed
\* while the logout was handled is alive when it is answered.
LogoutEndsSession ==
  \A l, s \in Request :
    Is(l, "logout", "ok") /\ Is(s, "refresh", "ok") /\ rt[s] = rt[l]
      /\ Overlap(l, s)
      => ~Live(refresh[s])

\* "adds the JWT token to the blacklist" (Logout): a request that arrives
\* after the logout is not let in with that token.
LoggedOutStaysOut ==
  \A l, g \in Request :
    Is(l, "logout", "ok") /\ l \in before[g] /\ at[g] = at[l]
      => outcome[g] # "ok"

\* "Return the authenticated user or throws 401 Unauthorized"
\* (get_current_user): while no call fails, no request ends in an error.
NeverCrashes == \A r \in Request : outcome[r] # "error"

=============================================================================
