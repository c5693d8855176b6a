# Verification of fastapi-architecture

TLA+ specifications of the authentication, rate-limiting and authorization core
of this repository, the TLC runs that check them on small instances, and proofs, checked
by TLAPS, of the properties that matter most for every value of the parameters.

Paths below are relative to the repository. `tlc -config X.cfg M` checks a
module M with a configuration X; `tlapm M.tla` checks the proofs of a module.

- [The system](#the-system)
- [The modules](#the-modules)
- [The runs](#the-runs)
- [What the code does not keep](#what-the-code-does-not-keep)
- [The proofs](#the-proofs)
- [What is not modelled](#what-is-not-modelled)
- [The plan](#the-plan)

## The system

An asynchronous FastAPI application. Handlers run concurrently on an event loop,
in one or more workers; they share nothing in memory. All shared state is in Redis
and PostgreSQL, and every `await` on either is a point where other handlers run.
Nothing is transactional across two Redis commands, and every repository call
commits on its own (`auto_commit = True`).

| Component | Source (`app/`) | State | Operations | Talks to |
|---|---|---|---|---|
| Session service | `modules/auth/services.py`, `modules/auth/routes.py` | Redis: `refresh:{jti}`, `user_sessions:{user}`, `used_refresh:{jti}`, `user_revoke_all:{user}`, `blacklist:{jti}` | create, rotate, revoke one, revoke all | Redis, users table |
| Bearer authentication | `modules/accounts/dependencies.py`, `core/security.py` | none of its own; reads the blacklist, the revoke-all marker, the row | `get_current_user`, `create_access_token`, `decode_access_token` | Redis, users table |
| Login | `modules/auth/routes.py`, `authenticate` | users table: `failed_login_count`, `locked_until` | `Login.handle` | limiter, session service, users table |
| Login rate limiter | `core/middlewares.py`, `LoginRateLimiter` | Redis: `login_lock:ip:{ip}`, `login_lock:email:{email}` | `check_limit`, `register_failure`, `reset` | Redis |
| Global rate limiter | `core/middlewares.py`, `RateLimitMiddleware` | Redis: `rate_limit:ip:{ip}` | one Lua script per request | Redis |
| Accounts | `modules/accounts/` | users table | register, read and update the own profile | users table |
| Permissions and CRUD | `core/generics/`, `modules/groups/`, `modules/permissions/`, `has_permission` | groups, permissions and their association tables | list, create, retrieve, update, delete; `has_permission` | database |
| Management commands | `cli.py` (beside `app/`) | the same tables, from a process of their own | `createsuperuser`, `seed-permissions` | database |
| Database and Redis access | `db/session.py`, `db/redis.py` | two connection pools | session per request, client per request | PostgreSQL, Redis |
| Settings | `core/config.py` | read once | validators | environment |
| The rest | `main.py`, `core/logging.py`, security headers, `api/v1/health.py`, `alembic/` | none that is shared with a handler | | |

How they interact. Every request passes `RateLimitMiddleware` first. `Login` asks
the login limiter, then `authenticate`; a failure is registered and re-raised, a
success resets the limiter and creates a session. `Refresh` rotates a refresh
token, or takes it for a replay and revokes everything the user has. `Logout` and
all routes of a logged-in user depend on `get_current_user`, which looks at the
signature, the blacklist, the revoke-all marker and the row, in this order. The row
comes with the groups and permissions of the user, which the routes of
`GenericAPIView` then look at; the same tables are what these routes, `PATCH /me`
and the commands of `cli.py` change.

What is hard. (1) Every multi-command operation (`create_session`,
`rotate_session`, `revoke_session`, `revoke_all_sessions`, `register_failure`)
can be interleaved with any other at each command, and can stop after each.
(2) The keys that belong together expire at different times. (3) Columns are read,
computed with in Python and written back. (4) Two limiters with different
counters lock the same accounts. (5) What a caller may do is read in three queries
from tables that change meanwhile, and `seed-permissions` looks for twelve rows,
one by one, before it commits any. The list of hazards, each at its line, is in
`PROJECT.json`.

What makes each component correct:

- Session service: a spent token stays dead; a replay is noticed; a revocation
  reaches what it must and nothing of another user; no session is lost from the
  index, and the index, the replay marker and the revoke-all marker live long enough.
- Bearer authentication: a logged-out, revoked or deactivated holder is refused.
- Login and its limiter: failures lock; locks and counters end; a login cleans up
  after itself; nothing else clears a lock.
- Global limiter: a bound on admissions in any interval; a block ends.
- Accounts: one row per e-mail; a client cannot set a protected column; concurrent
  updates do not mix.
- Permissions and CRUD: an operation runs only with its permission; a row that is
  not there is never reported as changed; a codename is one row.
- Management commands: a command that says it is done leaves what it promises, and
  commands that run together do not stop each other.

## The modules

| Module | What it is |
|---|---|
| `AuthSessions` | the session service, bearer authentication, and the endpoints login, refresh, logout and me |
| `AuthSessionsInv` | the inductive invariants of `AuthSessions`, in named parts |
| `TokenLedger` | the abstract specification: what the session service promises of refresh tokens |
| `LoginLimiter` | `LoginRateLimiter` around `authenticate` |
| `GlobalRateLimit` | `RateLimitMiddleware` and its script |
| `Accounts` | registration, the update of the own profile and `createsuperuser` on the users table |
| `Rbac` | groups and permissions: loading those of a caller, the generic routes, the memberships in `PATCH /me`, `seed-permissions` |
| `MCAuthSessions`, `MCLoginLimiter`, `MCGlobalRateLimit`, `MCAccounts`, `MCRbac` | the instances TLC checks (symmetry sets and values of constants) |
| `AuthSessions_proofs`, `AuthSessionsIndex_proofs`, `LoginLimiter_proofs`, `LoginLimiterCounts_proofs`, `GlobalRateLimit_proofs`, `Accounts_proofs`, `Rbac_proofs` | theorems and their proofs |

### AuthSessions

Variables stand for the Redis keys of the table above (`refresh`, `sessions`,
`used`, `mark`, `blacklist`), the status of each row (`users`), the access tokens
that reached a client (`access`), the clock (`now`), and for each request its
position and Python locals (`pc`, `kind`, `rt`, `at`, `user`, `jtis`, `ts`, `ttl`),
its response (`outcome`) and one history variable (`before`: which requests had been
answered, and which users disabled, when it arrived).

One action is one Redis command or one query, with the code that follows it up
to the next `await`. `SetToken`, `AddToIndex`, `ExpireIndex`, `Mint` are
`create_session` and the access token; `GetToken`, `LoadUser`, `DeleteToken`,
`RemoveFromIndex`, `SetUsed`, `GetUsed` are `rotate_session`; `ReadIndex`,
`DeleteTokens`, `DeleteIndex`, `Stamp`, `SetMark` are `revoke_all_sessions` (the
timestamp is taken before the command that stores it is sent, hence two actions);
`Decode`, `CheckBlacklist`, `CheckMark`, `CheckActive` are `get_current_user`;
`DecodeAgain`, `LookUp`, `LogoutRemove`, `LogoutDelete`, `Blacklist` are `Logout`
and `revoke_session`. `Fail` stops a handler anywhere: a call that raised, or
a worker that died. A call that took effect and whose reply was lost is the action
of the call followed by `Fail`. `Disable` is an operator's change to the users table;
no route makes it.

Redis is modelled by what its commands do with expiry: a key is gone at its time, an
empty set is gone and loses its expiry, `SADD` keeps the expiry of a set, `EXPIRE`
does nothing to a missing one. Times have a resolution finer than a second
(`Second` ticks): `exp` of a JWT and the lifetime of a blacklist entry are rounded
down to whole seconds, the marker and `iat` are not, as in the code.

Abstractions. A client presents only tokens that a response delivered; signatures
cannot be forged. Each request draws at most one identifier of each kind, so a
token is named by the request that made it. Passwords are right in this module
(wrong ones are the subject of `LoginLimiter`).

### TokenLedger

A token is issued once to one user, may be retired together only with tokens of the
same user, lapses only with time, and never comes back. `AuthSessions` refines it
with `owner` the user of every token `create_session` stored, and `live` the keys
`refresh:{jti}` that exist.

### LoginLimiter

A request is one `POST /login`. `CheckIp` and `CheckEmail` are the two `GET` of
`check_limit`; `LoadUser` is `get_by_email` and what `authenticate` decides from
the row, `Save` its `update_user`; `IncrIp`, `ExpireIp`, `IncrEmail`,
`ExpireEmail`, `LockIp`, `LockEmail` are `register_failure`; `Reset` is the one `DEL`
of `reset`. `DatabaseError` is a call of `authenticate` that raises, before or after
its commit, and is registered as a failed login because the handler catches
`Exception`; `Fail` is an uncaught one.

A key `login_lock:*` is a record: the value "locked" or a count, and the time it
has left. Times are stored as what is left of them and `Tick` shortens all of them,
so the clock needs no bound and the liveness property is about all time. The ORM
writes only the columns whose value changed, so `new` carries the set of columns.

### GlobalRateLimit

The script is one action, `Count`, with what the middleware does with its reply:
`Admit`, `Refuse`, or `LoseReply`. `admitted` is a history variable. The count is
capped just past the limit, beyond which the code does not tell values apart.

### Accounts

An element of `Request` is one call of `POST /register`, `PATCH /me` or
`createsuperuser`. `Check` is `get_by_email` (or the query of the command), `Insert`
the INSERT with its commit; `LoadCurrent` is the query of `get_current_user`, `Save`
the UPDATE of `update_user` with its commit, `Refresh` the `session.refresh` of both
repository methods and the response. A statement that a constraint refuses, or
that finds its row gone, raises: the call stays where it failed, with outcome "error".

`Assigned` is what `SafeUpdateMixin.clean` and the loop of `update_user` make of the body:
a null password counts as not sent, a null e-mail or name is assigned and refused
by the NOT NULL column. The ORM writes the columns whose new value differs
from the one it read (`Changed`), and nothing if there is none.

Abstractions. The columns are those a client sends and one it must not set
(`is_staff` stands for all of `forbidden_fields`); an address is a value and
`Normal` what `strip` and `lower` make of it; a hash is named after the call that
computed it, since each has a fresh salt. The tokens of `PATCH /me` are the subject
of `AuthSessions`: here any existing user may send one, and only the query of the
row is kept. No route deletes a row, so `Remove` is an operator's change. Whether
the response of a registration can be serialised (it reads relations
that `session.refresh` does not load) is SQLAlchemy's affair; the row is
committed by then, and no property depends on it.

### Rbac

`rows` are the tables `groups` and `permissions` (a row has a key, the name of a group
or the codename of a permission, which its unique index guards), `assoc` the three
association tables. An element of `Request` is a call of one of the five routes on either
table, a `PATCH /me` that brings `groups` or `user_permissions` ("leave"), or a run of
`seed-permissions` ("seed").

`LoadGroups`, `LoadGroupPermissions` and `LoadDirect` are the queries of
`get_by_id_with_permissions` (a row with its groups, their permissions, the user's own
permissions); `Found` is what `has_permission` then sees. A permission that two of the queries
return is one object in the session, with the codename it was read with first. `List`,
`Retrieve`, `Create`, `Refresh`, `Update` and `Delete` are the routes, each with what
`GenericService` and `GenericRepository` make of it: a statement and its commit, and
what the code does with the row, the `None` or the number of rows it gets back. `missing` is
`NotFoundError`. `Leave` is `update_user` on a body with lists: an empty list deletes the
associations that were loaded, a list of identifiers is not a list of objects and raises.
Bodies that cannot be built or written (a null, a missing key, a list of permissions) raise as well,
as do two rows with one key.

`SeedSelect` and `SeedInsert` are one turn of the loop of `seed_permissions_async`:
`session.add` is flushed by the next query, so each row is inserted there, or by the commit if it is the last,
and all of them are committed by `SeedCommit`. Until then they are in `inserted`: nobody
sees them, and whoever wants to insert the same codename waits (`Pending`). An update
that waits for a seed keeps its own row locked while it waits; if the seed
comes to want that row's codename, PostgreSQL ends one of the two (`Deadlocked`). The model
lets such an update fail, or lets the seed go on as if it had; both are outcomes
the database can choose. `Die` ends a seed at any point.

`Operate` adds or removes an association in the database: no route does. `Watch` keeps three
history variables: whether the caller of a route had or lacked its permission since it arrived
(`seen`), which codenames went away during a seed (`gone`), and `before`.

Abstractions. Who is a superuser does not change, and the row, tokens and status of the
caller are the subject of `AuthSessions`. The `name` of a permission and the page of a list have no bearing on
control. A statement and the commit that follows it are one step, since nothing else of the
call is in between and a reader sees either nothing or both; only the seed holds rows over
several statements. Whether the response of a group or a user can be serialised depends on relations that the ORM has or has
not loaded, so `Respond` may answer either, after the commit. A body of `PATCH /me`
with both kinds of fields is covered in halves: its columns in `Accounts`, its lists here.

### Conventions

Each component has one type invariant. Operators described as faulty variants are
mutations of the operator named in `PROJECT.json` ("mutants"): every property of a
passing run is shown to fail when one of them takes the place of the original.

## The runs

| Run | Module, configuration | Checks | Distinct states |
|---|---|---|---|
| `sessions_failures` | `MCAuthSessions`, `AuthSessions_failures` | `TypeOK`, `SpentStaysSpent`, `OrphansExplained`, `DeactivatedGetsNothing` | 2.1 million |
| `sessions_clock` | `MCAuthSessions`, `AuthSessions_clock` | `IndexOutlivesTokens`, `MarkOutlivesTokens`, `LoggedOutRefused`, `ReplayDetected` | 2.7 million |
| `sessions_ledger` | `MCAuthSessions`, `AuthSessions_ledger` | `IInv`, `IndexInv`, `MarkGoesBackByOverlap`, `ImplementsLedger` | 1.0 million |
| `sessions_liveness` | `MCAuthSessions`, `AuthSessions_liveness` | `ReplayLocksOut` | 84 thousand |
| `global_limit` | `MCGlobalRateLimit`, `GlobalRateLimit` | `TypeOK`, `AtMostTwice`, `BlockEnds` | 4.5 thousand |
| `login_races` | `MCLoginLimiter`, `LoginLimiter_races` | `TypeOK`, `ExpiryPending`, `LockTakesConcurrency`, `FailuresLock`, `LockErasedByRace`, `UncountedByLock`, `BlocksEnd` | 0.5 million |
| `login_failures` | `MCLoginLimiter`, `LoginLimiter_failures` | `ExpiryPending`, `LockTakesConcurrency`, `LoginCleans` | 0.8 million |
| `accounts` | `MCAccounts`, `Accounts` | `TypeOK`, `OneAccountEach`, `LateConflict`, `UpdateTakesEffect`, `OnlyAsked` | 3.7 million |
| `rbac` | `MCRbac`, `Rbac` | `TypeOK`, `OneRowPerKey`, `EnteredHeld`, `RefusedLacked`, `DeletedOnce`, `SeedComplete`, `SeedErrorExplained`, `NoWaitCycle` | 2.6 million |
| `revoke_all` | `MCAuthSessions`, `AuthSessions_RevokeAllComplete` | `RevokeAllComplete` is violated | |
| `sliding_window` | `MCGlobalRateLimit`, `GlobalRateLimit_SlidingWindow` | `SlidingWindow` is violated | |
| `blocks_from_max` | `MCLoginLimiter`, `LoginLimiter_BlocksFromMax` | `BlocksFromMax` is violated | |

What they show.

- `SpentStaysSpent`: once a rotation or logout of a token was answered, no request
  that arrives later rotates it. (Two requests that overlap may both rotate it: see
  below.)
- `ReplayDetected`: such a later request is refused as unknown, without revoking
  anything, only if the 300-second marker has expired.
- `OrphansExplained`: while nothing expires, a session that is alive but not in the
  index of its user lost its entry to a revoke-all it overlapped, or its logout is,
  or stopped, between two commands. No other interleaving or failure does it. When
  keys expire there is one more cause, which the proof brought to light: an index
  that runs out between the `SADD` and the `EXPIRE` of a session takes the new entry
  with it, and `EXPIRE` on a key that is gone does nothing (`services.py:78`). The
  session then lives for its full lifetime where no revoke-all finds it.
  `IndexInTime` excludes just this case.
- `IndexOutlivesTokens`: the index never expires before a session it lists.
- `MarkOutlivesTokens`: the one-day marker outlives every access token it must
  refuse. This needs `AccessTTL <= MarkTTL`, an assumption on the settings that the
  code does not check (`MarkCoversAccess`; the default is 15 minutes).
- `LoggedOutRefused`: after a logout its access token gets past the blacklist at most
  in the last fraction of a second of its life.
- `DeactivatedGetsNothing`: a request that arrives after its user was deactivated or
  deleted is never answered with success.
- `ReplayLocksOut`: a detected replay ends with every older access token refused
  or expired.
- `ImplementsLedger`: refinement of `TokenLedger`.
- `MarkGoesBackByOverlap`: a stored revoke-all marker is older than that of an answered
  revocation only if the two revocations overlap.
- `AtMostTwice`, `BlockEnds`: what the fixed window does guarantee.
- `ExpiryPending`: a counter or lock that will never expire is one whose request is,
  or died, between `INCR` and `EXPIRE`; nothing else makes a block permanent.
- `LockTakesConcurrency`: the progressive lock is set only when `Max` logins that
  `authenticate` did not let in, all from one address or all for one e-mail, were in
  flight together; a login it let in counts for nothing. Any failure that came before keeps the
  next login out (`BlocksFromMax`), so the steps 5, 6, 7 of the back-off are never
  reached by consecutive failures.
- `FailuresLock`: logins with a wrong password that follow one another lock the row
  at the `Max`-th.
- `LockErasedByRace`: the lock of a row is cleared, while in force, only by a login
  that read the row before a failure that overlaps it stored the lock.
- `UncountedByLock`: while no call fails, a login ends in an error that it did not mean
  only if an overlapping failure locked its address or e-mail before it could count.
- `LoginCleans`: a login that nothing overlaps or follows leaves no count and no lock.
- `BlocksEnd`: while no call fails, every counter and lock in Redis goes away. The
  logins of a run are finitely many: the property catches an expiry that is missing or
  lost, and logins under way that set a lock again; that new logins cannot keep a block
  alive is `check_limit`, which turns them away before they count.
- `OneAccountEach`: however an address is written, at most one row has it, whatever
  registrations, commands and updates overlap.
- `LateConflict`: a registration ends in an error instead of "already exists"
  only if a call that overlaps it gave the address to a row.
- `OnlyAsked`: a column of a row changes only to what an update of that user asks
  for: no update writes back what it read, and none writes a protected column.
- `UpdateTakesEffect`: an update that no other update of the user overlaps is answered
  with a row that has everything it asked for.
- `OneRowPerKey`: a codename or a group name is one row, whatever routes and
  seeds overlap.
- `EnteredHeld`: a route is entered only by a caller who had its permission at some
  moment since the call arrived, or who was taken out of a group meanwhile. The exception is real: the groups
  are read before their permissions, so a user who leaves a group that then
  is given the permission is let in, having had it at no moment.
- `RefusedLacked`: a call is refused only if its caller lacked the permission at some moment
  since it arrived, or lost an association meanwhile (one way to the permission went before it
  was read, the other came after).
- `DeletedOnce`: of all deletes of a row one is answered with success, and no call
  that arrives after it succeeds in anything about the row.
- `SeedComplete`: after a seed that said it was done every standard codename is
  there, or was deleted or renamed after the seed began; a seed that skips what it found can
  do no better.
- `SeedErrorExplained`: a seed fails only because a call that overlaps it gave one
  of the standard codenames to a permission. Then the whole seed is rolled back.
- `NoWaitCycle`: seeds that run together never wait for each other in a circle,
  because all insert in one order.
- `TypeOK` of `Rbac` includes the foreign keys: no association outlives its rows.

### Bounds

`sessions_failures` has four requests, each a login, a refresh or a logout: a login,
two requests for its token (the races) and one more for its effect (a third session,
a logout, a replay); its clock stands still, because what it asks does not depend on
expiry, and it leaves `GET /me` out, which is the first half of a logout.
`sessions_clock` has three requests (login, rotation, replay or login, logout, me) and
lets time pass between any two commands: refresh tokens of 6 ticks, replay markers
of 2, access tokens of 4 and a clock that runs to 7, so that each kind of key
expires within the run, and 2 ticks in a second, so that every rounding happens at
both parities. `MarkTTL` equals `AccessTTL`, the tightest value the assumption allows.
`sessions_ledger` has two users and all four endpoints. `sessions_liveness` has a login,
a rotation and a replay, at any moments of a second. `global_limit` has a limit of 2, a window of 2 ticks and a clock of three windows:
five admissions, the least that could violate `AtMostTwice`, fit with room to
spare; addresses do not interact, so one is enough. `login_races` has `Max = 2` and
three requests: a full lock and one more; `login_failures` two requests over
two addresses and an active, an inactive and an unknown e-mail. The progressive
back-off has its first step at `First = Max`, as in the default settings (both 5).
`accounts` has one user and three calls, the least in which two conflict and a third
sees the result, over two mailboxes of which one is written in two ways; the bodies
change one column, two, a protected one, or set one to null.
`rbac` has three calls: two of any of eleven kinds, and a third that can only be a seed, so
that two seeds can race with a route, or one seed with two. An administrator and a user,
a group and a permission make every way to a permission possible (direct, by group,
both), and the association tables start as any part of what the operator may touch. The list of standard codenames is a
constant: two of the twelve, one of which decides what the user may do, already make a first,
a last, an order and a row in between. The permission starts with a standard codename or
another one.
The proofs cover every number of requests where a theorem is stated.

Users, requests and IP addresses are symmetric in the runs of safety properties: no
action and no property names one of them. (In `rbac` only the two requests that may bring
the same calls are.) The runs of liveness properties do not
use symmetry.

Deadlock is checked in every run. In `AuthSessions`, `Accounts` and `Rbac` a run in which every request
was answered may stand still (`Quiescent`); in the others time goes on.

### Fairness

`FairSpec` of `AuthSessions` and `LoginLimiter` is weak fairness of the steps of each
request: the event loop runs every coroutine whose await has completed, and
both Redis and the database answer when `MayFail` is `FALSE`. `LoginLimiter` and
`GlobalRateLimit` add weak fairness of `Tick`: time passes. Nothing obliges a
client to send a request or an operator to act. No strong fairness is used.

## What the code does not keep

Three statements of the documentation are refuted by a run of their own:

| Statement | Where | What happens |
|---|---|---|
| "Revoke all sessions for a user", "All sessions revoked." | `app/modules/auth/services.py:84`, `:115` | a session created between the `SMEMBERS` and the `DEL` of the index survives, without an index entry |
| "Sliding Window" | `DOCUMENTATION.md:87` | the window is fixed: up to twice the limit within its length |
| "From 5 failures onward, blocks are applied progressively" | `DOCUMENTATION.md:91` | the counter and the lock are one key, so one failure blocks for 900 seconds |

More statements are kept in the modules, under "promise and the code does not do".
TLC refutes each of them when it is named as an INVARIANT or PROPERTY of a
configuration of the module:

| Definition | Says | Refuted by |
|---|---|---|
| `SingleUse` (`services.py:102`) | a refresh token is rotated once | two refreshes that both pass `GET` before either `DEL` |
| `RevokedStaysRefused` (`services.py:84`) | a token older than an answered revocation is refused | two revocations store their markers in the opposite order of their timestamps |
| `LogoutEndsSession` (`routes.py:81`) | no session renewed during a logout survives it | a refresh past its `GET` when the logout deletes the token |
| `LoggedOutStaysOut` (`routes.py:81`) | a logged-out access token is not let in | the fraction of a second dropped by `int()` (`routes.py:101`), with time passing |
| `NeverCrashes` (`dependencies.py:35`) | the user or a 401 | a deleted row: `None.is_active`, with `Admin` containing "deleted" and `MayFail` false |
| `RegistersBoth` (`middlewares.py:173`) | a failure is registered for address and e-mail | `INCR` on "locked", set by an overlapping failure, raises |
| `BlockIsTemporary` (`middlewares.py:159`) | blocks are temporary | a failure between `INCR` and `EXPIRE`, with `MayFail` true |
| `LocksGrow` (`DOCUMENTATION.md:91`) | a later failure does not shorten a lock | overlapping failures store their locks in the opposite order |
| `LostFailures` (`services.py:23`) | `Max` failures lock the row | overlapping failures read the same count |
| `LockHolds` (`services.py:23`) | no login clears a lock in force | a right password that read the row before the lock was stored |

One more disagreement shows in how `Rbac` reads the code. `core/generics/service.py:14`
says of `NotFoundError` "Mapeada para 404 globalmente", `core/generics/views.py:146`
that a global handler treats it, and `DOCUMENTATION.md:28` that it is "intercepted globally". `main.py:35`
registers a handler for `AppException` only, and `NotFoundError` is not one: the outcome `missing` is an error
500 to the client. The model keeps it apart because it tells more than other errors do: the
statement found no row.

## The proofs

| Theorem | Module | States |
|---|---|---|
| `Invariance` | `AuthSessions_proofs` | `Spec => []IInv` |
| `TypeCorrect` | `AuthSessions_proofs` | `Spec => []TypeOK` |
| `SpentTokens` | `AuthSessions_proofs` | `Spec => []SpentStaysSpent` |
| `Replays` | `AuthSessions_proofs` | `Spec => ReplayDetected` |
| `Marks` | `AuthSessions_proofs` | `Spec => []MarkOutlivesTokens` |
| `LoggedOut` | `AuthSessions_proofs` | `Spec => []LoggedOutRefused` |
| `Deactivated` | `AuthSessions_proofs` | `Spec => []DeactivatedGetsNothing` |
| `Refinement` | `AuthSessions_proofs` | `Spec => ImplementsLedger` |
| `IndexInvariance` | `AuthSessionsIndex_proofs` | `Spec => []IndexInv` |
| `IndexOutlives` | `AuthSessionsIndex_proofs` | `Spec => []IndexOutlivesTokens` |
| `MarkGoesBack` | `AuthSessionsIndex_proofs` | `Spec => []MarkGoesBackByOverlap` |
| `OrphansInTime` | `AuthSessionsIndex_proofs` | `Spec /\ []IndexInTime => []OrphansExplained` |
| `Orphans` | `AuthSessionsIndex_proofs` | `Spec => []OrphansExplained`, if `MaxTime < RefreshTTL` |
| `Invariance`, `TypeCorrect`, `TwiceTheLimit` | `GlobalRateLimit_proofs` | `Spec => []TypeOK`, `Spec => []AtMostTwice` |
| `Invariance`, `TypeCorrect`, `ExpiryComes` | `LoginLimiter_proofs` | `Spec => []TypeOK`, `Spec => []ExpiryPending` |
| `Uncounted` | `LoginLimiter_proofs` | `Spec => []UncountedByLock` |
| `Cleaned` | `LoginLimiter_proofs` | `Spec => []LoginCleans` |
| `LockErased` | `LoginLimiter_proofs` | `Spec => LockErasedByRace` |
| `LockNeedsConcurrency` | `LoginLimiterCounts_proofs` | `Spec => []LockTakesConcurrency` |
| `LockAtMax` | `LoginLimiterCounts_proofs` | `Spec => []FailuresLock` |
| `Invariance`, `TypeCorrect` | `Accounts_proofs` | `Spec => []IInv`, `Spec => []TypeOK` |
| `OneRowEach` | `Accounts_proofs` | `Spec => []OneAccountEach` |
| `NothingUnasked` | `Accounts_proofs` | `Spec => OnlyAsked` |
| `LateErrors` | `Accounts_proofs` | `Spec => []LateConflict` |
| `UpdatesTakeEffect` | `Accounts_proofs` | `Spec => []UpdateTakesEffect` |
| `Invariance`, `TypeCorrect` | `Rbac_proofs` | `Spec => []IInv`, `Spec => []TypeOK` |
| `OneRow` | `Rbac_proofs` | `Spec => []OneRowPerKey` |
| `NoCircle` | `Rbac_proofs` | `Spec => []NoWaitCycle` |
| `DeletesOnce` | `Rbac_proofs` | `Spec => []DeletedOnce` |
| `SeedsComplete` | `Rbac_proofs` | `Spec => []SeedComplete` |
| `SeedErrors` | `Rbac_proofs` | `Spec => []SeedErrorExplained` |
| `Entered` | `Rbac_proofs` | `Spec => []EnteredHeld` |
| `Refused` | `Rbac_proofs` | `Spec => []RefusedLacked` |

They hold for any sets of users, requests and addresses, any lifetimes and limits
that satisfy `ConstantsAssumption` of the module, with failures allowed or not.
`MarkOutlivesTokens` uses `MarkCoversAccess` besides. The bound `MaxTime` on the
clock only weakens `Tick`: no proof depends on its value but that of `Orphans`, which says
what `OrphansInTime` means for a stretch of time shorter than the life of a refresh token.

The argument for sessions. `SpentStaysSpent` is not inductive: it says what an
answer means and nothing of a request on its way to it. `SpentIsDead` says that from
the `DEL` of a rotation or a logout on the key is gone, and stays gone, because a key
`refresh:{jti}` is written only by the request that drew the `jti`, before the token
is delivered (`TokensOfRequest`), and tokens are presented only after that
(`WellFormed`). `SpentIsStopped` adds that a request that arrived after the answer
has not passed the `GET`. `ReplayDetected` needs in addition that a rotation that got
as far as creating the new session has stored its marker. `MarkLasts` relates the
stored marker to the last timestamp, `BlacklistLasts` carries the rounded lifetime
from `DecodeAgain` to the entry, `DisabledIsStopped` says how far a request of a
disabled user can be (`BeforeStable`: nobody is enabled again). For the
refinement, `IndexOfUser` says that a revocation collects tokens of its own user
only; each command then is an `Issue`, a `Retire`, a `Lapse` or a stutter.

The argument for the index and the marker. A token and its index get their expiry from
different commands. `IndexLasts` says that every token expires within `RefreshTTL` from now, so
that the `EXPIRE` of its request, which counts from a later moment, carries the index past it;
later commands keep that expiry, renew it, or empty the index. `RevokedInOrder` says that a
revocation which arrived after another was answered read the clock after it. Whoever stores an older
marker therefore overlaps the newer revocation, and `MarkOfOverlap` remembers it for as long as the
marker is there. `Collected` says that revoke-all
has killed what it read from the index, and that at its `DEL` the index holds, of the sessions
answered before it arrived, only those it read. With it, `OrphansKnown`: an entry leaves the
index by a rotation or a logout, which have killed the token or are about to, by
a `DEL`, which takes a live token only from a request that overlaps the revocation, or
by the expiry of the index, which `IndexLasts` rules out after the `EXPIRE` and `IndexInTime`
before it. What explains a missing entry goes on explaining it (`ExplainedStays`).

The argument for the global limiter. The admissions of an address are kept with the
expiry of the key that counted them. `Current` says that an admission whose window is not over was counted by the live
key, `Counted` that a key that has counted `n` requests was created after the expiry
of every admission but the last `n`, and `Spaced` that admissions `Limit` apart were
counted by different keys, whose expiries are therefore a window or more apart.
Two such steps, with `InWindow` (an admission comes at most a window before the
expiry of its key, and before it), are more than a window between the admissions.

The argument for the login. A key without an expiry has just been created by
`INCR`, and its request is at the `EXPIRE` of that key until another request sets
the key to "locked" with an expiry, deletes it, or it is given its expiry; only a
failure leaves the request there for ever. The other three theorems are about requests that
overlap. `LocksKnown`: a request that found a key unlocked and may still count on it knows,
if the key is locked now, a culprit, since who locks it then was not answered when it arrived, nor the
other way round (`Backwards`). `Cleans`: no other request can write the row of a lonely login
(`RowBy`), so what it decided when it read the row is still right when it saves. `Surprises`:
a login that is about to save into a row that is locked found it unlocked, so a failed login has
locked it since (`LockedByFailure`).

The argument for the counts of the login. Both properties compare a number in a key or a row with
a number of requests, so each invariant exhibits the requests. `CountsAt`: for every `n` up to the
counter of a key there are `n` failed requests that counted on it, overlap each other, and overlap
whoever has passed `check_limit` for the key and is yet to count (`Passed`). Nobody passes while the
key exists (`PassedBy`), so the one that counts next was there before, and the `n` with it are `n + 1`
(`CountedByOneMore`); a key that expires or is reset starts again from none. `AttemptsAt` carries
this to what `register_failure` read, and `Max` attempts are `Max` overlapping failures on one of the two keys.
`RowCounts`: while the logins for an e-mail that `check_limit` let pass do not overlap and all
fail, `failed_login_count` is the number of those that `authenticate` is through with, no lock is in
force below `Max`, and what the one under way is to save counts one more, or locks. There is only
one: two that are unanswered overlap (`UnderWay`).

The argument for the accounts. `OneAccountEach` compares normalised addresses and
the unique column compares stored ones: the invariant says that what is stored is
`Normalised` and `Unique`, and `BornByInsert` that an INSERT finds no row of its own.
The two properties about overlapping calls each need to be said of a call
under way. `TakenSince`: from the check of a registration on, an address that is
taken was given to a row by an overlapping call; it rests on `Backwards`, that a
call knows only calls that were answered. `Undisturbed`: while no other update
overlaps, the row is the one that was read, then one with everything the body asks
for; two updates of one row that are both unanswered overlap (`SaversOverlap`), so the
row cannot change under a lonely one.

The argument for groups and permissions. `IInv` of `Rbac_proofs` says what a call is at each
step (`Equipped`), that a call knows only calls that have ended (`Backwards`), that the rows
of a call exist only after its write (`Born`), and that what a seed has inserted it has gone
past in the list, nobody else has inserted, and nobody sees (`Apart`). With the last,
`OneRowPerKey` survives a commit. Who waits for a seed has come less far in the
list than that seed (`WaitsForFarther`): in any set of seeds, one that has come
farthest waits for none, whatever the number of seeds and codenames. Each of the others says
something of a call under way. `StaysGone`: a row that was deleted does not come back, since it
is written by its own call once. `SeedKeeps`: what a seed has gone past is
visible, inserted by it, or went away. `Explained`: a seed that is about to find its codename
taken looked before, so it was taken since, by a call that overlaps the seed. `GrantsEarned`:
between the two queries, a group that was read is still the caller's, or the caller was seen to
leave it. `Steady` is its converse: while the caller was never seen to lack the permission or to
lose an association, the permission is found already, or is where the next queries look; a
codename that is still there after a step is still that of the same row (`KeyStays`).

Only model-checked: the liveness properties (`ReplayLocksOut`, `BlockEnds`, `BlocksEnd`),
which are out of the prover's reach. Every invariant and every action property of a
passing run is a theorem, and so is the refinement.

## What is not modelled

- `get_client_ip`: addresses are model values, as the headers give them.
- Strings, hashes and signatures: a password is right or wrong, a token is genuine.
- The connection pools of SQLAlchemy and redis-py: their waiting and their errors
  are the libraries'; an error of theirs is a call that fails.
- Settings, with their validators, and the strength of a password: pure tests of values that are
  read once or refused before a handler runs. The limits and lifetimes are constants here.
- `StaffRequiredMixin` and `AdminRequiredMixin`: no route uses them.
- Logging, security headers, CORS, trusted hosts, health check, CLI prompts,
  migrations and start-up: no shared state, or run once. (The constraints that
  the first migration creates are in `Rbac` and `Accounts`.)
- Redis restarts and evictions, clock differences between workers, and time
  going backwards: the code has no handling for them.

## The plan

Done: the sessions, both limiters, the login, the accounts, the permissions with their routes, and
the commands: every part of the program that keeps or changes shared state; and proofs of every
safety property that a run checks. Left, in this order:

1. The safety half of the liveness properties as theorems: that a block in Redis which is not
   "locked" never lasts longer than the counter, and that the marker refuses an older access token from
   `SET` to the end of its life unless a revocation that overlaps sets it back.
2. The promises that the code does not keep, proved under the condition that makes them
   true: `SingleUse` and `LogoutEndsSession` for requests that do not overlap, `RevokedStaysRefused`
   for revocations that do not.
