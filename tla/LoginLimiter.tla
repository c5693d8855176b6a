---------------------------- MODULE LoginLimiter ----------------------------
(***************************************************************************)
(* The login: LoginRateLimiter (app/core/middlewares.py), which counts     *)
(* failures and sets locks in Redis, around services.authenticate, which   *)
(* counts failures and sets a lock in the users table.                     *)
(*                                                                         *)
(* An element of Request is one POST /login, handled once; one Redis       *)
(* command or one database call is one action.  The counter of an address  *)
(* (or e-mail) and its lock are the same Redis key.  Times are what is     *)
(* left of them, so that the clock needs no bound.                         *)
(***************************************************************************)
EXTENDS Integers, FiniteSets

CONSTANTS
  Ip, Email,    \* as get_client_ip returns them, and as normalized
  Registered,   \* the e-mails that have a row in the users table
  Inactive,     \* those whose row is not active
  Request,      \* login requests
  Max,          \* RATE_LIMIT_LOGIN_MAX_ATTEMPTS
  First,        \* the 5 of register_failure, the first step of its back-off
  Lock1, Lock2, Lock3, Lock4,  \* 60, 300, 900 and 3600 seconds, in ticks
  CounterTTL,   \* the 900 seconds a counter lives, in ticks
  DbLock,       \* RATE_LIMIT_LOGIN_WINDOW_SECONDS, in ticks
  None,         \* nil in Redis, NULL in the database, None in Python
  MayFail       \* whether a Redis or database call may raise

Key == Ip \cup Email
Ttls == {Lock1, Lock2, Lock3, Lock4, CounterTTL}

ASSUME ConstantsAssumption ==
  /\ Ip \cap Email = {}
  /\ Inactive \subseteq Registered /\ Registered \subseteq Email
  /\ {Max, First, DbLock} \cup Ttls \subseteq Nat \ {0}
  /\ None \notin Key \cup Nat \cup [locked : BOOLEAN, n : Nat, ttl : Nat \cup {None}]
  /\ None \notin {"ok", "limited", "refused", "error"}
  /\ MayFail \in BOOLEAN

VARIABLES
  lock,      \* login_lock:ip:{ip} and login_lock:email:{email}
  row,       \* failed_login_count and locked_until of each user
  pc,        \* where each request is, or where it failed
  ip, email, \* what it presents
  good,      \* whether its password is right
  ipLock,    \* ip_lock of check_limit
  new,       \* the columns authenticate is to save
  raised,    \* the exception caught in Login.handle
  attempts,  \* attempts_ip and attempts_email of register_failure
  outcome,   \* the response
  before     \* history: the requests answered when it arrived

inputs == <<ip, email, good, before>>
locals == <<ipLock, new, raised, attempts>>
vars == <<lock, row, pc, inputs, locals, outcome>>

Lock == [locked : BOOLEAN, n : Nat, ttl : Nat \cup {None}]
Until == 0..DbLock \cup {None}
Change == [cols : SUBSET {"fails", "until"}, fails : 0..Max - 1, until : Until]
Outcomes == {"ok", "limited", "refused", "error"}
Labels ==
  {"new", "done", "get_ip", "get_email", "load", "save", "reset", "incr_ip",
   "expire_ip", "incr_email", "expire_email", "lock_ip", "lock_email"}

TypeOK ==
  /\ lock \in [Key -> Lock \cup {None}]
  /\ row \in [Registered -> [fails : 0..Max - 1, until : Until]]
  /\ pc \in [Request -> Labels]
  /\ ip \in [Request -> Ip \cup {None}]
  /\ email \in [Request -> Email \cup {None}]
  /\ good \in [Request -> BOOLEAN]
  /\ ipLock \in [Request -> BOOLEAN]
  /\ new \in [Request -> Change]
  /\ raised \in [Request -> {"refused", "error", None}]
  /\ attempts \in [Request -> [ip : Nat, email : Nat]]
  /\ outcome \in [Request -> Outcomes \cup {None}]
  /\ before \in [Request -> SUBSET Request]

NoChange == [cols |-> {}, fails |-> 0, until |-> None]

\* A row is created with no lock; an earlier lock may have run out.
Init ==
  /\ lock = [k \in Key |-> None]
  /\ row \in [Registered -> [fails : {0}, until : {None, 0}]]
  /\ pc = [r \in Request |-> "new"]
  /\ ip = [r \in Request |-> None]
  /\ email = [r \in Request |-> None]
  /\ good = [r \in Request |-> FALSE]
  /\ ipLock = [r \in Request |-> FALSE]
  /\ new = [r \in Request |-> NoChange]
  /\ raised = [r \in Request |-> None]
  /\ attempts = [r \in Request |-> [ip |-> 0, email |-> 0]]
  /\ outcome = [r \in Request |-> None]
  /\ before = [r \in Request |-> {}]

-----------------------------------------------------------------------------
\* Redis: a key whose time is up is gone.  INCR keeps the expiry of a key and
\* gives none to a new one; EXPIRE has no effect on a key that is gone.
Counted(k) ==
  IF lock[k] = None THEN [locked |-> FALSE, n |-> 1, ttl |-> None]
                    ELSE [lock[k] EXCEPT !.n = @ + 1]

Expired(k, n) == IF lock[k] = None THEN None ELSE [lock[k] EXCEPT !.ttl = n]

Locked(n) == [locked |-> TRUE, n |-> 0, ttl |-> n]

IsLocked(k) == lock[k] # None /\ lock[k].locked

\* The back-off of register_failure.
LockTime(n) ==
  CASE n = First -> Lock1
    [] n = First + 1 -> Lock2
    [] n = First + 2 -> Lock3
    [] OTHER -> Lock4

MaxAttempts(r) ==
  IF attempts[r].ip > attempts[r].email THEN attempts[r].ip ELSE attempts[r].email

\* The lock of a row is in force: locked_until > now.
InForce(u) == u.until # None /\ u.until > 0

-----------------------------------------------------------------------------
(***************************************************************************)
(* Control of a request.                                                   *)
(***************************************************************************)
Goto(r, l) == pc' = [pc EXCEPT ![r] = l] /\ UNCHANGED outcome

Answer(r, o) ==
  /\ pc' = [pc EXCEPT ![r] = "done"]
  /\ outcome' = [outcome EXCEPT ![r] = o]

Answered == {r \in Request : outcome[r] # None}

Arrive(r, i, e, g) ==
  /\ pc[r] = "new" /\ (g => e \in Registered)
  /\ ip' = [ip EXCEPT ![r] = i]
  /\ email' = [email EXCEPT ![r] = e]
  /\ good' = [good EXCEPT ![r] = g]
  /\ before' = [before EXCEPT ![r] = Answered]
  /\ Goto(r, "get_ip")
  /\ UNCHANGED <<lock, row, locals>>

\* What every step of a request leaves alone.
Handling(r, l) == pc[r] = l /\ outcome[r] = None /\ UNCHANGED inputs

\* authenticate raises: Login.handle catches it and registers a failure.
Raise(r, o) == raised' = [raised EXCEPT ![r] = o] /\ Goto(r, "incr_ip")

-----------------------------------------------------------------------------
(***************************************************************************)
(* Faulty variants of definitions below, each the trace of a plausible     *)
(* slip in the code.  The runs must tell every one of them from the code.  *)
(***************************************************************************)
\* check_limit takes only the value "locked" for a block, not a counter.
CheckEmailForLock(r) ==
  /\ Handling(r, "get_email")
  /\ IF IsLocked(ip[r]) \/ IsLocked(email[r]) THEN Answer(r, "limited") ELSE Goto(r, "load")
  /\ UNCHANGED <<lock, row, locals>>

\* check_limit reads both keys and raises nothing.
CheckEmailIdle(r) ==
  /\ Handling(r, "get_email")
  /\ Goto(r, "load")
  /\ UNCHANGED <<lock, row, locals>>

\* authenticate does not reset failed_login_count when it locks.
FailureKeepingCount(u) ==
  [cols |-> {"fails", "until"}, fails |-> u.fails + 1,
   until |-> IF u.fails + 1 >= Max THEN DbLock ELSE None]

\* authenticate resets failed_login_count at the Max-th failure and sets no lock.
FailureNoLock(u) ==
  LET n == u.fails + 1 IN
  [cols |-> {"fails", "until"}, fails |-> IF n >= Max THEN 0 ELSE n, until |-> None]

\* A successful login resets failed_login_count, not locked_until.
SuccessKeepingLock(u) ==
  [cols |-> IF u.fails > 0 THEN {"fails"} ELSE {}, fails |-> 0, until |-> None]

\* The route registers every login that authenticate lets in, too: register_failure
\* where reset stands.
ResetAsFailure(r) ==
  /\ Handling(r, "reset")
  /\ Goto(r, "incr_ip")
  /\ UNCHANGED <<lock, row, locals>>

\* register_failure gives no expiry to the counter of the address.
IncrIpForever(r) ==
  LET k == ip[r] IN
  /\ Handling(r, "incr_ip")
  /\ IF IsLocked(k)
       THEN Answer(r, "error") /\ UNCHANGED <<lock, attempts>>
       ELSE /\ lock' = [lock EXCEPT ![k] = Counted(k)]
            /\ attempts' = [attempts EXCEPT ![r].ip = Counted(k).n]
            /\ Goto(r, "incr_email")
  /\ UNCHANGED <<row, ipLock, new, raised>>

\* register_failure sets the lock of the e-mail without an expiry.
LockEmailForever(r) ==
  /\ Handling(r, "lock_email")
  /\ lock' = [lock EXCEPT ![email[r]] = Locked(None)]
  /\ Answer(r, raised[r])
  /\ UNCHANGED <<row, locals>>

-----------------------------------------------------------------------------
(***************************************************************************)
(* LoginRateLimiter.check_limit.                                           *)
(***************************************************************************)
CheckIp(r) ==
  /\ Handling(r, "get_ip")
  /\ ipLock' = [ipLock EXCEPT ![r] = lock[ip[r]] # None]
  /\ Goto(r, "get_email")
  /\ UNCHANGED <<lock, row, new, raised, attempts>>

CheckEmail(r) ==
  /\ Handling(r, "get_email")
  /\ IF ipLock[r] \/ lock[email[r]] # None THEN Answer(r, "limited") ELSE Goto(r, "load")
  /\ UNCHANGED <<lock, row, locals>>

(***************************************************************************)
(* services.authenticate.  What it saves is decided when the row is read;  *)
(* the ORM writes the columns whose value it changed.                      *)
(***************************************************************************)
Failure(u) ==
  LET n == u.fails + 1
      fails == IF n >= Max THEN 0 ELSE n
      until == IF n >= Max THEN DbLock ELSE None IN
  [cols |-> (IF fails # u.fails THEN {"fails"} ELSE {})
              \cup (IF until # None \/ u.until # None THEN {"until"} ELSE {}),
   fails |-> fails, until |-> until]

Success(u) ==
  [cols |-> (IF u.fails > 0 THEN {"fails"} ELSE {})
              \cup (IF u.until # None THEN {"until"} ELSE {}),
   fails |-> 0, until |-> None]

\* authenticate does not look at locked_until.
LoadUserBlind(r) ==
  /\ Handling(r, "load")
  /\ IF email[r] \notin Registered \ Inactive
       THEN Raise(r, "refused") /\ UNCHANGED new
       ELSE LET c == IF good[r] THEN Success(row[email[r]]) ELSE Failure(row[email[r]]) IN
            /\ new' = [new EXCEPT ![r] = c]
            /\ Goto(r, IF c.cols = {} /\ good[r] THEN "reset" ELSE "save")
            /\ UNCHANGED raised
  /\ UNCHANGED <<lock, row, ipLock, attempts>>

LoadUser(r) ==
  /\ Handling(r, "load")
  /\ IF email[r] \notin Registered \ Inactive \/ InForce(row[email[r]])
       THEN Raise(r, "refused") /\ UNCHANGED new
       ELSE LET c == IF good[r] THEN Success(row[email[r]]) ELSE Failure(row[email[r]]) IN
            /\ new' = [new EXCEPT ![r] = c]
            /\ Goto(r, IF c.cols = {} /\ good[r] THEN "reset" ELSE "save")
            /\ UNCHANGED raised
  /\ UNCHANGED <<lock, row, ipLock, attempts>>

\* UserRepository.update_user.
Saved(u, c) ==
  [fails |-> IF "fails" \in c.cols THEN c.fails ELSE u.fails,
   until |-> IF "until" \in c.cols THEN c.until ELSE u.until]

Save(r) ==
  /\ Handling(r, "save")
  /\ row' = [row EXCEPT ![email[r]] = Saved(@, new[r])]
  /\ new' = [new EXCEPT ![r] = NoChange]
  /\ IF good[r] THEN Goto(r, "reset") /\ UNCHANGED raised ELSE Raise(r, "refused")
  /\ UNCHANGED <<lock, ipLock, attempts>>

\* A database call raises, perhaps after the commit: that too is registered
\* as a failed attempt.
DatabaseError(r) ==
  /\ MayFail /\ pc[r] \in {"load", "save"} /\ Handling(r, pc[r])
  /\ \/ UNCHANGED row
     \/ pc[r] = "save" /\ row' = [row EXCEPT ![email[r]] = Saved(@, new[r])]
  /\ Raise(r, "error")
  /\ UNCHANGED <<lock, ipLock, new, attempts>>

(***************************************************************************)
(* LoginRateLimiter.register_failure.  INCR fails on the value "locked".   *)
(***************************************************************************)
IncrIp(r) ==
  LET k == ip[r] IN
  /\ Handling(r, "incr_ip")
  /\ IF IsLocked(k)
       THEN Answer(r, "error") /\ UNCHANGED <<lock, attempts>>
       ELSE /\ lock' = [lock EXCEPT ![k] = Counted(k)]
            /\ attempts' = [attempts EXCEPT ![r].ip = Counted(k).n]
            /\ Goto(r, IF Counted(k).n = 1 THEN "expire_ip" ELSE "incr_email")
  /\ UNCHANGED <<row, ipLock, new, raised>>

ExpireIp(r) ==
  /\ Handling(r, "expire_ip")
  /\ lock' = [lock EXCEPT ![ip[r]] = Expired(ip[r], CounterTTL)]
  /\ Goto(r, "incr_email")
  /\ UNCHANGED <<row, locals>>

\* After the counters: lock, or re-raise what authenticate raised.
Finish(r, n) == IF n >= Max THEN Goto(r, "lock_ip") ELSE Answer(r, raised[r])

IncrEmail(r) ==
  LET k == email[r] IN
  /\ Handling(r, "incr_email")
  /\ IF IsLocked(k)
       THEN Answer(r, "error") /\ UNCHANGED <<lock, attempts>>
       ELSE /\ lock' = [lock EXCEPT ![k] = Counted(k)]
            /\ attempts' = [attempts EXCEPT ![r].email = Counted(k).n]
            /\ IF Counted(k).n = 1 THEN Goto(r, "expire_email")
                                   ELSE Finish(r, MaxAttempts(r)')
  /\ UNCHANGED <<row, ipLock, new, raised>>

ExpireEmail(r) ==
  /\ Handling(r, "expire_email")
  /\ lock' = [lock EXCEPT ![email[r]] = Expired(email[r], CounterTTL)]
  /\ Finish(r, MaxAttempts(r))
  /\ UNCHANGED <<row, locals>>

LockIp(r) ==
  /\ Handling(r, "lock_ip")
  /\ lock' = [lock EXCEPT ![ip[r]] = Locked(LockTime(MaxAttempts(r)))]
  /\ Goto(r, "lock_email")
  /\ UNCHANGED <<row, locals>>

LockEmail(r) ==
  /\ Handling(r, "lock_email")
  /\ lock' = [lock EXCEPT ![email[r]] = Locked(LockTime(MaxAttempts(r)))]
  /\ Answer(r, raised[r])
  /\ UNCHANGED <<row, locals>>

\* LoginRateLimiter.reset: one DEL of both keys.  Login goes on to create a
\* session (AuthSessions).
Reset(r) ==
  /\ Handling(r, "reset")
  /\ lock' = [lock EXCEPT ![ip[r]] = None, ![email[r]] = None]
  /\ Answer(r, "ok")
  /\ UNCHANGED <<row, locals>>

-----------------------------------------------------------------------------
(***************************************************************************)
(* The environment.                                                        *)
(***************************************************************************)
\* A Redis call raises, or the worker dies: the rest of the handler does not run.
Fail(r) ==
  /\ MayFail /\ pc[r] # "new" /\ outcome[r] = None
  /\ outcome' = [outcome EXCEPT ![r] = "error"]
  /\ UNCHANGED <<lock, row, pc, inputs, locals>>

\* Every time left grows shorter; a key with none left is gone.
Shorter(n) == IF n \in {None, 0} THEN n ELSE n - 1

Tick ==
  /\ lock' = [k \in Key |->
       CASE lock[k] = None -> None
         [] lock[k] # None /\ lock[k].ttl = 1 -> None
         [] OTHER -> [lock[k] EXCEPT !.ttl = Shorter(@)]]
  /\ row' = [e \in Registered |-> [row[e] EXCEPT !.until = Shorter(@)]]
  /\ new' = [r \in Request |-> [new[r] EXCEPT !.until = Shorter(@)]]
  /\ UNCHANGED <<pc, inputs, ipLock, raised, attempts, outcome>>

-----------------------------------------------------------------------------
FailureStep(r) ==
  \/ IncrIp(r) \/ ExpireIp(r) \/ IncrEmail(r) \/ ExpireEmail(r)
  \/ LockIp(r) \/ LockEmail(r)

Step(r) ==
  \/ CheckIp(r) \/ CheckEmail(r) \/ LoadUser(r) \/ Save(r)
  \/ FailureStep(r) \/ Reset(r)

Next ==
  \/ \E r \in Request :
       \/ \E i \in Ip, e \in Email, g \in BOOLEAN : Arrive(r, i, e, g)
       \/ Step(r) \/ DatabaseError(r) \/ Fail(r)
  \/ Tick

Spec == Init /\ [][Next]_vars

\* The event loop runs every handler that can go on, and time passes.
FairSpec == Spec /\ (\A r \in Request : WF_vars(Step(r))) /\ WF_vars(Tick)

-----------------------------------------------------------------------------
(***************************************************************************)
(* What the login promises.                                                *)
(***************************************************************************)
\* Neither request was answered when the other arrived.
Overlap(r, s) == r \notin before[s] /\ s \notin before[r]

Sequential(S) == \A r, s \in S : r # s => ~Overlap(r, s)

\* A counter or lock that will never expire is about to get its expiry, from
\* a request that is between INCR and EXPIRE, or that failed there
\* (register_failure).
ExpiryPending ==
  \A k \in Key : lock[k] # None /\ lock[k].ttl = None =>
    \E r \in Request :
      \/ pc[r] = "expire_ip" /\ ip[r] = k
      \/ pc[r] = "expire_email" /\ email[r] = k

\* n logins of S that authenticate did not let in were in flight at the same time.
FailedTogether(S, n) ==
  \E T \in SUBSET {s \in S : raised[s] # None} :
    Cardinality(T) = n /\ \A s, t \in T : Overlap(s, t)

\* register_failure sets a progressive lock only when Max failed logins from one
\* address, or Max for one e-mail, were in flight at the same time: any earlier
\* failure keeps the next login out (check_limit reads the counter as a lock), and
\* a login that authenticate lets in counts for nothing.
LockTakesConcurrency ==
  \A r \in Request : pc[r] = "lock_ip" =>
    \/ FailedTogether({s \in Request : ip[s] = ip[r]}, Max)
    \/ FailedTogether({s \in Request : email[s] = email[r]}, Max)

\* While no call fails, a login ends in an error, and not in what authenticate
\* raised, only if a failed login that overlaps it set the lock of its address or
\* e-mail before it could count (INCR on "locked" raises, register_failure).
SetLock(s) ==
  /\ raised[s] # None /\ MaxAttempts(s) >= Max
  /\ pc[s] = "lock_email" \/ (pc[s] = "done" /\ outcome[s] = raised[s])

UncountedByLock ==
  \A r \in Request : ~MayFail /\ outcome[r] = "error" =>
    \E s \in Request \ {r} :
      Overlap(r, s) /\ SetLock(s) /\ (ip[s] = ip[r] \/ email[s] = email[r])

\* Logins with a wrong password that follow one another lock the row at the
\* Max-th (authenticate).
Tried(e) == {r \in Request : email[r] = e /\ outcome[r] # "limited"}

AllFailed(e) ==
  /\ Cardinality(Tried(e)) = Max
  /\ \A r \in Tried(e) : ~good[r] /\ outcome[r] = "refused"

FailuresLock ==
  \A e \in Registered \ Inactive :
    AllFailed(e) /\ Sequential(Tried(e)) => row[e].until # None

\* A login that no other login for the e-mail overlaps or follows leaves no
\* count and no lock in the row (authenticate).
LoginCleans ==
  \A r \in Request :
    outcome[r] = "ok" /\ (\A s \in Request : email[s] = email[r] => s = r \/ s \in before[r])
      => row[email[r]] = [fails |-> 0, until |-> None]

\* The lock of a row is erased while in force only by a login that overlaps
\* one of the failed logins, past its update: it read the row before the lock
\* was stored (authenticate).
LockErasedByRace ==
  [][\A e \in Registered : InForce(row[e]) /\ row'[e].until = None =>
       \E r, s \in Request :
         /\ r # s /\ email[r] = e /\ email[s] = e /\ Overlap(r, s)
         /\ pc[r] = "save" /\ raised[s] # None]_vars

\* While no call fails, every block ends (check_limit: "temporarily blocked").
BlocksEnd == \A k \in Key : (lock[k] # None) ~> (lock[k] = None)

-----------------------------------------------------------------------------
(***************************************************************************)
(* What the comments promise and the code does not do.                     *)
(***************************************************************************)
\* "From 5 failures onward, blocks are applied" (DOCUMENTATION.md): no login
\* is turned away before Max logins failed.
BlocksFromMax ==
  \A r \in Request : outcome[r] = "limited" =>
    Cardinality({s \in Request : raised[s] # None}) >= Max

\* "blocks are applied progressively" (DOCUMENTATION.md): a failure does not
\* shorten a lock.
LocksGrow ==
  [][\A k \in Key : IsLocked(k) /\ IsLocked(k)' =>
       lock[k].ttl <= lock'[k].ttl + 1]_vars

\* "temporarily blocked" (check_limit): when every login was answered, every
\* key has an expiry.
BlockIsTemporary ==
  Answered = Request => \A k \in Key : lock[k] # None => lock[k].ttl # None

\* "Register a failed login attempt for both IP and e-mail"
\* (register_failure): while no call fails, a login that authenticate turned
\* down is answered after both were counted.
RegistersBoth ==
  \A r \in Request : raised[r] # None /\ outcome[r] # None =>
    attempts[r].ip > 0 /\ attempts[r].email > 0

\* "Temporarily blocks users after failed attempts" (authenticate): Max failed
\* logins lock the row, also when they overlap.
LostFailures ==
  \A e \in Registered \ Inactive : AllFailed(e) => row[e].until # None

\* "Temporarily blocks users after failed attempts" (authenticate): no login
\* erases a lock in force.
LockHolds ==
  [][\A e \in Registered : InForce(row[e]) => row'[e].until # None]_vars

=============================================================================
