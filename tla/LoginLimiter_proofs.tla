------------------------ MODULE LoginLimiter_proofs ------------------------
(***************************************************************************)
(* What holds of the login for every set of requests, addresses and        *)
(* e-mails, every limit and every lifetime, whatever call fails.           *)
(***************************************************************************)
EXTENDS LoginLimiter, TLAPS

\* A request that has arrived presents an address and an e-mail, and one that
\* saves a row presents the e-mail of that row.
Presented ==
  \A r \in Request :
    /\ pc[r] # "new" => ip[r] \in Ip /\ email[r] \in Email
    /\ pc[r] = "save" => email[r] \in Registered

IInv == TypeOK /\ Presented /\ ExpiryPending

\* The invariant holds before any login.
LEMMA InitInv == Init => IInv
<1> SUFFICES ASSUME Init PROVE IInv
  OBVIOUS
<1>1. TypeOK
  <2>1. NoChange \in Change
    BY ConstantsAssumption DEF NoChange, Change, Until
  <2>2. row \in [Registered -> [fails : 0..Max - 1, until : Until]]
    <3>1. [fails : {0}, until : {None, 0}] \subseteq [fails : 0..Max - 1, until : Until]
      BY ConstantsAssumption DEF Until
    <3> QED BY <3>1 DEF Init
  <2> QED BY <2>1, <2>2 DEF Init, TypeOK, Labels
<1>2. Presented /\ ExpiryPending
  BY DEF Init, Presented, ExpiryPending
<1> QED BY <1>1, <1>2 DEF IInv

\* What a row is to become when a password is wrong, or right, fits the row.
LEMMA ChangeType ==
  ASSUME NEW u \in [fails : 0..Max - 1, until : Until]
  PROVE  Failure(u) \in Change /\ Success(u) \in Change
<1> Max \in Nat \ {0} /\ DbLock \in Nat \ {0}
  BY ConstantsAssumption
<1>1. Failure(u) \in Change
  <2> DEFINE n == u.fails + 1
             fails == IF n >= Max THEN 0 ELSE n
             until == IF n >= Max THEN DbLock ELSE None
  <2>1. fails \in 0..Max - 1 /\ until \in Until
    BY DEF Until
  <2> QED BY <2>1 DEF Failure, Change
<1>2. Success(u) \in Change
  BY DEF Success, Change, Until
<1> QED BY <1>1, <1>2

\* INCR, EXPIRE and SET leave a value that a lock key may hold.
LEMMA LockType ==
  ASSUME TypeOK, NEW k \in Key
  PROVE  /\ Counted(k) \in Lock
         /\ Counted(k).n \in Nat
         /\ Expired(k, CounterTTL) \in Lock \cup {None}
         /\ Expired(k, CounterTTL) # None => Expired(k, CounterTTL).ttl = CounterTTL
         /\ \A n \in Int : Locked(LockTime(n)) \in Lock /\ LockTime(n) \in Nat
<1> lock[k] \in Lock \cup {None} /\ Ttls \subseteq Nat \ {0}
  BY ConstantsAssumption DEF TypeOK
<1>1. Counted(k) \in Lock /\ Counted(k).n \in Nat
  BY DEF Counted, Lock
<1>2. Expired(k, CounterTTL) \in Lock \cup {None}
      /\ (Expired(k, CounterTTL) # None => Expired(k, CounterTTL).ttl = CounterTTL)
  BY DEF Expired, Lock, Ttls
<1>3. \A n \in Int : LockTime(n) \in Nat
  BY DEF LockTime, Ttls
<1>4. \A n \in Int : Locked(LockTime(n)) \in Lock
  BY <1>3 DEF Locked, Lock
<1> QED BY <1>1, <1>2, <1>3, <1>4

\* The number of attempts that decides the lock is a number.
LEMMA MaxAttemptsType ==
  ASSUME TypeOK, NEW r \in Request
  PROVE  MaxAttempts(r) \in Nat
BY DEF TypeOK, MaxAttempts

-----------------------------------------------------------------------------
(***************************************************************************)
(* The arrival of a request and the passing of time.                       *)
(***************************************************************************)
\* A request arrives.
LEMMA ArriveInv ==
  ASSUME IInv, NEW r \in Request, NEW i \in Ip, NEW e \in Email, NEW g \in BOOLEAN,
         Arrive(r, i, e, g)
  PROVE  IInv'
<1>1. TypeOK'
  BY DEF IInv, TypeOK, Arrive, Goto, Labels, locals, Answered
<1>2. Presented'
  BY DEF IInv, TypeOK, Presented, Arrive, Goto
<1>3. ExpiryPending'
  <2> SUFFICES ASSUME NEW k \in Key, lock[k] # None, lock[k].ttl = None
               PROVE  ExpiryPending!(k)'
    BY DEF ExpiryPending, Arrive
  <2>1. PICK s \in Request : \/ pc[s] = "expire_ip" /\ ip[s] = k
                             \/ pc[s] = "expire_email" /\ email[s] = k
    BY DEF IInv, ExpiryPending
  <2>2. s # r
    BY <2>1 DEF Arrive
  <2> QED BY <2>1, <2>2 DEF Arrive, Goto, IInv, TypeOK
<1> QED BY <1>1, <1>2, <1>3 DEF IInv

\* A tick.
LEMMA TickInv ==
  ASSUME IInv, Tick
  PROVE  IInv'
<1>1. \A n \in Nat \cup {None} : Shorter(n) \in Nat \cup {None} /\ (Shorter(n) = None <=> n = None)
  BY ConstantsAssumption DEF Shorter
<1>2. \A n \in Until : Shorter(n) \in Until
  BY ConstantsAssumption DEF Shorter, Until
<1>3. lock' \in [Key -> Lock \cup {None}]
  <2>1. ASSUME NEW k \in Key, lock[k] # None
        PROVE  [lock[k] EXCEPT !.ttl = Shorter(@)] \in Lock
    BY <2>1, <1>1 DEF IInv, TypeOK, Lock
  <2> QED BY <2>1 DEF Tick
<1>4. row' \in [Registered -> [fails : 0..Max - 1, until : Until]]
  BY <1>2 DEF IInv, TypeOK, Tick
<1>5. new' \in [Request -> Change]
  <2>1. ASSUME NEW r \in Request PROVE [new[r] EXCEPT !.until = Shorter(@)] \in Change
    <3>1. new[r] \in Change
      BY DEF IInv, TypeOK
    <3>2. new[r].until \in Until /\ Shorter(new[r].until) \in Until
      BY <3>1, <1>2 DEF Change
    <3> QED BY <3>1, <3>2 DEF Change
  <2> QED BY <2>1 DEF Tick
<1>6. TypeOK'
  BY <1>3, <1>4, <1>5 DEF IInv, TypeOK, Tick, inputs
<1>7. Presented'
  BY DEF IInv, Presented, Tick, inputs
<1>8. \A k \in Key : lock'[k] # None /\ lock'[k].ttl = None => lock[k] # None /\ lock[k].ttl = None
  BY <1>1 DEF IInv, TypeOK, Tick, Lock
<1>9. ExpiryPending'
  BY <1>8 DEF IInv, ExpiryPending, Tick, inputs
<1> QED BY <1>6, <1>7, <1>9 DEF IInv

-----------------------------------------------------------------------------
(***************************************************************************)
(* The steps of a request.                                                 *)
(***************************************************************************)
\* A step that leaves the lock keys alone, and is not an EXPIRE, keeps every
\* pending expiry.
LEMMA PendingKept ==
  ASSUME IInv, NEW r \in Request, NEW l \in Labels,
         pc[r] \notin {"expire_ip", "expire_email"},
         pc' = [pc EXCEPT ![r] = l], UNCHANGED <<lock, inputs>>
  PROVE  ExpiryPending'
<1> SUFFICES ASSUME NEW k \in Key, lock[k] # None, lock[k].ttl = None
             PROVE  \E s \in Request : \/ pc'[s] = "expire_ip" /\ ip[s] = k
                                       \/ pc'[s] = "expire_email" /\ email[s] = k
  BY DEF ExpiryPending, inputs
<1>1. PICK s \in Request : \/ pc[s] = "expire_ip" /\ ip[s] = k
                           \/ pc[s] = "expire_email" /\ email[s] = k
  BY DEF IInv, ExpiryPending
<1>2. s # r
  BY <1>1
<1> QED BY <1>1, <1>2 DEF IInv, TypeOK

\* A command on key k of request r that gives k an expiry, or deletes it, keeps
\* the pending expiry of every other key.
LEMMA PendingElsewhere ==
  ASSUME IInv, NEW r \in Request, NEW l \in Labels, NEW k \in {ip[r], email[r]}, k \in Key,
         pc[r] = "expire_ip" => k = ip[r],
         pc[r] = "expire_email" => k = email[r],
         pc' = [pc EXCEPT ![r] = l], UNCHANGED inputs,
         \A j \in Key \ {k} : lock'[j] = lock[j],
         lock'[k] # None /\ lock'[k].ttl = None =>
           \/ l = "expire_ip" /\ k = ip[r]
           \/ l = "expire_email" /\ k = email[r]
           \/ /\ lock[k] # None /\ lock[k].ttl = None
              /\ pc[r] \notin {"expire_ip", "expire_email"}
  PROVE  ExpiryPending'
<1> SUFFICES ASSUME NEW j \in Key, lock'[j] # None, lock'[j].ttl = None
             PROVE  \E s \in Request : \/ pc'[s] = "expire_ip" /\ ip[s] = j
                                       \/ pc'[s] = "expire_email" /\ email[s] = j
  BY DEF ExpiryPending, inputs
<1>0. pc'[r] = l /\ \A s \in Request \ {r} : pc'[s] = pc[s]
  BY DEF IInv, TypeOK
<1>1. CASE lock[j] # None /\ lock[j].ttl = None
  <2>1. PICK s \in Request : \/ pc[s] = "expire_ip" /\ ip[s] = j
                             \/ pc[s] = "expire_email" /\ email[s] = j
    BY <1>1 DEF IInv, ExpiryPending
  <2>2. CASE s # r
    BY <2>1, <2>2, <1>0
  <2>3. CASE s = r
    BY <2>1, <2>3, <1>0
  <2> QED BY <2>2, <2>3
<1>2. CASE ~(lock[j] # None /\ lock[j].ttl = None)
  BY <1>0, <1>2
<1> QED BY <1>1, <1>2

\* check_limit.
LEMMA CheckInv ==
  ASSUME IInv, NEW r \in Request, CheckIp(r) \/ CheckEmail(r)
  PROVE  IInv'
<1>1. PICK l \in {"get_email", "load", "done"} : pc' = [pc EXCEPT ![r] = l]
  BY DEF CheckIp, CheckEmail, Goto, Answer
<1>2. pc[r] \in {"get_ip", "get_email"} /\ UNCHANGED <<lock, row, inputs>>
  BY DEF CheckIp, CheckEmail, Handling
<1>3. TypeOK'
  <2>1. CASE CheckIp(r)
    BY <2>1 DEF IInv, TypeOK, CheckIp, Handling, Goto, Labels, inputs
  <2>2. CASE CheckEmail(r)
    BY <2>2 DEF IInv, TypeOK, CheckEmail, Handling, Goto, Answer, Labels, Outcomes, inputs, locals
  <2> QED BY <2>1, <2>2
<1>4. Presented'
  BY <1>1, <1>2 DEF IInv, TypeOK, Presented, inputs
<1>5. ExpiryPending'
  BY <1>1, <1>2, PendingKept DEF Labels
<1> QED BY <1>3, <1>4, <1>5 DEF IInv

\* authenticate.
LEMMA AuthenticateInv ==
  ASSUME IInv, NEW r \in Request, LoadUser(r) \/ Save(r) \/ DatabaseError(r)
  PROVE  IInv'
<1>1. PICK l \in {"reset", "save", "incr_ip"} : pc' = [pc EXCEPT ![r] = l]
  BY DEF LoadUser, Save, DatabaseError, Raise, Goto
<1>2. pc[r] \in {"load", "save"} /\ UNCHANGED <<lock, inputs, outcome>>
  BY DEF LoadUser, Save, DatabaseError, Handling, Raise, Goto
\* What update_user makes of the row fits it.
<1>0. ASSUME pc[r] = "save"
      PROVE  Saved(row[email[r]], new[r]) \in [fails : 0..Max - 1, until : Until]
  <2>1. email[r] \in Registered
    BY <1>0 DEF IInv, Presented
  <2>2. new[r] \in Change
    BY DEF IInv, TypeOK
  <2>3. row[email[r]] \in [fails : 0..Max - 1, until : Until]
    BY <2>1 DEF IInv, TypeOK
  <2> QED BY <2>2, <2>3 DEF Saved, Change
<1>3. TypeOK'
  <2>1. CASE LoadUser(r)
    <3>1. CASE email[r] \notin Registered \ Inactive \/ InForce(row[email[r]])
      BY <3>1, <2>1, <1>1, <1>2
      DEF IInv, TypeOK, LoadUser, Raise, Goto, Labels, inputs
    <3>2. CASE ~(email[r] \notin Registered \ Inactive \/ InForce(row[email[r]]))
      <4> DEFINE c == IF good[r] THEN Success(row[email[r]]) ELSE Failure(row[email[r]])
      <4>1. row[email[r]] \in [fails : 0..Max - 1, until : Until]
        BY <3>2 DEF IInv, TypeOK
      <4>2. c \in Change
        BY <4>1, ChangeType
      <4>3. new' = [new EXCEPT ![r] = c] /\ UNCHANGED <<row, raised, ipLock, attempts>>
        BY <3>2, <2>1 DEF LoadUser
      <4> QED BY <4>2, <4>3, <1>1, <1>2 DEF IInv, TypeOK, Labels, inputs
    <3> QED BY <3>1, <3>2
  <2>2. CASE Save(r)
    <3>2. NoChange \in Change
      BY ConstantsAssumption DEF NoChange, Change, Until
    <3>3. raised' \in [Request -> {"refused", "error", None}]
      BY <2>2 DEF IInv, TypeOK, Save, Raise
    <3>4. row' \in [Registered -> [fails : 0..Max - 1, until : Until]]
      BY <1>0, <2>2 DEF IInv, TypeOK, Save, Handling
    <3> QED BY <3>2, <3>3, <3>4, <2>2, <1>1, <1>2
      DEF IInv, TypeOK, Save, Labels, inputs
  <2>3. CASE DatabaseError(r)
    <3>1. row' \in [Registered -> [fails : 0..Max - 1, until : Until]]
      BY <1>0, <2>3 DEF IInv, TypeOK, DatabaseError
    <3> QED BY <3>1, <2>3, <1>1, <1>2
      DEF IInv, TypeOK, DatabaseError, Raise, Goto, Labels, inputs
  <2> QED BY <2>1, <2>2, <2>3
<1>4. Presented'
  <2>1. ASSUME pc'[r] = "save" PROVE email[r] \in Registered
    BY <2>1 DEF IInv, TypeOK, LoadUser, Save, DatabaseError, Raise, Goto
  <2> QED BY <2>1, <1>1, <1>2 DEF IInv, TypeOK, Presented, inputs
<1>5. ExpiryPending'
  BY <1>1, <1>2, PendingKept DEF Labels
<1> QED BY <1>3, <1>4, <1>5 DEF IInv

\* The INCR commands of register_failure.
LEMMA IncrInv ==
  ASSUME IInv, NEW r \in Request, IncrIp(r) \/ IncrEmail(r)
  PROVE  IInv'
<1> DEFINE k == IF pc[r] = "incr_ip" THEN ip[r] ELSE email[r]
<1>1. /\ pc[r] \in {"incr_ip", "incr_email"}
      /\ IncrIp(r) => pc[r] = "incr_ip"
      /\ IncrEmail(r) => pc[r] = "incr_email"
      /\ UNCHANGED <<row, inputs, ipLock, new, raised>>
  BY DEF IncrIp, IncrEmail, Handling
<1>2. k \in Key /\ k \in {ip[r], email[r]} /\ ip[r] \in Ip /\ email[r] \in Email
  BY <1>1 DEF IInv, Presented, Key
<1>3. PICK l \in {"done", "expire_ip", "incr_email", "expire_email", "lock_ip"} :
        pc' = [pc EXCEPT ![r] = l]
  BY DEF IncrIp, IncrEmail, Finish, Goto, Answer
<1>4. CASE IsLocked(k)
  <2>1. UNCHANGED <<lock, attempts>> /\ Answer(r, "error")
    BY <1>1, <1>4 DEF IncrIp, IncrEmail
  <2>2. TypeOK'
    BY <2>1, <1>1 DEF IInv, TypeOK, Answer, Labels, Outcomes, inputs
  <2>3. Presented'
    BY <1>1, <1>3 DEF IInv, TypeOK, Presented, inputs
  <2>4. ExpiryPending'
    BY <2>1, <1>1, <1>3, PendingKept DEF Labels
  <2> QED BY <2>2, <2>3, <2>4 DEF IInv
<1>5. CASE ~IsLocked(k)
  <2>1. lock' = [lock EXCEPT ![k] = Counted(k)]
    BY <1>1, <1>5 DEF IncrIp, IncrEmail
  <2>2. Counted(k) \in Lock /\ Counted(k).n \in Nat
    BY <1>2, LockType DEF IInv
  <2>3. attempts' \in [Request -> [ip : Nat, email : Nat]]
    <3>1. attempts \in [Request -> [ip : Nat, email : Nat]]
      BY DEF IInv, TypeOK
    <3>2. CASE IncrIp(r)
      <4>1. attempts' = [attempts EXCEPT ![r].ip = Counted(k).n]
        BY <3>2, <1>1, <1>5 DEF IncrIp
      <4> QED BY <4>1, <3>1, <2>2
    <3>3. CASE IncrEmail(r)
      <4>1. attempts' = [attempts EXCEPT ![r].email = Counted(k).n]
        BY <3>3, <1>1, <1>5 DEF IncrEmail
      <4> QED BY <4>1, <3>1, <2>2
    <3> QED BY <3>2, <3>3
  <2>4. outcome' \in [Request -> Outcomes \cup {None}]
    BY <1>1, <1>5 DEF IInv, TypeOK, IncrIp, IncrEmail, Finish, Goto, Answer, Outcomes
  <2>5. TypeOK'
    BY <2>1, <2>2, <2>3, <2>4, <1>1, <1>2, <1>3 DEF IInv, TypeOK, Labels, inputs
  <2>6. Presented'
    BY <1>1, <1>3 DEF IInv, TypeOK, Presented, inputs
  <2>7. lock[k] = None => \/ l = "expire_ip" /\ k = ip[r]
                          \/ l = "expire_email" /\ k = email[r]
    <3>1. ASSUME lock[k] = None PROVE Counted(k).n = 1
      BY <3>1 DEF Counted
    <3>2. pc'[r] = l
      BY <1>3 DEF IInv, TypeOK
    <3> QED BY <3>1, <3>2, <1>1, <1>5 DEF IncrIp, IncrEmail, Goto, IInv, TypeOK
  <2>8. lock[k] # None => Counted(k).ttl = lock[k].ttl
    BY <1>2 DEF IInv, TypeOK, Counted, Lock
  <2>9. lock'[k] = Counted(k) /\ \A j \in Key \ {k} : lock'[j] = lock[j]
    BY <2>1, <1>2 DEF IInv, TypeOK
  <2>10. ExpiryPending'
    <3>1. pc[r] \notin {"expire_ip", "expire_email"}
      BY <1>1
    <3>2. lock'[k] # None /\ lock'[k].ttl = None =>
            \/ l = "expire_ip" /\ k = ip[r]
            \/ l = "expire_email" /\ k = email[r]
            \/ lock[k] # None /\ lock[k].ttl = None
      BY <2>7, <2>8, <2>9
    <3>3. UNCHANGED inputs /\ l \in Labels
      BY <1>1, <1>3 DEF Labels
    <3> HIDE DEF k
    <3> QED BY <3>1, <3>2, <3>3, <2>9, <1>2, <1>3, PendingElsewhere
  <2> QED BY <2>5, <2>6, <2>10 DEF IInv
<1> QED BY <1>4, <1>5

\* The EXPIRE and SET commands of register_failure.
LEMMA ExpireInv ==
  ASSUME IInv, NEW r \in Request,
         ExpireIp(r) \/ ExpireEmail(r) \/ LockIp(r) \/ LockEmail(r)
  PROVE  IInv'
<1> DEFINE k == IF pc[r] \in {"expire_ip", "lock_ip"} THEN ip[r] ELSE email[r]
           v == IF pc[r] \in {"lock_ip", "lock_email"}
                  THEN Locked(LockTime(MaxAttempts(r))) ELSE Expired(k, CounterTTL)
<1>1. /\ pc[r] \in {"expire_ip", "expire_email", "lock_ip", "lock_email"}
      /\ UNCHANGED <<row, inputs, locals>>
      /\ lock' = [lock EXCEPT ![k] = v]
  BY DEF ExpireIp, ExpireEmail, LockIp, LockEmail, Handling
<1>2. k \in Key /\ k \in {ip[r], email[r]} /\ ip[r] \in Ip /\ email[r] \in Email
  BY <1>1 DEF IInv, Presented, Key
<1>3. PICK l \in {"incr_email", "lock_ip", "lock_email", "done"} :
        pc' = [pc EXCEPT ![r] = l]
  BY DEF ExpireIp, ExpireEmail, LockIp, LockEmail, Finish, Goto, Answer
<1>4. v \in Lock \cup {None} /\ (v # None => v.ttl # None)
  <2>1. Expired(k, CounterTTL) \in Lock \cup {None}
        /\ (Expired(k, CounterTTL) # None => Expired(k, CounterTTL).ttl = CounterTTL)
    BY <1>2, LockType DEF IInv
  <2>2. Locked(LockTime(MaxAttempts(r))) \in Lock /\ LockTime(MaxAttempts(r)) \in Nat
    BY <1>2, LockType, MaxAttemptsType DEF IInv
  <2>3. None \notin Nat /\ CounterTTL \in Nat
    BY ConstantsAssumption DEF Ttls
  <2> QED BY <2>1, <2>2, <2>3 DEF Locked
<1>5. outcome' \in [Request -> Outcomes \cup {None}]
  BY DEF IInv, TypeOK, ExpireIp, ExpireEmail, LockIp, LockEmail, Finish, Goto, Answer, Outcomes
<1>6. TypeOK'
  BY <1>1, <1>2, <1>3, <1>4, <1>5 DEF IInv, TypeOK, Labels, inputs, locals
<1>7. Presented'
  BY <1>1, <1>3 DEF IInv, TypeOK, Presented, inputs
<1>8. lock'[k] = v /\ \A j \in Key \ {k} : lock'[j] = lock[j]
  BY <1>1, <1>2 DEF IInv, TypeOK
<1>9. ExpiryPending'
  BY <1>1, <1>2, <1>3, <1>4, <1>8, PendingElsewhere DEF Labels
<1> QED BY <1>6, <1>7, <1>9 DEF IInv

\* reset deletes both keys.
LEMMA ResetInv ==
  ASSUME IInv, NEW r \in Request, Reset(r)
  PROVE  IInv'
<1>1. /\ pc[r] = "reset" /\ pc' = [pc EXCEPT ![r] = "done"]
      /\ UNCHANGED <<row, inputs, locals>>
      /\ lock' = [lock EXCEPT ![ip[r]] = None, ![email[r]] = None]
  BY DEF Reset, Handling, Answer
<1>2. TypeOK'
  BY <1>1 DEF IInv, TypeOK, Reset, Answer, Labels, Outcomes, inputs, locals
<1>3. Presented'
  BY <1>1 DEF IInv, TypeOK, Presented, inputs
<1>4. \A k \in Key : lock'[k] # None => lock'[k] = lock[k]
  BY <1>1 DEF IInv, TypeOK
<1>5. ExpiryPending'
  <2> SUFFICES ASSUME NEW k \in Key, lock'[k] # None, lock'[k].ttl = None
               PROVE  \E s \in Request : \/ pc'[s] = "expire_ip" /\ ip[s] = k
                                         \/ pc'[s] = "expire_email" /\ email[s] = k
    BY <1>1 DEF ExpiryPending, inputs
  <2>1. PICK s \in Request : \/ pc[s] = "expire_ip" /\ ip[s] = k
                             \/ pc[s] = "expire_email" /\ email[s] = k
    BY <1>4 DEF IInv, ExpiryPending
  <2>2. s # r
    BY <2>1, <1>1
  <2> QED BY <2>1, <2>2, <1>1 DEF IInv, TypeOK
<1> QED BY <1>2, <1>3, <1>5 DEF IInv

\* The handler stops where it is.
LEMMA FailInv ==
  ASSUME IInv, NEW r \in Request, Fail(r)
  PROVE  IInv'
BY DEF IInv, TypeOK, Presented, ExpiryPending, Fail, Outcomes, inputs, locals

\* The invariant holds throughout.
THEOREM Invariance == Spec => []IInv
<1>1. IInv /\ [Next]_vars => IInv'
  <2> SUFFICES ASSUME IInv, [Next]_vars PROVE IInv'
    OBVIOUS
  <2>1. ASSUME NEW r \in Request, NEW i \in Ip, NEW e \in Email, NEW g \in BOOLEAN,
               Arrive(r, i, e, g)
        PROVE  IInv'
    BY <2>1, ArriveInv
  <2>2. ASSUME NEW r \in Request, Step(r) PROVE IInv'
    BY <2>2, CheckInv, AuthenticateInv, IncrInv, ExpireInv, ResetInv DEF Step, FailureStep
  <2>3. ASSUME NEW r \in Request, DatabaseError(r) PROVE IInv'
    BY <2>3, AuthenticateInv
  <2>4. ASSUME NEW r \in Request, Fail(r) PROVE IInv'
    BY <2>4, FailInv
  <2>5. CASE Tick
    BY <2>5, TickInv
  <2>6. CASE UNCHANGED vars
    BY <2>6 DEF vars, inputs, locals, IInv, TypeOK, Presented, ExpiryPending
  <2> QED BY <2>1, <2>2, <2>3, <2>4, <2>5, <2>6 DEF Next
<1> QED BY <1>1, InitInv, PTL DEF Spec

\* Every variable keeps its type: in particular failed_login_count stays below
\* the limit, whatever updates race.
THEOREM TypeCorrect == Spec => []TypeOK
<1>1. IInv => TypeOK
  BY DEF IInv
<1> QED BY <1>1, Invariance, PTL

\* No counter and no lock lives for ever unless the worker that was to give it
\* an expiry stopped between two commands.
THEOREM ExpiryComes == Spec => []ExpiryPending
<1>1. IInv => ExpiryPending
  BY DEF IInv
<1> QED BY <1>1, Invariance, PTL

-----------------------------------------------------------------------------
(***************************************************************************)
(* What any step does to the requests.                                     *)
(***************************************************************************)
StepOf(r) ==
  \/ \E i \in Ip, e \in Email, g \in BOOLEAN : Arrive(r, i, e, g)
  \/ Step(r) \/ DatabaseError(r) \/ Fail(r)

\* What a request has done at each of its steps.
StagedAt(r) ==
  /\ pc[r] = "new" => outcome[r] = None /\ email[r] = None
  /\ pc[r] \in {"new", "get_ip", "get_email", "load", "save", "reset"} => raised[r] = None
  /\ pc[r] \in {"incr_ip", "expire_ip", "incr_email", "expire_email", "lock_ip", "lock_email"} =>
       raised[r] # None
  /\ raised[r] = "error" => MayFail
  /\ pc[r] \in {"lock_ip", "lock_email"} => MaxAttempts(r) >= Max
  /\ pc[r] = "done" => outcome[r] # None

Staged == \A r \in Request : StagedAt(r)

\* A request knows only requests that were answered.
Backwards == \A r, s \in Request : s \in before[r] => outcome[s] # None

Told == Staged /\ Backwards

\* A step is one of a request, a tick, or none.
LEMMA Steps ==
  ASSUME [Next]_vars
  PROVE  (\E r \in Request : StepOf(r)) \/ Tick \/ UNCHANGED vars
BY DEF Next, StepOf

\* A request that was not answered moves alone.
LEMMA Alone ==
  ASSUME IInv, Told, NEW r \in Request, StepOf(r)
  PROVE  /\ outcome[r] = None /\ pc'[r] # "new"
         /\ pc[r] # "new" => UNCHANGED inputs
         /\ pc[r] = "new" => /\ pc'[r] = "get_ip" /\ before' = [before EXCEPT ![r] = Answered]
                            /\ UNCHANGED <<lock, row, locals, outcome>>
         /\ \A s \in Request \ {r} :
              /\ pc'[s] = pc[s] /\ outcome'[s] = outcome[s] /\ before'[s] = before[s]
              /\ ip'[s] = ip[s] /\ email'[s] = email[s] /\ good'[s] = good[s]
              /\ ipLock'[s] = ipLock[s] /\ new'[s] = new[s]
              /\ raised'[s] = raised[s] /\ attempts'[s] = attempts[s]
<1>1. CASE \E i \in Ip, e \in Email, g \in BOOLEAN : Arrive(r, i, e, g)
  BY <1>1 DEF IInv, TypeOK, Told, Staged, StagedAt, Arrive, Goto, locals
<1>2. CASE CheckIp(r) \/ CheckEmail(r)
  BY <1>2 DEF IInv, TypeOK, CheckIp, CheckEmail, Handling, Goto, Answer, inputs, locals
<1>3. CASE LoadUser(r)
  BY <1>3 DEF IInv, TypeOK, LoadUser, Handling, Raise, Goto, inputs
<1>4. CASE Save(r) \/ DatabaseError(r)
  BY <1>4 DEF IInv, TypeOK, Save, DatabaseError, Handling, Raise, Goto, inputs
<1>5. CASE IncrIp(r)
  BY <1>5 DEF IInv, TypeOK, IncrIp, Handling, Goto, Answer, inputs
<1>6. CASE IncrEmail(r)
  BY <1>6 DEF IInv, TypeOK, IncrEmail, Handling, Finish, Goto, Answer, inputs
<1>7. CASE ExpireIp(r) \/ ExpireEmail(r)
  BY <1>7 DEF IInv, TypeOK, ExpireIp, ExpireEmail, Handling, Finish, Goto, Answer, inputs, locals
<1>8. CASE LockIp(r) \/ LockEmail(r) \/ Reset(r)
  BY <1>8 DEF IInv, TypeOK, LockIp, LockEmail, Reset, Handling, Goto, Answer, inputs, locals
<1>9. CASE Fail(r)
  BY <1>9 DEF IInv, TypeOK, Fail, inputs, locals
<1> QED BY <1>1, <1>2, <1>3, <1>4, <1>5, <1>6, <1>7, <1>8, <1>9 DEF StepOf, Step, FailureStep

\* What a request has done stays true of it.
LEMMA StagedOwn ==
  ASSUME IInv, Told, NEW r \in Request, StepOf(r)
  PROVE  StagedAt(r)'
<1> None \notin Outcomes \cup {"refused", "error"}
  BY ConstantsAssumption DEF Outcomes
<1>0. StagedAt(r)
  BY DEF Told, Staged, StagedAt
<1>1. CASE \E i \in Ip, e \in Email, g \in BOOLEAN : Arrive(r, i, e, g)
  BY <1>0, <1>1 DEF IInv, TypeOK, StagedAt, Arrive, Goto, locals
<1>2. CASE CheckIp(r) \/ CheckEmail(r)
  BY <1>0, <1>2 DEF IInv, TypeOK, StagedAt, CheckIp, CheckEmail, Handling, Goto, Answer, locals, Outcomes
<1>3. CASE LoadUser(r)
  BY <1>0, <1>3 DEF IInv, TypeOK, StagedAt, LoadUser, Handling, Raise, Goto
<1>4. CASE Save(r) \/ DatabaseError(r)
  BY <1>0, <1>4 DEF IInv, TypeOK, StagedAt, Save, DatabaseError, Handling, Raise, Goto
<1>5. CASE IncrIp(r)
  BY <1>0, <1>5 DEF IInv, TypeOK, StagedAt, IncrIp, Handling, Goto, Answer, Outcomes
<1>6. CASE IncrEmail(r)
  BY <1>0, <1>6 DEF IInv, TypeOK, StagedAt, IncrEmail, Handling, Finish, Goto, Answer, Outcomes
<1>7. CASE ExpireIp(r)
  BY <1>0, <1>7 DEF IInv, TypeOK, StagedAt, ExpireIp, Handling, Goto, locals
<1>8. CASE ExpireEmail(r)
  BY <1>0, <1>8
  DEF IInv, TypeOK, StagedAt, ExpireEmail, Handling, Finish, Goto, Answer, locals, MaxAttempts
<1>9. CASE LockIp(r) \/ LockEmail(r) \/ Reset(r)
  BY <1>0, <1>9
  DEF IInv, TypeOK, StagedAt, LockIp, LockEmail, Reset, Handling, Goto, Answer, locals, MaxAttempts,
      Outcomes
<1>10. CASE Fail(r)
  BY <1>0, <1>10 DEF IInv, TypeOK, StagedAt, Fail, locals, MaxAttempts, Outcomes
<1> QED BY <1>1, <1>2, <1>3, <1>4, <1>5, <1>6, <1>7, <1>8, <1>9, <1>10 DEF StepOf, Step, FailureStep

LEMMA ToldStep ==
  ASSUME IInv, Told, [Next]_vars
  PROVE  Told'
<1>1. CASE UNCHANGED vars
  BY <1>1 DEF Told, Staged, StagedAt, Backwards, MaxAttempts, vars, inputs, locals
<1>2. CASE Tick
  BY <1>2 DEF Told, Staged, StagedAt, Backwards, MaxAttempts, Tick, inputs
<1>3. ASSUME NEW q \in Request, StepOf(q) PROVE Told'
  <2>1. Staged'
    <3>1. ASSUME NEW r \in Request \ {q} PROVE StagedAt(r)'
      BY <1>3, Alone DEF Told, Staged, StagedAt, MaxAttempts
    <3> QED BY <1>3, <3>1, StagedOwn DEF Staged, StagedAt
  <2>2. Backwards'
    <3> SUFFICES ASSUME NEW r \in Request, NEW s \in Request, s \in before'[r]
                 PROVE  outcome'[s] # None
      BY DEF Backwards
    <3>1. outcome[s] # None
      <4>1. before' = before \/ before' = [before EXCEPT ![q] = Answered]
        BY <1>3, Alone DEF inputs
      <4> QED BY <4>1 DEF IInv, TypeOK, Told, Backwards, Answered
    <3> QED BY <1>3, <3>1, Alone
  <2> QED BY <2>1, <2>2 DEF Told
<1> QED BY <1>1, <1>2, <1>3, Steps

LEMMA InitTold == Init => Told
BY ConstantsAssumption DEF Init, Told, Staged, StagedAt, Backwards

-----------------------------------------------------------------------------
(***************************************************************************)
(* Failures that are not counted.  A request that has found its address and *)
(* its e-mail unlocked is still on its way when another one locks them: the *)
(* two overlap, whatever becomes of the lock.                              *)
(***************************************************************************)
Culprit(r, k) ==
  \E s \in Request \ {r} : Overlap(r, s) /\ SetLock(s) /\ k \in {ip[s], email[s]}

Counting == {"load", "save", "incr_ip", "expire_ip", "incr_email", "expire_email"}

\* Request r has found key k unlocked and may still count a failure.
Passed(r, k) ==
  /\ outcome[r] = None
  /\ \/ pc[r] = "get_email" /\ ~ipLock[r] /\ k = ip[r]
     \/ pc[r] \in Counting /\ k \in {ip[r], email[r]}

LocksKnown ==
  \A r \in Request :
    /\ \A k \in Key : Passed(r, k) /\ IsLocked(k) => Culprit(r, k)
    /\ ~MayFail /\ outcome[r] = "error" => \E k \in {ip[r], email[r]} : Culprit(r, k)

\* Who set a lock has set it.
LEMMA CulpritStays ==
  ASSUME IInv, Told, [Next]_vars, NEW r \in Request, pc[r] # "new", NEW k \in Key, Culprit(r, k)
  PROVE  Culprit(r, k)'
<1> PICK s \in Request \ {r} : Overlap(r, s) /\ SetLock(s) /\ k \in {ip[s], email[s]}
  BY DEF Culprit
<1>1. CASE Tick \/ UNCHANGED vars
  BY <1>1 DEF Tick, vars, inputs, locals, Culprit, Overlap, SetLock, MaxAttempts
<1>2. ASSUME NEW q \in Request, StepOf(q) PROVE Culprit(r, k)'
  <2>0. pc[s] # "new"
    BY DEF SetLock
  <2>1. UNCHANGED <<before[r], before[s], ip[s], email[s]>>
    BY <1>2, <2>0, Alone DEF inputs
  <2>2. SetLock(s)'
    <3>1. CASE q # s
      BY <1>2, <3>1, Alone DEF SetLock, MaxAttempts
    <3>2. CASE q = s
      <4>1. pc[s] = "lock_email" /\ outcome[s] = None
        BY <1>2, <3>2, Alone DEF Told, Staged, StagedAt, SetLock
      <4>2. LockEmail(s) \/ Fail(s)
        BY <1>2, <3>2, <4>1
        DEF StepOf, Arrive, Step, CheckIp, CheckEmail, LoadUser, Save, FailureStep, IncrIp, ExpireIp,
            IncrEmail, ExpireEmail, LockIp, Reset, DatabaseError, Handling
      <4>3. /\ pc'[s] = "lock_email" \/ (pc'[s] = "done" /\ outcome'[s] = raised[s])
            /\ UNCHANGED <<raised, attempts>>
        BY <4>1, <4>2 DEF IInv, TypeOK, LockEmail, Answer, Fail, locals
      <4> QED BY <4>3 DEF SetLock, MaxAttempts
    <3> QED BY <3>1, <3>2
  <2> QED BY <2>1, <2>2 DEF Culprit, Overlap
<1> QED BY <1>1, <1>2, Steps

\* Only LockIp and LockEmail lock a key.
LEMMA LockedBy ==
  ASSUME IInv, Told, NEW s \in Request, StepOf(s), NEW k \in Key, IsLocked(k)', ~IsLocked(k)
  PROVE  /\ k \in {ip[s], email[s]} /\ UNCHANGED inputs /\ pc[s] # "new"
         /\ SetLock(s)' /\ pc[s] \in {"lock_ip", "lock_email"} /\ outcome[s] = None
<1>1. CASE \/ \E i \in Ip, e \in Email, g \in BOOLEAN : Arrive(s, i, e, g)
           \/ CheckIp(s) \/ CheckEmail(s) \/ LoadUser(s) \/ Save(s) \/ DatabaseError(s) \/ Fail(s)
  BY <1>1
  DEF Arrive, CheckIp, CheckEmail, LoadUser, Save, DatabaseError, Fail, IsLocked
<1>2. CASE IncrIp(s) \/ IncrEmail(s)
  <2>0. ip[s] \in Key /\ email[s] \in Key
    BY <1>2 DEF IInv, Presented, Key, IncrIp, IncrEmail, Handling
  <2>1. PICK j \in {ip[s], email[s]} :
          (~IsLocked(j) /\ lock' = [lock EXCEPT ![j] = Counted(j)]) \/ lock' = lock
    BY <1>2 DEF IncrIp, IncrEmail
  <2>2. ~IsLocked(j) => ~Counted(j).locked
    BY <2>0 DEF IInv, TypeOK, Lock, IsLocked, Counted
  <2>3. lock' # lock => lock'[k] = IF j = k THEN Counted(k) ELSE lock[k]
    BY <2>1 DEF IInv, TypeOK
  <2>4. lock'[k] # None /\ lock'[k].locked
    BY DEF IsLocked
  <2>5. lock[k] = None \/ ~lock[k].locked
    BY DEF IsLocked
  <2> QED BY <2>1, <2>2, <2>3, <2>4, <2>5
<1>3. CASE ExpireIp(s) \/ ExpireEmail(s)
  <2>1. PICK j \in {ip[s], email[s]} : lock' = [lock EXCEPT ![j] = Expired(j, CounterTTL)]
    BY <1>3 DEF ExpireIp, ExpireEmail
  <2>2. lock'[k] = IF j = k THEN Expired(k, CounterTTL) ELSE lock[k]
    BY <2>1 DEF IInv, TypeOK
  <2>3. lock[k] # None => Expired(k, CounterTTL).locked = lock[k].locked
    BY DEF IInv, TypeOK, Lock, Expired
  <2>4. lock[k] = None => Expired(k, CounterTTL) = None
    BY DEF Expired
  <2>5. lock'[k] # None /\ lock'[k].locked
    BY DEF IsLocked
  <2>6. lock[k] = None \/ ~lock[k].locked
    BY DEF IsLocked
  <2> QED BY <2>2, <2>3, <2>4, <2>5, <2>6
<1>4. CASE Reset(s)
  <2>1. lock' = [lock EXCEPT ![ip[s]] = None, ![email[s]] = None]
    BY <1>4 DEF Reset
  <2>2. lock'[k] = None \/ lock'[k] = lock[k]
    BY <2>1 DEF IInv, TypeOK
  <2> QED BY <2>2 DEF IsLocked
<1>5. CASE LockIp(s) \/ LockEmail(s)
  <2>1. pc[s] \in {"lock_ip", "lock_email"} /\ outcome[s] = None /\ UNCHANGED <<inputs, raised, attempts>>
    BY <1>5 DEF LockIp, LockEmail, Handling, locals
  <2>2. k \in {ip[s], email[s]}
    BY <1>5 DEF IInv, TypeOK, LockIp, LockEmail, IsLocked
  <2>3. pc'[s] = "lock_email" \/ (pc'[s] = "done" /\ outcome'[s] = raised[s])
    BY <1>5 DEF IInv, TypeOK, LockIp, LockEmail, Goto, Answer
  <2> QED BY <2>1, <2>2, <2>3 DEF Told, Staged, StagedAt, SetLock, MaxAttempts
<1> QED BY <1>1, <1>2, <1>3, <1>4, <1>5 DEF StepOf, Step, FailureStep

\* Somebody else's step: who locks a key that a request has passed overlaps it.
LEMMA LockedMeanwhile ==
  ASSUME IInv, Told, NEW r \in Request, NEW q \in Request \ {r}, StepOf(q), NEW k \in Key,
         pc[r] # "new", outcome[r] = None, IsLocked(k)', ~IsLocked(k)
  PROVE  Culprit(r, k)'
<1>1. /\ k \in {ip[q], email[q]} /\ UNCHANGED inputs
      /\ SetLock(q)' /\ outcome[q] = None
  BY LockedBy
<1>2. Overlap(r, q)'
  BY <1>1 DEF Told, Backwards, Overlap, inputs
<1> QED BY <1>1, <1>2 DEF Culprit, inputs

LEMMA LocksKnownOthers ==
  ASSUME IInv, Told, LocksKnown, NEW r \in Request, NEW q \in Request \ {r}, StepOf(q)
  PROVE  /\ \A k \in Key : Passed(r, k)' /\ IsLocked(k)' => Culprit(r, k)'
         /\ ~MayFail /\ outcome'[r] = "error" => \E k \in {ip'[r], email'[r]} : Culprit(r, k)'
<1>1. /\ pc'[r] = pc[r] /\ outcome'[r] = outcome[r] /\ ip'[r] = ip[r] /\ email'[r] = email[r]
      /\ ipLock'[r] = ipLock[r]
  BY Alone
<1>2. [Next]_vars
  BY DEF StepOf, Next
<1>3. ASSUME NEW k \in Key, Passed(r, k)', IsLocked(k)' PROVE Culprit(r, k)'
  <2>1. Passed(r, k) /\ pc[r] # "new" /\ outcome[r] = None
    BY <1>1, <1>3 DEF Passed, Counting
  <2>2. CASE IsLocked(k)
    BY <1>2, <2>1, <2>2, CulpritStays DEF LocksKnown
  <2>3. CASE ~IsLocked(k)
    BY <1>3, <2>1, <2>3, LockedMeanwhile
  <2> QED BY <2>2, <2>3
<1>4. ASSUME ~MayFail, outcome'[r] = "error" PROVE \E k \in {ip'[r], email'[r]} : Culprit(r, k)'
  <2>1. pc[r] # "new"
    BY <1>1, <1>4, ConstantsAssumption DEF Told, Staged, StagedAt
  <2>2. ip[r] \in Key /\ email[r] \in Key
    BY <2>1 DEF IInv, Presented, Key
  <2> QED BY <1>1, <1>2, <1>4, <2>1, <2>2, CulpritStays DEF LocksKnown
<1> QED BY <1>3, <1>4

LEMMA LocksKnownOwn ==
  ASSUME IInv, Told, LocksKnown, NEW r \in Request, StepOf(r)
  PROVE  /\ \A k \in Key : Passed(r, k)' /\ IsLocked(k)' => Culprit(r, k)'
         /\ ~MayFail /\ outcome'[r] = "error" => \E k \in {ip'[r], email'[r]} : Culprit(r, k)'
<1>1. outcome[r] = None /\ [Next]_vars /\ None # "error"
  BY Alone, ConstantsAssumption DEF StepOf, Next
<1>2. CASE pc[r] = "new"
  BY <1>1, <1>2, Alone DEF Passed, Counting
<1>3. CASE pc[r] # "new"
  <2>1. UNCHANGED inputs /\ ip[r] \in Ip /\ email[r] \in Email
    BY <1>3, Alone DEF IInv, Presented
  <2>2. ASSUME NEW k \in Key, Passed(r, k)', IsLocked(k)' PROVE Passed(r, k) /\ IsLocked(k)
    <3>1. pc[r] \notin {"lock_ip", "lock_email"}
      <4> SUFFICES ASSUME pc[r] \in {"lock_ip", "lock_email"} PROVE FALSE
        OBVIOUS
      <4>1. LockIp(r) \/ LockEmail(r) \/ Fail(r)
        BY DEF StepOf, Arrive, Step, CheckIp, CheckEmail, LoadUser, Save, FailureStep, IncrIp,
               ExpireIp, IncrEmail, ExpireEmail, Reset, DatabaseError, Handling
      <4> QED BY <2>2, <4>1
              DEF IInv, TypeOK, LockIp, LockEmail, Fail, Goto, Answer, Passed, Counting
    <3>2. IsLocked(k)
      BY <2>2, <3>1, LockedBy
    <3>3. CASE CheckIp(r)
      <4>1. pc'[r] = "get_email" /\ ipLock'[r] = (lock[ip[r]] # None) /\ k = ip[r]
        BY <2>1, <2>2, <3>3 DEF IInv, TypeOK, CheckIp, Goto, Passed, Counting, inputs
      <4> QED BY <2>2, <3>2, <4>1 DEF Passed, Counting, IsLocked
    <3>4. CASE CheckEmail(r)
      <4>1. ~ipLock[r] /\ lock[email[r]] = None /\ pc[r] = "get_email"
        BY <1>1, <2>2, <3>4, ConstantsAssumption
        DEF IInv, TypeOK, CheckEmail, Handling, Goto, Answer, Passed
      <4>2. k \in {ip[r], email[r]}
        BY <2>1, <2>2 DEF Passed, inputs
      <4> QED BY <1>1, <3>2, <4>1, <4>2 DEF Passed, IsLocked
    <3>5. CASE ~(CheckIp(r) \/ CheckEmail(r))
      <4>1. pc[r] \in Counting \/ Fail(r) \/ Reset(r)
        BY <1>3, <3>1, <3>5
        DEF StepOf, Arrive, Step, LoadUser, Save, FailureStep, IncrIp, ExpireIp, IncrEmail,
            ExpireEmail, LockIp, LockEmail, DatabaseError, Handling, Counting
      <4>2. ~Fail(r) /\ ~Reset(r)
        BY <2>2, ConstantsAssumption DEF IInv, TypeOK, Fail, Reset, Answer, Passed
      <4>3. k \in {ip[r], email[r]}
        BY <2>1, <2>2 DEF Passed, inputs
      <4> QED BY <1>1, <3>2, <4>1, <4>2, <4>3 DEF Passed
    <3> QED BY <3>2, <3>3, <3>4, <3>5
  <2>3. ASSUME ~MayFail, outcome'[r] = "error"
        PROVE  \E k \in {ip[r], email[r]} : Passed(r, k) /\ IsLocked(k)
    <3>1. raised[r] # "error"
      BY <2>3 DEF Told, Staged, StagedAt
    <3>2. IncrIp(r) \/ IncrEmail(r)
      BY <1>1, <2>3, <3>1, <1>3
      DEF IInv, TypeOK, StepOf, Arrive, Step, CheckIp, CheckEmail, LoadUser, Save, FailureStep, Raise,
          ExpireIp, ExpireEmail, LockIp, LockEmail, Reset, DatabaseError, Fail, Finish, Goto, Answer
    <3>3. CASE IncrIp(r)
      BY <1>1, <2>3, <3>3 DEF IncrIp, Handling, Goto, Passed, Counting
    <3>4. CASE IncrEmail(r)
      <4>1. IsLocked(email[r])
        BY <1>1, <2>3, <3>1, <3>4 DEF IInv, TypeOK, IncrEmail, Finish, Goto, Answer
      <4> QED BY <1>1, <3>4, <4>1 DEF IncrEmail, Handling, Passed, Counting
    <3> QED BY <3>2, <3>3, <3>4
  <2>4. \A k \in Key : Passed(r, k) /\ IsLocked(k) => Culprit(r, k)'
    BY <1>1, <1>3, CulpritStays DEF LocksKnown
  <2>5. {ip[r], email[r]} \subseteq Key
    BY <2>1 DEF Key
  <2> QED BY <2>1, <2>2, <2>3, <2>4, <2>5 DEF inputs
<1> QED BY <1>2, <1>3

LEMMA LocksKnownStep ==
  ASSUME IInv, Told, LocksKnown, [Next]_vars
  PROVE  LocksKnown'
<1>1. CASE UNCHANGED vars
  BY <1>1
  DEF LocksKnown, Passed, IsLocked, Culprit, Overlap, SetLock, MaxAttempts, vars, inputs, locals
<1>2. CASE Tick
  <2>1. \A k \in Key : IsLocked(k)' => IsLocked(k)
    BY <1>2 DEF IInv, TypeOK, Lock, Tick, IsLocked
  <2> QED BY <1>2, <2>1 DEF LocksKnown, Passed, Culprit, Overlap, SetLock, MaxAttempts, Tick, inputs
<1>3. ASSUME NEW q \in Request, StepOf(q) PROVE LocksKnown'
  BY <1>3, LocksKnownOthers, LocksKnownOwn DEF LocksKnown
<1> QED BY <1>1, <1>2, <1>3, Steps

\* What a request has done, and whom it knows, at every moment.
LEMMA AlwaysTold == Spec => [](IInv /\ Told)
<1>1. IInv /\ Told /\ [Next]_vars => Told'
  BY ToldStep
<1> QED BY <1>1, InitTold, Invariance, PTL DEF Spec

\* While no call fails, a login ends in an error only if a login that overlaps it
\* set the lock of its address or e-mail (INCR on "locked", register_failure).
THEOREM Uncounted == Spec => []UncountedByLock
<1>1. Init => LocksKnown
  BY ConstantsAssumption DEF Init, LocksKnown, Passed, Counting
<1>2. IInv /\ Told /\ LocksKnown /\ [Next]_vars => LocksKnown'
  BY LocksKnownStep
<1>3. ASSUME IInv, Told, LocksKnown PROVE UncountedByLock
  <2> SUFFICES ASSUME NEW r \in Request, ~MayFail, outcome[r] = "error"
               PROVE  \E s \in Request \ {r} :
                        Overlap(r, s) /\ SetLock(s) /\ (ip[s] = ip[r] \/ email[s] = email[r])
    BY DEF UncountedByLock
  <2>1. PICK k \in {ip[r], email[r]}, s \in Request \ {r} :
          Overlap(r, s) /\ SetLock(s) /\ k \in {ip[s], email[s]}
    BY <1>3 DEF LocksKnown, Culprit
  <2>2. pc[r] # "new" /\ pc[s] # "new"
    BY <1>3, <2>1, ConstantsAssumption DEF Told, Staged, StagedAt, SetLock
  <2>3. {ip[r], ip[s]} \subseteq Ip /\ {email[r], email[s]} \subseteq Email
    BY <1>3, <2>2 DEF IInv, Presented
  <2>4. ip[s] = ip[r] \/ email[s] = email[r]
    BY <2>1, <2>3, ConstantsAssumption
  <2> QED BY <2>1, <2>4
<1> QED BY <1>1, <1>2, <1>3, AlwaysTold, PTL DEF Spec

-----------------------------------------------------------------------------
(***************************************************************************)
(* The row of a user.  It changes only through the requests for its e-mail, *)
(* and one of them that saves while another is under way overlaps it.      *)
(***************************************************************************)
\* Whoever writes a row is saving it.
LEMMA RowBy ==
  ASSUME IInv, Told, NEW q \in Request, StepOf(q), NEW e \in Registered, row'[e] # row[e]
  PROVE  /\ email[q] = e /\ pc[q] = "save" /\ row'[e] = Saved(row[e], new[q])
         /\ Save(q) \/ (DatabaseError(q) /\ raised'[q] = "error")
         /\ UNCHANGED inputs /\ outcome'[q] = None
<1>1. Save(q) \/ DatabaseError(q)
  BY DEF StepOf, Arrive, Step, CheckIp, CheckEmail, LoadUser, FailureStep, IncrIp, ExpireIp, IncrEmail,
         ExpireEmail, LockIp, LockEmail, Reset, Fail, locals
<1>2. row' = [row EXCEPT ![email[q]] = Saved(@, new[q])] /\ pc[q] = "save"
  BY <1>1 DEF Save, DatabaseError, Handling
<1>3. email[q] = e /\ row'[e] = Saved(row[e], new[q])
  BY <1>2 DEF IInv, TypeOK
<1>4. UNCHANGED inputs /\ outcome'[q] = None
  BY <1>1 DEF Save, DatabaseError, Handling, Raise, Goto
<1>5. DatabaseError(q) => raised'[q] = "error"
  BY DEF IInv, TypeOK, DatabaseError, Raise
<1> QED BY <1>1, <1>2, <1>3, <1>4, <1>5

Clean == [fails |-> 0, until |-> None]

\* A request for an e-mail that no other request overlaps or follows.
Lonely(r) == pc[r] # "new" /\ \A s \in Request : email[s] = email[r] => s = r \/ s \in before[r]

CleansAt(r) ==
  /\ pc[r] = "save" /\ good[r] => new[r].until = None
  /\ pc[r] \in {"save", "reset"} => email[r] \in Registered
  /\ outcome[r] = "ok" => email[r] \in Registered
  /\ Lonely(r) =>
       /\ pc[r] = "save" /\ outcome[r] = None /\ good[r] => Saved(row[email[r]], new[r]) = Clean
       /\ pc[r] = "reset" /\ outcome[r] = None => row[email[r]] = Clean
       /\ outcome[r] = "ok" => row[email[r]] = Clean

Cleans == \A r \in Request : CleansAt(r)

\* While a lonely request is under way or was the last, its row stays.
LEMMA CleansOthers ==
  ASSUME IInv, Told, Cleans, NEW r \in Request, NEW q \in Request \ {r}, StepOf(q)
  PROVE  CleansAt(r)'
<1>1. /\ pc'[r] = pc[r] /\ outcome'[r] = outcome[r] /\ email'[r] = email[r] /\ new'[r] = new[r]
      /\ before'[r] = before[r] /\ good'[r] = good[r] /\ outcome[q] = None /\ pc'[q] # "new"
  BY Alone
<1>2. CleansAt(r)
  BY DEF Cleans
<1>3. ASSUME Lonely(r)' PROVE Lonely(r)
  <2> SUFFICES ASSUME NEW s \in Request, email[s] = email[r] PROVE s = r \/ s \in before[r]
    BY <1>1, <1>3 DEF Lonely
  <2>1. CASE email'[s] = email[s]
    BY <1>1, <1>3, <2>1 DEF Lonely
  <2>2. CASE email'[s] # email[s]
    <3>1. s = q /\ pc[q] = "new"
      BY <2>2, Alone DEF inputs
    <3>2. email[r] = None
      BY <3>1 DEF Told, Staged, StagedAt
    <3>3. email[r] \in Email
      BY <1>1, <1>3 DEF IInv, Presented, Lonely
    <3> QED BY <3>2, <3>3, ConstantsAssumption DEF Key
  <2> QED BY <2>1, <2>2
<1>4. ASSUME Lonely(r), email[r] \in Registered PROVE row'[email[r]] = row[email[r]]
  <2> SUFFICES ASSUME row'[email[r]] # row[email[r]] PROVE FALSE
    OBVIOUS
  <2>1. email[q] = email[r]
    BY <1>4, RowBy
  <2>2. q \in before[r]
    BY <1>4, <2>1 DEF Lonely
  <2> QED BY <1>1, <2>2 DEF Told, Backwards
<1> QED BY <1>1, <1>2, <1>3, <1>4 DEF CleansAt

\* A row that is saved after a right password, or needs no saving, is clean.
LEMMA SuccessCleans ==
  ASSUME NEW u \in [fails : 0..Max - 1, until : Until]
  PROVE  /\ Saved(u, Success(u)) = Clean /\ Success(u).until = None
         /\ Success(u).cols = {} => u = Clean
BY ConstantsAssumption DEF Saved, Success, Clean, Until

LEMMA CleansOwn ==
  ASSUME IInv, Told, Cleans, NEW r \in Request, StepOf(r)
  PROVE  CleansAt(r)'
<1>1. outcome[r] = None /\ pc'[r] # "new" /\ None # "ok" /\ None # "error"
  BY Alone, ConstantsAssumption
<1>2. CASE pc[r] = "new"
  BY <1>1, <1>2, Alone DEF CleansAt
<1>3. CASE pc[r] # "new"
  <2>1. UNCHANGED inputs /\ (Lonely(r)' => Lonely(r))
    BY <1>3, Alone DEF Lonely, inputs
  <2>2. CASE LoadUser(r)
    <3>1. /\ pc'[r] \in {"incr_ip", "save", "reset"} /\ outcome' = outcome /\ row' = row
      BY <2>2 DEF IInv, TypeOK, LoadUser, Raise, Goto
    <3>2. CASE email[r] \notin Registered \ Inactive \/ InForce(row[email[r]])
      BY <1>1, <2>2, <3>1, <3>2 DEF IInv, TypeOK, LoadUser, Raise, Goto, CleansAt
    <3>3. CASE ~(email[r] \notin Registered \ Inactive \/ InForce(row[email[r]]))
      <4> DEFINE u == row[email[r]]
      <4>1. email[r] \in Registered /\ u \in [fails : 0..Max - 1, until : Until]
        BY <3>3 DEF IInv, TypeOK
      <4>2. ASSUME good[r]
            PROVE  /\ new'[r] = Success(u)
                   /\ pc'[r] = "reset" => u = Clean
        BY <2>2, <3>3, <4>1, <4>2, SuccessCleans DEF IInv, TypeOK, LoadUser, Goto
      <4>3. ASSUME ~good[r] PROVE pc'[r] # "reset"
        BY <2>2, <3>3, <4>3 DEF IInv, TypeOK, LoadUser, Goto
      <4> QED BY <1>1, <2>1, <3>1, <4>1, <4>2, <4>3, SuccessCleans DEF CleansAt, inputs
    <3> QED BY <3>2, <3>3
  <2>3. CASE Save(r)
    <3>1. /\ pc[r] = "save" /\ pc'[r] \in {"reset", "incr_ip"} /\ outcome' = outcome
          /\ pc'[r] = "reset" => good[r]
      BY <2>3 DEF IInv, TypeOK, Save, Handling, Raise, Goto
    <3>2. email[r] \in Registered
      BY <3>1 DEF IInv, Presented
    <3>3. row'[email[r]] = Saved(row[email[r]], new[r])
      BY <2>3, <3>2 DEF IInv, TypeOK, Save
    <3> QED BY <1>1, <2>1, <3>1, <3>2, <3>3 DEF Cleans, CleansAt, inputs
  <2>4. CASE Reset(r)
    BY <1>1, <2>1, <2>4 DEF IInv, TypeOK, Reset, Handling, Answer, Cleans, CleansAt, inputs
  <2>5. CASE Fail(r)
    BY <1>1, <2>1, <2>5 DEF IInv, TypeOK, Fail, Cleans, CleansAt, inputs, locals
  <2>6. CASE DatabaseError(r) \/ CheckIp(r) \/ CheckEmail(r) \/ FailureStep(r)
    <3>1. pc'[r] \notin {"save", "reset"}
      BY <2>6
      DEF IInv, TypeOK, DatabaseError, CheckIp, CheckEmail, FailureStep, IncrIp, IncrEmail, ExpireIp,
          ExpireEmail, LockIp, LockEmail, Finish, Raise, Goto, Answer
    <3>2. outcome'[r] # "ok"
      BY <1>1, <2>6, ConstantsAssumption
      DEF IInv, TypeOK, DatabaseError, CheckIp, CheckEmail, FailureStep, IncrIp, IncrEmail, ExpireIp,
          ExpireEmail, LockIp, LockEmail, Finish, Raise, Goto, Answer
    <3> QED BY <3>1, <3>2 DEF CleansAt
  <2> QED BY <1>3, <2>2, <2>3, <2>4, <2>5, <2>6 DEF StepOf, Step, Arrive
<1> QED BY <1>2, <1>3

LEMMA CleansTick ==
  ASSUME IInv, Cleans, Tick, NEW r \in Request
  PROVE  CleansAt(r)'
<1>1. CleansAt(r) /\ UNCHANGED <<pc, outcome, email, good, before>>
  BY DEF Cleans, Tick, inputs
<1>2. new'[r] = [new[r] EXCEPT !.until = Shorter(@)] /\ new[r] \in Change
  BY DEF IInv, TypeOK, Tick
<1>3. new'[r].cols = new[r].cols /\ new'[r].fails = new[r].fails
      /\ (new[r].until = None => new'[r].until = None)
  BY <1>2 DEF Change, Shorter
<1>4. ASSUME email[r] \in Registered
      PROVE  /\ row'[email[r]].fails = row[email[r]].fails
             /\ row[email[r]].until = None => row'[email[r]].until = None
             /\ row'[email[r]] \in [fails : 0..Max - 1, until : Until]
  <2>1. row[email[r]] \in [fails : 0..Max - 1, until : Until]
    BY <1>4 DEF IInv, TypeOK
  <2>2. row'[email[r]] = [row[email[r]] EXCEPT !.until = Shorter(@)]
    BY <1>4 DEF Tick
  <2>3. row'[email[r]] \in [fails : 0..Max - 1, until : Until]
    BY <1>4, TickInv DEF IInv, TypeOK
  <2> QED BY <2>1, <2>2, <2>3 DEF Shorter
<1>5. ASSUME email[r] \in Registered, row[email[r]] = Clean PROVE row'[email[r]] = Clean
  BY <1>4, <1>5 DEF Clean
<1>6. ASSUME email[r] \in Registered, Saved(row[email[r]], new[r]) = Clean
      PROVE  Saved(row'[email[r]], new'[r]) = Clean
  <2>1. /\ (IF "fails" \in new[r].cols THEN new[r].fails ELSE row[email[r]].fails) = 0
        /\ (IF "until" \in new[r].cols THEN new[r].until ELSE row[email[r]].until) = None
    BY <1>6 DEF Saved, Clean
  <2> QED BY <1>3, <1>4, <1>6, <2>1 DEF Saved, Clean
<1>7. Lonely(r)' = Lonely(r)
  BY <1>1 DEF Lonely
<1> QED BY <1>1, <1>3, <1>5, <1>6, <1>7 DEF CleansAt

LEMMA CleansStep ==
  ASSUME IInv, Told, Cleans, [Next]_vars
  PROVE  Cleans'
<1>1. CASE UNCHANGED vars
  BY <1>1 DEF Cleans, CleansAt, Lonely, vars, inputs, locals
<1>2. CASE Tick
  BY <1>2, CleansTick DEF Cleans
<1>3. ASSUME NEW q \in Request, StepOf(q) PROVE Cleans'
  BY <1>3, CleansOwn, CleansOthers DEF Cleans
<1> QED BY <1>1, <1>2, <1>3, Steps

\* Rows that a login cleans, at every moment.
LEMMA AlwaysCleans == Spec => []Cleans
<1>1. Init => Cleans
  BY ConstantsAssumption DEF Init, Cleans, CleansAt
<1>2. IInv /\ Told /\ Cleans /\ [Next]_vars => Cleans'
  BY CleansStep
<1> QED BY <1>1, <1>2, AlwaysTold, PTL DEF Spec

\* A login that no other login for the e-mail overlaps or follows leaves no count
\* and no lock in the row (authenticate).
THEOREM Cleaned == Spec => []LoginCleans
<1>1. Told /\ Cleans => LoginCleans
  BY ConstantsAssumption DEF Told, Staged, StagedAt, Cleans, CleansAt, Lonely, Clean, LoginCleans
<1> QED BY <1>1, AlwaysTold, AlwaysCleans, PTL

-----------------------------------------------------------------------------
(***************************************************************************)
(* Locks that are erased.  A request saves what it decided when the row was *)
(* not locked; if the row is locked now, a failed login has locked it      *)
(* meanwhile.                                                              *)
(***************************************************************************)
LockedSince(r) ==
  \E s \in Request \ {r} : email[s] = email[r] /\ Overlap(r, s) /\ raised[s] # None

SurprisedAt(r) ==
  pc[r] = "save" /\ outcome[r] = None /\ InForce(row[email[r]]) => LockedSince(r)

Surprises == \A r \in Request : SurprisedAt(r)

\* The login that failed has failed.
LEMMA FailedStays ==
  ASSUME IInv, Told, [Next]_vars, NEW r \in Request, pc[r] # "new", LockedSince(r)
  PROVE  LockedSince(r)'
<1> PICK s \in Request \ {r} : email[s] = email[r] /\ Overlap(r, s) /\ raised[s] # None
  BY DEF LockedSince
<1>1. CASE Tick \/ UNCHANGED vars
  BY <1>1 DEF Tick, vars, inputs, locals, LockedSince, Overlap
<1>2. ASSUME NEW q \in Request, StepOf(q) PROVE LockedSince(r)'
  <2>0. pc[s] # "new"
    BY DEF Told, Staged, StagedAt
  <2>1. UNCHANGED <<before[r], before[s], email[r], email[s]>>
    BY <1>2, <2>0, Alone DEF inputs
  <2>2. raised'[s] # None
    <3>1. CASE q # s
      BY <1>2, <3>1, Alone
    <3>2. CASE q = s
      <4>1. pc[s] \notin {"new", "get_ip", "get_email", "load", "save", "reset"}
        BY DEF Told, Staged, StagedAt
      <4> QED BY <1>2, <3>2, <4>1
              DEF StepOf, Arrive, Step, CheckIp, CheckEmail, LoadUser, Save, FailureStep, IncrIp,
                  ExpireIp, IncrEmail, ExpireEmail, LockIp, LockEmail, Reset, DatabaseError, Fail,
                  Handling, locals
    <3> QED BY <3>1, <3>2
  <2> QED BY <2>1, <2>2 DEF LockedSince, Overlap
<1> QED BY <1>1, <1>2, Steps

\* A row that becomes locked is saved by a login that fails.
LEMMA LockedByFailure ==
  ASSUME IInv, Told, Cleans, NEW q \in Request, StepOf(q), NEW e \in Registered,
         InForce(row'[e]), ~InForce(row[e])
  PROVE  /\ email[q] = e /\ UNCHANGED inputs /\ outcome[q] = None
         /\ raised'[q] # None
<1>1. row'[e] # row[e]
  OBVIOUS
<1>2. /\ email[q] = e /\ pc[q] = "save" /\ row'[e] = Saved(row[e], new[q]) /\ UNCHANGED inputs
      /\ Save(q) \/ (DatabaseError(q) /\ raised'[q] = "error")
  BY <1>1, RowBy
<1>3. new[q].until # None
  BY <1>2 DEF Saved, InForce
<1>4. ~good[q]
  BY <1>2, <1>3 DEF Cleans, CleansAt
<1>5. raised'[q] \in {"refused", "error"}
  BY <1>2, <1>4 DEF IInv, TypeOK, Save, Raise
<1> QED BY <1>2, <1>5, Alone, ConstantsAssumption

LEMMA SurprisesStep ==
  ASSUME IInv, Told, Cleans, Surprises, [Next]_vars
  PROVE  Surprises'
<1>1. CASE UNCHANGED vars
  BY <1>1 DEF Surprises, SurprisedAt, LockedSince, Overlap, InForce, vars, inputs, locals
<1>2. CASE Tick
  <2> SUFFICES ASSUME NEW r \in Request, pc[r] = "save", outcome[r] = None, InForce(row'[email[r]])
               PROVE  LockedSince(r)'
    BY <1>2 DEF Surprises, SurprisedAt, Tick, inputs
  <2>1. email[r] \in Registered
    BY DEF IInv, Presented
  <2>2. row[email[r]] \in [fails : 0..Max - 1, until : Until]
    BY <2>1 DEF IInv, TypeOK
  <2>3. row'[email[r]].until = Shorter(row[email[r]].until)
    BY <1>2, <2>1, <2>2 DEF Tick
  <2>4. InForce(row[email[r]])
    BY <2>2, <2>3, ConstantsAssumption DEF InForce, Shorter, Until
  <2>5. LockedSince(r)
    BY <2>4 DEF Surprises, SurprisedAt
  <2> QED BY <2>5, FailedStays
<1>3. ASSUME NEW q \in Request, StepOf(q), NEW r \in Request \ {q} PROVE SurprisedAt(r)'
  <2> SUFFICES ASSUME pc[r] = "save", outcome[r] = None, InForce(row'[email[r]])
               PROVE  LockedSince(r)'
    BY <1>3, Alone DEF SurprisedAt, InForce
  <2>1. email[r] \in Registered
    BY DEF IInv, Presented
  <2>2. CASE InForce(row[email[r]])
    BY <2>2, FailedStays DEF Surprises, SurprisedAt
  <2>3. CASE ~InForce(row[email[r]])
    <3>1. /\ email[q] = email[r] /\ UNCHANGED inputs /\ outcome[q] = None /\ raised'[q] # None
      BY <1>3, <2>1, <2>3, LockedByFailure
    <3>2. Overlap(r, q)'
      BY <3>1 DEF Told, Backwards, Overlap, inputs
    <3> QED BY <1>3, <3>1, <3>2 DEF LockedSince, inputs
  <2> QED BY <2>2, <2>3
<1>4. ASSUME NEW r \in Request, StepOf(r) PROVE SurprisedAt(r)'
  <2> SUFFICES ASSUME pc'[r] = "save", outcome'[r] = None, InForce(row'[email'[r]])
               PROVE  LockedSince(r)'
    BY DEF SurprisedAt, InForce
  <2>1. LoadUser(r) \/ Fail(r)
    BY <1>4
    DEF IInv, TypeOK, StepOf, Arrive, Step, CheckIp, CheckEmail, Save, FailureStep, IncrIp, IncrEmail,
        ExpireIp, ExpireEmail, LockIp, LockEmail, Reset, DatabaseError, Finish, Raise, Goto, Answer
  <2>2. ~Fail(r)
    BY ConstantsAssumption DEF IInv, TypeOK, Fail
  <2>3. ~InForce(row[email[r]]) /\ row' = row /\ email' = email
    BY <2>1, <2>2 DEF IInv, TypeOK, LoadUser, Handling, Raise, Goto, inputs
  <2> QED BY <2>3
<1> QED BY <1>1, <1>2, <1>3, <1>4, Steps DEF Surprises

\* The lock of a row is erased while in force only by a login that overlaps one of
\* the failed logins: it read the row before the lock was stored (authenticate).
THEOREM LockErased == Spec => LockErasedByRace
<1>1. Init => Surprises
  BY DEF Init, Surprises, SurprisedAt
<1>2. IInv /\ Told /\ Cleans /\ Surprises /\ [Next]_vars => Surprises'
  BY SurprisesStep
<1>3. ASSUME IInv, Told, Surprises, [Next]_vars, NEW e \in Registered,
             InForce(row[e]), row'[e].until = None
      PROVE  \E r, s \in Request :
               /\ r # s /\ email[r] = e /\ email[s] = e /\ Overlap(r, s)
               /\ pc[r] = "save" /\ raised[s] # None
  <2>1. row'[e] # row[e]
    BY <1>3 DEF InForce
  <2>2. ~Tick
    <3> SUFFICES ASSUME Tick PROVE FALSE
      OBVIOUS
    <3>1. row[e] \in [fails : 0..Max - 1, until : Until]
      BY <1>3 DEF IInv, TypeOK
    <3>2. row'[e].until = Shorter(row[e].until)
      BY <1>3, <3>1 DEF Tick
    <3> QED BY <1>3, <3>1, <3>2, ConstantsAssumption DEF InForce, Shorter, Until
  <2>3. PICK r \in Request : StepOf(r)
    BY <1>3, <2>1, <2>2, Steps DEF vars
  <2>4. email[r] = e /\ pc[r] = "save" /\ outcome[r] = None
    BY <1>3, <2>1, <2>3, RowBy, Alone
  <2>5. LockedSince(r)
    BY <1>3, <2>4 DEF Surprises, SurprisedAt
  <2> QED BY <2>4, <2>5 DEF LockedSince
<1>4. IInv /\ Told /\ Surprises /\ [Next]_vars =>
        [\A e \in Registered : InForce(row[e]) /\ row'[e].until = None =>
           \E r, s \in Request :
             /\ r # s /\ email[r] = e /\ email[s] = e /\ Overlap(r, s)
             /\ pc[r] = "save" /\ raised[s] # None]_vars
  BY <1>3
<1> QED BY <1>1, <1>2, <1>4, AlwaysCleans, AlwaysTold, PTL DEF Spec, LockErasedByRace

=============================================================================
