--------------------- MODULE LoginLimiterCounts_proofs ---------------------
(***************************************************************************)
(* Proofs about what the two counters of a login mean: the counter in      *)
(* Redis, which check_limit takes for a lock, and the count in the row of  *)
(* the user.                                                               *)
(***************************************************************************)
EXTENDS LoginLimiter_proofs, FiniteSetTheorems

-----------------------------------------------------------------------------
(***************************************************************************)
(* The counter of an address or an e-mail.  As check_limit lets nobody pass *)
(* while the key exists, whoever counts on it had passed before the first  *)
(* of them counted: they all overlap.                                      *)
(***************************************************************************)
\* Requests that have counted a failure on key k.
CountedOn(k) ==
  {s \in Request :
     /\ raised[s] # None
     /\ \/ /\ ip[s] = k
           /\ pc[s] \in {"expire_ip", "incr_email", "expire_email", "lock_ip", "lock_email", "done"}
        \/ email[s] = k /\ pc[s] \in {"expire_email", "lock_ip", "lock_email", "done"}}

\* Set S of n requests that all overlap.
Cohort(S, n) ==
  IsFiniteSet(S) /\ Cardinality(S) = n /\ \A s, t \in S : Overlap(s, t)

\* n requests that all overlap have counted on key k, and overlap who is yet to count.
CountedBy(k, n) ==
  \E S \in SUBSET CountedOn(k) :
    Cohort(S, n) /\ \A s \in S, t \in Request : Passed(t, k) => Overlap(s, t)

CountsAt(k) ==
  lock[k] # None /\ ~lock[k].locked => \A n \in 0..lock[k].n : CountedBy(k, n)

\* What register_failure read from its counters counts failed requests that overlap.
AttemptsAt(r) ==
  /\ pc[r] = "new" => attempts[r].ip = 0 /\ attempts[r].email = 0
  /\ \A n \in 0..attempts[r].ip :
       \E S \in SUBSET {s \in Request : raised[s] # None /\ ip[s] = ip[r]} : Cohort(S, n)
  /\ \A n \in 0..attempts[r].email :
       \E S \in SUBSET {s \in Request : raised[s] # None /\ email[s] = email[r]} : Cohort(S, n)

Counts == (\A k \in Key : CountsAt(k)) /\ (\A r \in Request : AttemptsAt(r))

\* A login that failed has arrived, and stays one that failed.
LEMMA RaisedStays ==
  ASSUME IInv, Told, NEW q \in Request, StepOf(q), NEW s \in Request, raised[s] # None
  PROVE  pc[s] # "new" /\ raised'[s] # None
<1>1. pc[s] \notin {"new", "load", "save"}
  BY DEF Told, Staged, StagedAt
<1>2. CASE s # q
  BY <1>1, <1>2, Alone
<1>3. CASE s = q
  BY <1>1, <1>3
  DEF StepOf, Arrive, Step, CheckIp, CheckEmail, LoadUser, Save, FailureStep, IncrIp, ExpireIp,
      IncrEmail, ExpireEmail, LockIp, LockEmail, Reset, DatabaseError, Fail, Handling, locals
<1> QED BY <1>2, <1>3

\* Requests that have arrived overlap or not for good.
LEMMA CohortStays ==
  ASSUME IInv, Told, NEW q \in Request, StepOf(q), NEW n,
         NEW S \in SUBSET {s \in Request : pc[s] # "new"}, Cohort(S, n)
  PROVE  Cohort(S, n)'
<1>1. \A s \in S : before'[s] = before[s]
  BY Alone DEF inputs
<1> QED BY <1>1 DEF Cohort, Overlap

\* Two requests that were not answered overlap.
LEMMA UnderWay ==
  ASSUME Told, NEW s \in Request, NEW t \in Request, outcome[s] = None, outcome[t] = None
  PROVE  Overlap(s, t)
BY DEF Told, Backwards, Overlap

\* Nobody passes check_limit while the key exists.
LEMMA PassedBy ==
  ASSUME IInv, Told, NEW q \in Request, StepOf(q), NEW k \in Key, NEW t \in Request, Passed(t, k)',
         lock[k] # None \/ t # q
  PROVE  Passed(t, k) /\ pc[t] # "new"
<1>1. CASE t # q
  <2>1. Passed(t, k)
    BY <1>1, Alone DEF Passed
  <2> QED BY <2>1 DEF Passed, Counting
<1>2. CASE t = q /\ lock[k] # None
  <2>1. outcome[q] = None
    BY Alone
  <2> USE DEF Passed, Counting, Goto, Answer, Handling, inputs, locals, IInv, TypeOK
  <2>2. CASE \E i \in Ip, e \in Email, g \in BOOLEAN : Arrive(q, i, e, g)
    BY <1>2, <2>2 DEF Arrive
  <2>3. CASE CheckIp(q) \/ CheckEmail(q)
    BY <1>2, <2>1, <2>3 DEF CheckIp, CheckEmail
  <2>4. CASE LoadUser(q) \/ Save(q) \/ DatabaseError(q)
    BY <1>2, <2>1, <2>4 DEF LoadUser, Save, DatabaseError, Raise
  <2>5. CASE IncrIp(q) \/ ExpireIp(q) \/ IncrEmail(q)
    BY <1>2, <2>1, <2>5 DEF IncrIp, ExpireIp, IncrEmail, Finish
  <2>6. CASE ExpireEmail(q) \/ LockIp(q) \/ LockEmail(q) \/ Reset(q)
    BY <1>2, <2>1, <2>6 DEF ExpireEmail, LockIp, LockEmail, Reset, Finish
  <2>7. CASE Fail(q)
    BY <1>2, <2>1, <2>7 DEF Fail
  <2> QED BY <2>2, <2>3, <2>4, <2>5, <2>6, <2>7 DEF StepOf, Step, FailureStep
<1> QED BY <1>1, <1>2

\* Who has counted has counted.
LEMMA CountedStays ==
  ASSUME IInv, Told, NEW q \in Request, StepOf(q), NEW k \in Key
  PROVE  CountedOn(k) \subseteq CountedOn(k)' /\ CountedOn(k) \subseteq {s \in Request : pc[s] # "new"}
<1> SUFFICES ASSUME NEW s \in CountedOn(k) PROVE s \in CountedOn(k)' /\ pc[s] # "new"
  BY DEF CountedOn
<1>0. s \in Request /\ raised[s] # None
  BY DEF CountedOn
<1>1. s \in Request /\ pc[s] # "new" /\ raised'[s] # None
  BY <1>0, RaisedStays
<1>2. ip'[s] = ip[s] /\ email'[s] = email[s]
  BY <1>1, Alone DEF inputs
<1>3. CASE s # q
  BY <1>1, <1>2, <1>3, Alone DEF CountedOn
<1>4. CASE s = q
  <2> USE DEF CountedOn, Goto, Answer, Handling, IInv, TypeOK
  <2>1. CASE \E i \in Ip, e \in Email, g \in BOOLEAN : Arrive(q, i, e, g)
    BY <1>1, <1>4, <2>1 DEF Arrive
  <2>2. CASE CheckIp(q) \/ CheckEmail(q) \/ LoadUser(q) \/ Save(q) \/ DatabaseError(q)
    BY <1>0, <1>4, <2>2 DEF CheckIp, CheckEmail, LoadUser, Save, DatabaseError, Told, Staged, StagedAt
  <2>3. CASE IncrIp(q) \/ ExpireIp(q) \/ IncrEmail(q)
    BY <1>1, <1>2, <1>4, <2>3 DEF IncrIp, ExpireIp, IncrEmail, Finish
  <2>4. CASE ExpireEmail(q) \/ LockIp(q) \/ LockEmail(q) \/ Reset(q)
    BY <1>1, <1>2, <1>4, <2>4 DEF ExpireEmail, LockIp, LockEmail, Reset, Finish
  <2>5. CASE Fail(q)
    BY <1>1, <1>2, <1>4, <2>5 DEF Fail
  <2> QED BY <2>1, <2>2, <2>3, <2>4, <2>5 DEF StepOf, Step, FailureStep
<1> QED BY <1>1, <1>3, <1>4

\* A counter is what it was, or was counted up by one request.
LEMMA CounterBy ==
  ASSUME IInv, Told, NEW q \in Request, StepOf(q), NEW k \in Key,
         lock'[k] # None, ~lock'[k].locked
  PROVE  \/ lock[k] # None /\ ~lock[k].locked /\ lock'[k].n = lock[k].n
         \/ /\ ~IsLocked(k) /\ lock'[k] = Counted(k)
            /\ (IncrIp(q) /\ ip[q] = k) \/ (IncrEmail(q) /\ email[q] = k)
<1> USE DEF Handling, locals, IInv, TypeOK
<1>1. CASE \E i \in Ip, e \in Email, g \in BOOLEAN : Arrive(q, i, e, g)
  BY <1>1 DEF Arrive
<1>2. CASE CheckIp(q) \/ CheckEmail(q) \/ LoadUser(q) \/ Save(q) \/ DatabaseError(q) \/ Fail(q)
  BY <1>2 DEF CheckIp, CheckEmail, LoadUser, Save, DatabaseError, Fail
<1>3. CASE IncrIp(q)
  <2>1. CASE IsLocked(ip[q])
    BY <1>3, <2>1 DEF IncrIp
  <2>2. CASE ~IsLocked(ip[q])
    <3>1. lock' = [lock EXCEPT ![ip[q]] = Counted(ip[q])]
      BY <1>3, <2>2 DEF IncrIp
    <3> QED BY <1>3, <2>2, <3>1
  <2> QED BY <2>1, <2>2
<1>4. CASE IncrEmail(q)
  <2>1. CASE IsLocked(email[q])
    BY <1>4, <2>1 DEF IncrEmail
  <2>2. CASE ~IsLocked(email[q])
    <3>1. lock' = [lock EXCEPT ![email[q]] = Counted(email[q])]
      BY <1>4, <2>2 DEF IncrEmail
    <3> QED BY <1>4, <2>2, <3>1
  <2> QED BY <2>1, <2>2
<1>5. CASE ExpireIp(q) \/ ExpireEmail(q)
  <2>1. PICK j \in {ip[q], email[q]} : lock' = [lock EXCEPT ![j] = Expired(j, CounterTTL)]
    BY <1>5 DEF ExpireIp, ExpireEmail
  <2>2. lock[k] # None => Expired(k, CounterTTL).n = lock[k].n /\ Expired(k, CounterTTL).locked = lock[k].locked
    BY DEF Expired, Lock
  <2>3. lock[k] = None => Expired(k, CounterTTL) = None
    BY DEF Expired
  <2> QED BY <2>1, <2>2, <2>3
<1>6. CASE LockIp(q) \/ LockEmail(q)
  BY <1>6 DEF LockIp, LockEmail, Locked
<1>7. CASE Reset(q)
  BY <1>7 DEF Reset
<1> QED BY <1>1, <1>2, <1>3, <1>4, <1>5, <1>6, <1>7 DEF StepOf, Step, FailureStep

\* Before a request counts, those that counted already are as many as the key says.
LEMMA CountedSoFar ==
  ASSUME IInv, NEW k \in Key, CountsAt(k), ~IsLocked(k), NEW n \in 0..Counted(k).n - 1
  PROVE  CountedBy(k, n)
<1>1. CASE lock[k] = None
  <2>1. n = 0
    BY <1>1 DEF Counted
  <2>2. Cohort({}, 0)
    BY FS_EmptySet DEF Cohort
  <2> QED BY <2>1, <2>2 DEF CountedBy
<1>2. CASE lock[k] # None
  <2>1. Counted(k).n = lock[k].n + 1 /\ lock[k].n \in Nat
    BY <1>2 DEF Counted, IInv, TypeOK, Lock
  <2> QED BY <1>2, <2>1 DEF CountsAt, IsLocked
<1> QED BY <1>1, <1>2

\* Who overlaps everyone that counted on a key still does after a step.
LEMMA CountedByStays ==
  ASSUME IInv, Told, NEW q \in Request, StepOf(q), NEW k \in Key, NEW n, CountedBy(k, n),
         \A t \in Request : Passed(t, k)' => Passed(t, k) /\ pc[t] # "new"
  PROVE  CountedBy(k, n)'
<1>1. PICK S \in SUBSET CountedOn(k) :
        Cohort(S, n) /\ \A s \in S, t \in Request : Passed(t, k) => Overlap(s, t)
  BY DEF CountedBy
<1>2. S \subseteq CountedOn(k)' /\ S \subseteq {s \in Request : pc[s] # "new"}
  BY CountedStays
<1>3. Cohort(S, n)'
  BY <1>1, <1>2, CohortStays
<1>4. ASSUME NEW s \in S, NEW t \in Request, Passed(t, k)' PROVE Overlap(s, t)'
  <2>1. Overlap(s, t) /\ s \in Request /\ pc[s] # "new" /\ pc[t] # "new"
    BY <1>1, <1>2, <1>4
  <2>2. before'[s] = before[s] /\ before'[t] = before[t]
    BY <2>1, Alone DEF inputs
  <2> QED BY <2>1, <2>2 DEF Overlap
<1> QED BY <1>2, <1>3, <1>4 DEF CountedBy

\* The request that counts joins those that counted before it.
LEMMA CountedByOneMore ==
  ASSUME IInv, Told, NEW q \in Request, StepOf(q), NEW k \in Key, NEW n \in Nat, CountedBy(k, n),
         (IncrIp(q) /\ ip[q] = k) \/ (IncrEmail(q) /\ email[q] = k), ~IsLocked(k)
  PROVE  CountedBy(k, n + 1)'
<1>1. PICK S \in SUBSET CountedOn(k) :
        Cohort(S, n) /\ \A s \in S, t \in Request : Passed(t, k) => Overlap(s, t)
  BY DEF CountedBy
<1>2. S \subseteq CountedOn(k)' /\ S \subseteq {s \in Request : pc[s] # "new"}
  BY CountedStays
<1>3. /\ pc[q] \in {"incr_ip", "incr_email"} /\ outcome[q] = None /\ UNCHANGED inputs
      /\ Passed(q, k)
  BY DEF IncrIp, IncrEmail, Handling, Passed, Counting
<1>4. ip[q] \in Ip /\ email[q] \in Email /\ (k \in Ip <=> k \notin Email)
  BY <1>3, ConstantsAssumption DEF IInv, Presented, Key
<1>5. q \notin S
  BY <1>2, <1>4 DEF CountedOn, IncrIp, IncrEmail, Handling
<1>6. q \in CountedOn(k)'
  <2>0. raised[q] # None /\ raised'[q] # None
    BY <1>3, RaisedStays DEF Told, Staged, StagedAt
  <2>1. CASE IncrIp(q) /\ ip[q] = k
    BY <1>3, <2>0, <2>1 DEF CountedOn, IncrIp, Goto, inputs, IInv, TypeOK
  <2>2. CASE IncrEmail(q) /\ email[q] = k
    BY <1>3, <2>0, <2>2 DEF CountedOn, IncrEmail, Finish, Goto, Answer, inputs, IInv, TypeOK
  <2> QED BY <2>1, <2>2
<1>7. \A s \in S : Overlap(s, q)
  BY <1>1, <1>3
<1>8. Cohort(S \cup {q}, n + 1)'
  <2>1. IsFiniteSet(S \cup {q}) /\ Cardinality(S \cup {q}) = n + 1
    BY <1>1, <1>5, FS_AddElement DEF Cohort
  <2>2. \A s, t \in S \cup {q} : Overlap(s, t)
    BY <1>1, <1>3, <1>7, UnderWay DEF Cohort, Overlap
  <2> QED BY <1>3, <2>1, <2>2 DEF Cohort, Overlap, inputs
<1>9. ASSUME NEW s \in S \cup {q}, NEW t \in Request, Passed(t, k)' PROVE Overlap(s, t)'
  <2>1. CASE t = q
    BY <1>3, <1>7, <2>1, UnderWay DEF Overlap, inputs
  <2>2. CASE t # q
    <3>1. Passed(t, k)
      BY <1>9, <2>2, PassedBy
    <3>2. Overlap(s, t)
      BY <1>1, <1>3, <3>1, UnderWay DEF Passed
    <3> QED BY <1>3, <3>2 DEF Overlap, inputs
  <2> QED BY <2>1, <2>2
<1> QED BY <1>2, <1>6, <1>8, <1>9 DEF CountedBy

LEMMA CountsAtStep ==
  ASSUME IInv, Told, NEW q \in Request, StepOf(q), NEW k \in Key, CountsAt(k)
  PROVE  CountsAt(k)'
<1> SUFFICES ASSUME lock'[k] # None, ~lock'[k].locked, NEW n \in 0..lock'[k].n
             PROVE  CountedBy(k, n)'
  BY DEF CountsAt
<1>1. CASE lock[k] # None /\ ~lock[k].locked /\ lock'[k].n = lock[k].n
  <2>1. CountedBy(k, n)
    BY <1>1 DEF CountsAt
  <2> QED BY <1>1, <2>1, PassedBy, CountedByStays
<1>2. CASE /\ ~IsLocked(k) /\ lock'[k] = Counted(k)
           /\ (IncrIp(q) /\ ip[q] = k) \/ (IncrEmail(q) /\ email[q] = k)
  <2>1. Counted(k).n \in Nat /\ n \in 0..Counted(k).n
    BY <1>2, LockType DEF IInv
  <2>2. CASE n = Counted(k).n
    <3>1. n - 1 \in 0..Counted(k).n - 1 /\ n - 1 \in Nat /\ (n - 1) + 1 = n
      BY <2>1, <2>2 DEF Counted, IInv, TypeOK, Lock
    <3>2. CountedBy(k, n - 1)
      BY <1>2, <3>1, CountedSoFar
    <3>3. CountedBy(k, (n - 1) + 1)'
      BY <1>2, <3>1, <3>2, CountedByOneMore
    <3> QED BY <3>1, <3>3
  <2>3. CASE n # Counted(k).n
    <3>1. CountedBy(k, n)
      BY <1>2, <2>1, <2>3, CountedSoFar
    <3>2. ASSUME NEW t \in Request, Passed(t, k)' PROVE Passed(t, k) /\ pc[t] # "new"
      <4>1. CASE t # q
        BY <3>2, <4>1, PassedBy
      <4>2. CASE t = q
        BY <1>2, <4>2 DEF IncrIp, IncrEmail, Handling, Passed, Counting
      <4> QED BY <4>1, <4>2
    <3> QED BY <3>1, <3>2, CountedByStays
  <2> QED BY <2>2, <2>3
<1> QED BY <1>1, <1>2, CounterBy

\* Attempts change when their request counts.
LEMMA AttemptsBy ==
  ASSUME IInv, Told, NEW q \in Request, StepOf(q)
  PROVE  /\ \/ attempts'[q].ip = attempts[q].ip
            \/ /\ ip[q] \in Ip /\ lock'[ip[q]] # None /\ ~lock'[ip[q]].locked
               /\ attempts'[q].ip = lock'[ip[q]].n /\ UNCHANGED inputs
         /\ \/ attempts'[q].email = attempts[q].email
            \/ /\ email[q] \in Email /\ lock'[email[q]] # None /\ ~lock'[email[q]].locked
               /\ attempts'[q].email = lock'[email[q]].n /\ UNCHANGED inputs
<1> USE DEF Handling, locals, IInv, TypeOK
<1>1. CASE ~(IncrIp(q) \/ IncrEmail(q))
  BY <1>1 DEF StepOf, Arrive, Step, CheckIp, CheckEmail, LoadUser, Save, FailureStep, ExpireIp,
              ExpireEmail, LockIp, LockEmail, Reset, DatabaseError, Fail
<1>2. ASSUME NEW k \in Key, ~IsLocked(k) PROVE Counted(k) # None /\ ~Counted(k).locked
  BY <1>2, ConstantsAssumption, LockType DEF Counted, IsLocked, Lock
<1>3. CASE IncrIp(q)
  <2>1. ip[q] \in Ip /\ ip[q] \in Key
    BY <1>3 DEF IncrIp, Presented, Key
  <2>2. CASE IsLocked(ip[q])
    BY <1>3, <2>2 DEF IncrIp
  <2>3. CASE ~IsLocked(ip[q])
    <3>1. /\ lock' = [lock EXCEPT ![ip[q]] = Counted(ip[q])]
          /\ attempts' = [attempts EXCEPT ![q].ip = Counted(ip[q]).n] /\ UNCHANGED inputs
      BY <1>3, <2>3 DEF IncrIp
    <3> QED BY <1>2, <2>1, <2>3, <3>1
  <2> QED BY <2>2, <2>3
<1>4. CASE IncrEmail(q)
  <2>1. email[q] \in Email /\ email[q] \in Key
    BY <1>4 DEF IncrEmail, Presented, Key
  <2>2. CASE IsLocked(email[q])
    BY <1>4, <2>2 DEF IncrEmail
  <2>3. CASE ~IsLocked(email[q])
    <3>1. /\ lock' = [lock EXCEPT ![email[q]] = Counted(email[q])]
          /\ attempts' = [attempts EXCEPT ![q].email = Counted(email[q]).n] /\ UNCHANGED inputs
      BY <1>4, <2>3 DEF IncrEmail
    <3> QED BY <1>2, <2>1, <2>3, <3>1
  <2> QED BY <2>2, <2>3
<1> QED BY <1>1, <1>3, <1>4

\* What a request read from a counter stays the number of a cohort.
LEMMA AttemptsAtStep ==
  ASSUME IInv, IInv', Told, NEW q \in Request, StepOf(q), Counts, NEW r \in Request
  PROVE  AttemptsAt(r)'
<1>0. pc'[r] = "new" => attempts'[r].ip = 0 /\ attempts'[r].email = 0
  BY Alone DEF Counts, AttemptsAt
<1>1. ASSUME NEW k \in Key, lock'[k] # None, ~lock'[k].locked, NEW n \in 0..lock'[k].n
      PROVE  \E S \in SUBSET CountedOn(k)' : Cohort(S, n)'
  BY <1>1, CountsAtStep DEF Counts, CountsAt, CountedBy
<1>2. \A k \in Key :
        /\ k \in Ip => CountedOn(k)' \subseteq {s \in Request : raised'[s] # None /\ ip'[s] = k}
        /\ k \in Email => CountedOn(k)' \subseteq {s \in Request : raised'[s] # None /\ email'[s] = k}
  BY ConstantsAssumption DEF CountedOn, IInv, Presented, Key
<1>3. ASSUME NEW n, NEW S \in SUBSET {s \in Request : raised[s] # None}, Cohort(S, n)
      PROVE  /\ Cohort(S, n)'
             /\ \A s \in S : raised'[s] # None /\ ip'[s] = ip[s] /\ email'[s] = email[s]
  <2>0. \A s \in S : s \in Request /\ pc[s] # "new" /\ raised'[s] # None
    BY RaisedStays
  <2>1. Cohort(S, n)'
    BY <1>3, <2>0, CohortStays
  <2>2. \A s \in S : raised'[s] # None /\ ip'[s] = ip[s] /\ email'[s] = email[s]
    BY <2>0, Alone DEF inputs
  <2> QED BY <2>1, <2>2
<1>4. pc[r] = "new" => attempts'[r] = attempts[r] /\ attempts[r].ip = 0 /\ attempts[r].email = 0
  BY Alone DEF Counts, AttemptsAt, locals
<1>5. pc[r] # "new" => ip'[r] = ip[r] /\ email'[r] = email[r]
  BY Alone DEF inputs
<1>6. Cohort({}, 0)'
  BY FS_EmptySet DEF Cohort
<1>7. ASSUME NEW n \in 0..attempts'[r].ip
      PROVE  \E S \in SUBSET {s \in Request : raised'[s] # None /\ ip'[s] = ip'[r]} : Cohort(S, n)'
  <2>1. CASE pc[r] = "new"
    BY <1>4, <1>6, <1>7, <2>1
  <2>2. CASE pc[r] # "new" /\ attempts'[r].ip = attempts[r].ip
    <3>1. PICK S \in SUBSET {s \in Request : raised[s] # None /\ ip[s] = ip[r]} : Cohort(S, n)
      BY <1>7, <2>2 DEF Counts, AttemptsAt
    <3> QED BY <1>3, <1>5, <2>2, <3>1
  <2>3. CASE pc[r] # "new" /\ attempts'[r].ip # attempts[r].ip
    <3>1. /\ ip[r] \in Ip /\ lock'[ip[r]] # None /\ ~lock'[ip[r]].locked
          /\ attempts'[r].ip = lock'[ip[r]].n
      BY <2>3, Alone, AttemptsBy
    <3>2. PICK k \in Key : k = ip[r]
      BY <3>1 DEF Key
    <3>3. PICK S \in SUBSET CountedOn(k)' : Cohort(S, n)'
      BY <1>1, <1>7, <3>1, <3>2
    <3> QED BY <1>2, <1>5, <2>3, <3>1, <3>2, <3>3
  <2> QED BY <2>1, <2>2, <2>3
<1>8. ASSUME NEW n \in 0..attempts'[r].email
      PROVE  \E S \in SUBSET {s \in Request : raised'[s] # None /\ email'[s] = email'[r]} : Cohort(S, n)'
  <2>1. CASE pc[r] = "new"
    BY <1>4, <1>6, <1>8, <2>1
  <2>2. CASE pc[r] # "new" /\ attempts'[r].email = attempts[r].email
    <3>1. PICK S \in SUBSET {s \in Request : raised[s] # None /\ email[s] = email[r]} : Cohort(S, n)
      BY <1>8, <2>2 DEF Counts, AttemptsAt
    <3> QED BY <1>3, <1>5, <2>2, <3>1
  <2>3. CASE pc[r] # "new" /\ attempts'[r].email # attempts[r].email
    <3>1. /\ email[r] \in Email /\ lock'[email[r]] # None /\ ~lock'[email[r]].locked
          /\ attempts'[r].email = lock'[email[r]].n
      BY <2>3, Alone, AttemptsBy
    <3>2. PICK k \in Key : k = email[r]
      BY <3>1 DEF Key
    <3>3. PICK S \in SUBSET CountedOn(k)' : Cohort(S, n)'
      BY <1>1, <1>8, <3>1, <3>2
    <3> QED BY <1>2, <1>5, <2>3, <3>1, <3>2, <3>3
  <2> QED BY <2>1, <2>2, <2>3
<1> QED BY <1>0, <1>7, <1>8 DEF AttemptsAt

LEMMA CountsStep ==
  ASSUME IInv, IInv', Told, Counts, [Next]_vars
  PROVE  Counts'
<1>1. CASE UNCHANGED vars
  BY <1>1 DEF vars, inputs, locals, Counts, CountsAt, CountedBy, CountedOn, AttemptsAt, Cohort,
              Overlap, Passed
<1>2. CASE Tick
  <2>1. UNCHANGED <<pc, ip, email, before, ipLock, raised, attempts, outcome>>
    BY <1>2 DEF Tick, inputs
  <2>2. ASSUME NEW k \in Key, lock'[k] # None, ~lock'[k].locked
        PROVE  lock[k] # None /\ ~lock[k].locked /\ lock'[k].n = lock[k].n
    BY <1>2, <2>2, ConstantsAssumption DEF Tick, IInv, TypeOK, Lock
  <2>3. ASSUME NEW k \in Key PROVE CountsAt(k)'
    <3> SUFFICES ASSUME lock'[k] # None, ~lock'[k].locked, NEW n \in 0..lock'[k].n
                 PROVE  CountedBy(k, n)'
      BY DEF CountsAt
    <3>1. CountedBy(k, n)
      BY <2>2 DEF Counts, CountsAt
    <3> QED BY <2>1, <3>1 DEF CountedBy, CountedOn, Cohort, Overlap, Passed
  <2>4. ASSUME NEW r \in Request PROVE AttemptsAt(r)'
    BY <2>1 DEF Counts, AttemptsAt, Cohort, Overlap
  <2> QED BY <2>3, <2>4 DEF Counts
<1>3. ASSUME NEW q \in Request, StepOf(q) PROVE Counts'
  BY <1>3, CountsAtStep, AttemptsAtStep DEF Counts
<1> QED BY <1>1, <1>2, <1>3, Steps

LEMMA CountsInit == Init => Counts
<1> SUFFICES ASSUME Init PROVE Counts
  OBVIOUS
<1>1. Cohort({}, 0)
  BY FS_EmptySet DEF Cohort
<1> QED BY <1>1 DEF Init, Counts, CountsAt, AttemptsAt

\* A progressive lock is set only when Max failed logins from one address, or Max for
\* one e-mail, were in flight at the same time, for every limit and every number of
\* requests (check_limit takes a counter for a lock; register_failure).
THEOREM LockNeedsConcurrency == Spec => []LockTakesConcurrency
<1>1. ASSUME IInv, Told, Counts PROVE LockTakesConcurrency
  <2> SUFFICES ASSUME NEW r \in Request, pc[r] = "lock_ip"
               PROVE  \/ FailedTogether({s \in Request : ip[s] = ip[r]}, Max)
                      \/ FailedTogether({s \in Request : email[s] = email[r]}, Max)
    BY DEF LockTakesConcurrency
  <2>1. MaxAttempts(r) >= Max /\ Max \in Nat /\ attempts[r].ip \in Nat /\ attempts[r].email \in Nat
    BY <1>1, ConstantsAssumption DEF Told, Staged, StagedAt, IInv, TypeOK
  <2>2. Max \in 0..attempts[r].ip \/ Max \in 0..attempts[r].email
    BY <2>1 DEF MaxAttempts
  <2>3. ASSUME Max \in 0..attempts[r].ip
        PROVE  FailedTogether({s \in Request : ip[s] = ip[r]}, Max)
    <3>1. PICK S \in SUBSET {s \in Request : raised[s] # None /\ ip[s] = ip[r]} : Cohort(S, Max)
      BY <1>1, <2>3 DEF Counts, AttemptsAt
    <3> QED BY <3>1 DEF FailedTogether, Cohort
  <2>4. ASSUME Max \in 0..attempts[r].email
        PROVE  FailedTogether({s \in Request : email[s] = email[r]}, Max)
    <3>1. PICK S \in SUBSET {s \in Request : raised[s] # None /\ email[s] = email[r]} : Cohort(S, Max)
      BY <1>1, <2>4 DEF Counts, AttemptsAt
    <3> QED BY <3>1 DEF FailedTogether, Cohort
  <2> QED BY <2>2, <2>3, <2>4
<1>2. IInv /\ IInv' /\ Told /\ Counts /\ [Next]_vars => Counts'
  BY CountsStep
<1> QED BY <1>1, <1>2, CountsInit, AlwaysTold, PTL DEF Spec

-----------------------------------------------------------------------------
(***************************************************************************)
(* The count in the row of a user.  While the logins for an e-mail follow  *)
(* one another and all fail, the row counts those that are through with    *)
(* authenticate, and is locked at the Max-th.                              *)
(***************************************************************************)
Checking == {"new", "get_ip", "get_email"}

\* The requests for an e-mail that check_limit let pass.
Admitted(e) ==
  {r \in Request : email[r] = e /\ outcome[r] # "limited" /\ pc[r] \notin Checking}

\* Those of them that authenticate is through with.
Decided(e) == {r \in Admitted(e) : pc[r] \notin {"load", "save"}}

AllFailing(e) ==
  /\ Sequential(Admitted(e))
  /\ \A r \in Admitted(e) : ~good[r] /\ raised[r] # "error" /\ outcome[r] \in {"refused", None}

\* The n-th failure makes u of the row.
Fails(u, n) == IF n = Max THEN u.until # None ELSE u.fails = n /\ u.until = None

RowCounts(e) ==
  AllFailing(e) =>
    /\ IsFiniteSet(Decided(e))
    /\ Cardinality(Decided(e)) < Max =>
         /\ row[e].fails = Cardinality(Decided(e)) /\ ~InForce(row[e])
         /\ \A r \in Admitted(e) :
              pc[r] = "save" => Fails(Saved(row[e], new[r]), Cardinality(Decided(e)) + 1)
    /\ Cardinality(Decided(e)) = Max /\ Admitted(e) = Decided(e) => row[e].until # None

Refused == \A r \in Request : outcome[r] = "refused" => raised[r] = "refused" /\ pc[r] = "done"

Rows == Refused /\ \A e \in Registered \ Inactive : RowCounts(e)

\* A login is refused after it was registered as a failure.
LEMMA RefusedStep ==
  ASSUME IInv, Told, Refused, [Next]_vars
  PROVE  Refused'
<1> SUFFICES ASSUME NEW r \in Request, outcome'[r] = "refused"
             PROVE  raised'[r] = "refused" /\ pc'[r] = "done"
  BY DEF Refused
<1>1. CASE Tick \/ UNCHANGED vars
  BY <1>1 DEF Tick, vars, locals, Refused
<1>2. ASSUME NEW q \in Request, StepOf(q), q # r PROVE raised'[r] = "refused" /\ pc'[r] = "done"
  BY <1>2, Alone DEF Refused
<1>3. CASE StepOf(r)
  <2>0. outcome[r] # "refused"
    BY <1>3, Alone, ConstantsAssumption
  <2> USE DEF IInv, TypeOK, Goto, Answer, Handling, locals
  <2>1. CASE (\E i \in Ip, e \in Email, g \in BOOLEAN : Arrive(r, i, e, g)) \/ CheckIp(r) \/ CheckEmail(r)
    BY <2>0, <2>1 DEF Arrive, CheckIp, CheckEmail
  <2>2. CASE LoadUser(r) \/ Save(r) \/ DatabaseError(r)
    BY <2>0, <2>2 DEF LoadUser, Save, DatabaseError, Raise
  <2>3. CASE IncrIp(r) \/ ExpireIp(r)
    BY <2>0, <2>3 DEF IncrIp, ExpireIp
  <2>4. CASE IncrEmail(r) \/ ExpireEmail(r)
    BY <2>0, <2>4 DEF IncrEmail, ExpireEmail, Finish
  <2>5. CASE LockIp(r) \/ LockEmail(r) \/ Reset(r) \/ Fail(r)
    BY <2>0, <2>5 DEF LockIp, LockEmail, Reset, Fail
  <2> QED BY <1>3, <2>1, <2>2, <2>3, <2>4, <2>5 DEF StepOf, Step, FailureStep
<1> QED BY <1>1, <1>2, <1>3, Steps

\* Where a login goes from where it is, past its arrival.
LEMMA Onward ==
  ASSUME IInv, Told, NEW q \in Request, StepOf(q), pc[q] # "new"
  PROVE  /\ pc[q] \in Checking =>
              \/ pc'[q] \in Checking \/ outcome'[q] = "limited"
              \/ pc'[q] = "load"
         /\ pc[q] = "load" => LoadUser(q) \/ raised'[q] = "error" \/ outcome'[q] = "error"
         /\ pc[q] = "save" => Save(q) \/ raised'[q] = "error" \/ outcome'[q] = "error"
         /\ pc[q] \notin Checking =>
              /\ pc'[q] \notin Checking /\ outcome'[q] # "limited"
              /\ raised[q] = "error" => raised'[q] = "error"
         /\ pc[q] \notin Checking \cup {"load", "save"} => pc'[q] \notin Checking \cup {"load", "save"}
<1>0. outcome[q] # "limited" /\ None # "limited" /\ StagedAt(q)
  BY Alone, ConstantsAssumption DEF Told, Staged
<1> USE DEF IInv, TypeOK, Goto, Answer, Handling, locals, Checking
<1>1. CASE \E i \in Ip, e \in Email, g \in BOOLEAN : Arrive(q, i, e, g)
  BY <1>1 DEF Arrive
<1>2. CASE CheckIp(q) \/ CheckEmail(q)
  BY <1>2 DEF CheckIp, CheckEmail
<1>3. CASE LoadUser(q)
  <2>1. pc[q] = "load" /\ pc'[q] \in {"incr_ip", "save", "reset"} /\ outcome' = outcome
    BY <1>3 DEF LoadUser, Raise
  <2>2. raised[q] = None
    BY <1>0, <2>1 DEF StagedAt
  <2> QED BY <1>0, <1>3, <2>1, <2>2, ConstantsAssumption
<1>4. CASE Save(q)
  <2>1. pc[q] = "save" /\ pc'[q] \in {"incr_ip", "reset"} /\ outcome' = outcome
    BY <1>4 DEF Save, Raise
  <2>2. raised[q] = None
    BY <1>0, <2>1 DEF StagedAt
  <2> QED BY <1>0, <1>4, <2>1, <2>2, ConstantsAssumption
<1>5. CASE DatabaseError(q)
  <2>1. /\ pc[q] \in {"load", "save"} /\ pc'[q] = "incr_ip" /\ outcome' = outcome
        /\ raised'[q] = "error"
    BY <1>5 DEF DatabaseError, Raise
  <2> QED BY <1>0, <2>1
<1>6. CASE IncrIp(q) \/ ExpireIp(q)
  BY <1>0, <1>6 DEF IncrIp, ExpireIp
<1>7. CASE IncrEmail(q) \/ ExpireEmail(q)
  BY <1>0, <1>7 DEF IncrEmail, ExpireEmail, Finish
<1>8. CASE LockIp(q) \/ LockEmail(q) \/ Reset(q)
  BY <1>0, <1>8 DEF LockIp, LockEmail, Reset
<1>9. CASE Fail(q)
  BY <1>0, <1>9 DEF Fail
<1> QED BY <1>1, <1>2, <1>3, <1>4, <1>5, <1>6, <1>7, <1>8, <1>9 DEF StepOf, Step, FailureStep

\* Who was let pass stays so, and if all fail now, all failed before.
LEMMA FailingBefore ==
  ASSUME IInv, Told, NEW q \in Request, StepOf(q), NEW e \in Registered, AllFailing(e)'
  PROVE  AllFailing(e) /\ Admitted(e) \subseteq Admitted(e)'
<1>1. ASSUME NEW r \in Admitted(e)
      PROVE  /\ r \in Request /\ r \in Admitted(e)'
             /\ good'[r] = good[r] /\ before'[r] = before[r]
             /\ raised[r] = "error" => raised'[r] = "error"
             /\ outcome[r] \in {outcome'[r], None}
  <2>1. r \in Request /\ pc[r] \notin Checking /\ pc[r] # "new"
    BY DEF Admitted, Checking
  <2>2. CASE r # q
    BY <2>1, <2>2, Alone DEF Admitted
  <2>3. CASE r = q
    BY <2>1, <2>3, Alone, Onward DEF Admitted, inputs
  <2> QED BY <2>1, <2>2, <2>3
<1> QED BY <1>1 DEF AllFailing, Sequential, Overlap

\* A wrong password counts one more, or locks.
LEMMA FailureCounts ==
  ASSUME NEW u \in [fails : 0..Max - 1, until : Until], ~InForce(u)
  PROVE  Fails(Saved(u, Failure(u)), u.fails + 1)
BY ConstantsAssumption DEF Saved, Failure, Fails, InForce, Until

\* What matters to the count of a row is as it was.
SameFor(e) ==
  /\ UNCHANGED <<Admitted(e), Decided(e), row[e]>>
  /\ \A r \in Admitted(e) : pc'[r] = "save" => pc[r] = "save" /\ new'[r] = new[r]

\* A step for another e-mail, or one before check_limit or after authenticate, does
\* not matter.
LEMMA Elsewhere ==
  ASSUME IInv, Told, NEW q \in Request, StepOf(q), NEW e \in Registered,
         email[q] # e \/ pc[q] \notin Checking \cup {"load", "save"}
           \/ pc'[q] \in Checking \/ outcome'[q] = "limited"
  PROVE  SameFor(e)
<1>1. ASSUME NEW r \in Request
      PROVE  /\ r \in Admitted(e)' <=> r \in Admitted(e)
             /\ r \in Decided(e)' <=> r \in Decided(e)
             /\ r \in Admitted(e) /\ pc'[r] = "save" => pc[r] = "save" /\ new'[r] = new[r]
  <2>1. CASE r # q
    BY <2>1, Alone DEF Admitted, Decided
  <2>2. CASE r = q /\ pc[q] = "new"
    BY <2>2, Alone DEF Admitted, Decided, Checking
  <2>3. CASE r = q /\ pc[q] # "new" /\ email[q] # e
    BY <2>3, Alone DEF Admitted, Decided, inputs
  <2>4. CASE r = q /\ pc[q] # "new" /\ (pc'[q] \in Checking \/ outcome'[q] = "limited")
    BY <2>4, Onward DEF Admitted, Decided
  <2>5. CASE r = q /\ pc[q] \notin Checking \cup {"load", "save"}
    <3>1. /\ pc'[q] \notin Checking \cup {"load", "save"} /\ outcome'[q] # "limited"
          /\ email' = email /\ outcome[q] # "limited"
      BY <2>5, Alone, Onward, ConstantsAssumption DEF inputs, Checking
    <3> QED BY <2>5, <3>1 DEF Admitted, Decided
  <2> QED BY <2>1, <2>2, <2>3, <2>4, <2>5
<1>2. row'[e] = row[e]
  <2> SUFFICES ASSUME row'[e] # row[e] PROVE FALSE
    OBVIOUS
  <2>1. email[q] = e /\ pc[q] = "save" /\ pc[q] # "new"
    BY RowBy
  <2>2. pc'[q] \notin Checking /\ outcome'[q] # "limited"
    BY <2>1, Onward DEF Checking
  <2> QED BY <2>1, <2>2
<1>3. Admitted(e)' = Admitted(e) /\ Decided(e)' = Decided(e)
  BY <1>1 DEF Admitted, Decided
<1> QED BY <1>1, <1>2, <1>3 DEF SameFor, Admitted

\* Check_limit lets a login pass.
LEMMA Admits ==
  ASSUME IInv, Told, NEW q \in Request, StepOf(q), NEW e \in Registered,
         email[q] = e, pc[q] \in Checking, pc'[q] = "load", outcome'[q] # "limited"
  PROVE  /\ q \in Admitted(e)' \ Decided(e)'
         /\ Decided(e)' = Decided(e) /\ row'[e] = row[e]
         /\ \A r \in Admitted(e)' : pc'[r] = "save" => r \in Admitted(e) /\ pc[r] = "save" /\ new'[r] = new[r]
<1>1. pc[q] # "new"
  BY Alone
<1>2. email'[q] = e
  BY <1>1, Alone DEF inputs
<1>3. ASSUME NEW r \in Request
      PROVE  /\ r \in Decided(e)' <=> r \in Decided(e)
             /\ r \in Admitted(e)' /\ pc'[r] = "save" => r \in Admitted(e) /\ pc[r] = "save" /\ new'[r] = new[r]
  <2>1. CASE r # q
    BY <2>1, Alone DEF Admitted, Decided
  <2>2. CASE r = q
    BY <2>2 DEF Admitted, Decided
  <2> QED BY <2>1, <2>2
<1>4. row'[e] = row[e]
  BY RowBy DEF Checking
<1>5. Decided(e)' = Decided(e)
  BY <1>3 DEF Admitted, Decided
<1> QED BY <1>2, <1>3, <1>4, <1>5 DEF Admitted, Decided, Checking

\* Authenticate is through with a login.
LEMMA Decides ==
  ASSUME IInv, Told, NEW q \in Request, StepOf(q), NEW e \in Registered,
         email[q] = e, pc[q] \in {"load", "save"}, pc'[q] \notin {"load", "save"}, IsFiniteSet(Decided(e))
  PROVE  /\ IsFiniteSet(Decided(e)') /\ Cardinality(Decided(e))' = Cardinality(Decided(e)) + 1
         /\ \A r \in Admitted(e)' : pc'[r] = "save" => r # q /\ r \in Admitted(e)
<1>1. /\ pc[q] # "new" /\ email'[q] = e /\ outcome'[q] # "limited"
      /\ pc'[q] \notin Checking
  <2>1. pc[q] \notin Checking /\ pc[q] # "new"
    BY DEF Checking
  <2> QED BY <2>1, Alone, Onward DEF inputs
<1>2. q \notin Decided(e)
  BY DEF Decided
<1>3. ASSUME NEW r \in Request
      PROVE  /\ r \in Decided(e)' <=> r \in Decided(e) \cup {q}
             /\ r \in Admitted(e)' /\ pc'[r] = "save" => r # q /\ r \in Admitted(e)
  <2>1. CASE r # q
    BY <2>1, Alone DEF Admitted, Decided
  <2>2. CASE r = q
    BY <1>1, <2>2 DEF Admitted, Decided
  <2> QED BY <2>1, <2>2
<1>4. Decided(e)' = Decided(e) \cup {q}
  BY <1>3 DEF Admitted, Decided
<1>5. IsFiniteSet(Decided(e) \cup {q}) /\ Cardinality(Decided(e) \cup {q}) = Cardinality(Decided(e)) + 1
  BY <1>2, FS_AddElement
<1> QED BY <1>3, <1>4, <1>5 DEF Admitted

\* Authenticate reads a row that is locked, or makes up its mind about one failure more.
LEMMA LoadCounts ==
  ASSUME IInv, Told, NEW q \in Request, LoadUser(q), NEW e \in Registered \ Inactive,
         email[q] = e, ~good[q]
  PROVE  /\ pc[q] = "load" /\ UNCHANGED <<row, inputs>>
         /\ \/ InForce(row[e]) /\ pc'[q] = "incr_ip"
            \/ /\ ~InForce(row[e]) /\ pc'[q] = "save"
               /\ new'[q] = Failure(row[e])
<1>1. pc[q] = "load" /\ UNCHANGED <<row, inputs>>
  BY DEF LoadUser, Handling
<1>2. CASE InForce(row[e])
  BY <1>1, <1>2 DEF LoadUser, Raise, Goto, IInv, TypeOK
<1>3. CASE ~InForce(row[e])
  BY <1>1, <1>3 DEF LoadUser, Goto, IInv, TypeOK
<1> QED BY <1>1, <1>2, <1>3

LEMMA RowCountsSame ==
  ASSUME NEW e \in Registered, RowCounts(e), AllFailing(e), SameFor(e)
  PROVE  RowCounts(e)'
<1> DEFINE n == Cardinality(Decided(e))
<1>1. Decided(e)' = Decided(e) /\ Admitted(e)' = Admitted(e) /\ row'[e] = row[e] /\ n' = n
  BY DEF SameFor
<1>2. ASSUME n < Max, NEW r \in Admitted(e), pc'[r] = "save"
      PROVE  Fails(Saved(row'[e], new'[r]), n + 1)
  BY <1>1, <1>2 DEF SameFor, RowCounts
<1>3. /\ IsFiniteSet(Decided(e))
      /\ n < Max => row[e].fails = n /\ ~InForce(row[e])
      /\ n = Max /\ Admitted(e) = Decided(e) => row[e].until # None
  BY DEF RowCounts
<1> QED BY <1>1, <1>2, <1>3 DEF RowCounts, Fails, Saved, InForce

LEMMA RowCountsOwn ==
  ASSUME IInv, Told, Refused', NEW q \in Request, StepOf(q), NEW e \in Registered \ Inactive,
         RowCounts(e)
  PROVE  RowCounts(e)'
<1> SUFFICES ASSUME AllFailing(e)' PROVE RowCounts(e)'
  BY DEF RowCounts
<1> DEFINE n == Cardinality(Decided(e))
           Saves(r) == Fails(Saved(row[e], new[r]), n + 1)
<1>1. AllFailing(e) /\ Admitted(e) \subseteq Admitted(e)'
  BY FailingBefore
<1>2. /\ IsFiniteSet(Decided(e)) /\ n \in Nat /\ Max \in Nat
      /\ n < Max => row[e].fails = n /\ ~InForce(row[e])
      /\ n < Max => \A r \in Admitted(e) : pc[r] = "save" => Saves(r)
      /\ n = Max /\ Admitted(e) = Decided(e) => row[e].until # None
  BY <1>1, FS_CardinalityType, ConstantsAssumption DEF RowCounts
<1>3. row[e] \in [fails : 0..Max - 1, until : Until]
  BY DEF IInv, TypeOK
<1>4. CASE email[q] # e \/ pc[q] \notin Checking \cup {"load", "save"}
             \/ pc'[q] \in Checking \/ outcome'[q] = "limited"
  BY <1>1, <1>4, Elsewhere, RowCountsSame
<1>5. CASE /\ email[q] = e /\ pc[q] \in Checking
           /\ pc'[q] \notin Checking /\ outcome'[q] # "limited"
  <2>1. pc[q] # "new"
    BY <1>5, Alone DEF Checking
  <2>2. pc'[q] = "load"
    BY <1>5, <2>1, Onward
  <2>3. /\ q \in Admitted(e)' \ Decided(e)'
        /\ Decided(e)' = Decided(e) /\ row'[e] = row[e]
        /\ \A r \in Admitted(e)' : pc'[r] = "save" => r \in Admitted(e) /\ pc[r] = "save" /\ new'[r] = new[r]
    BY <1>5, <2>2, Admits
  <2>4. ASSUME n < Max, NEW r \in Admitted(e)', pc'[r] = "save"
        PROVE  Fails(Saved(row'[e], new'[r]), n + 1)
    BY <1>2, <2>3, <2>4
  <2> QED BY <1>2, <2>3, <2>4 DEF RowCounts, Fails, Saved, InForce
<1>6. CASE email[q] = e /\ pc[q] \in {"load", "save"}
  <2>1. /\ q \in Admitted(e) /\ q \in Admitted(e)' /\ pc[q] # "new" /\ outcome[q] = None
        /\ UNCHANGED inputs
    BY <1>1, <1>6, Alone, ConstantsAssumption DEF Admitted, Checking
  <2>2. ~good[q] /\ raised'[q] # "error" /\ outcome'[q] # "error" /\ None # "error"
    BY <1>1, <2>1, ConstantsAssumption DEF AllFailing
  <2>3. CASE pc[q] = "load"
    <3>1. LoadUser(q)
      BY <2>1, <2>2, <2>3, Onward
    <3>2. CASE InForce(row[e])
      <4>1. n >= Max /\ pc'[q] = "incr_ip"
        BY <1>2, <1>6, <2>2, <3>1, <3>2, LoadCounts
      <4>2. IsFiniteSet(Decided(e)') /\ n' = n + 1
        BY <1>2, <1>6, <4>1, Decides
      <4> QED BY <1>2, <4>1, <4>2 DEF RowCounts
    <3>3. CASE ~InForce(row[e])
      <4>1. pc'[q] = "save" /\ new'[q] = Failure(row[e]) /\ row' = row
        BY <1>6, <2>2, <3>1, <3>3, LoadCounts
      <4>2. ASSUME NEW r \in Request
            PROVE  /\ r \in Admitted(e)' <=> r \in Admitted(e)
                   /\ r \in Decided(e)' <=> r \in Decided(e)
        <5>1. CASE r # q
          BY <5>1, Alone DEF Admitted, Decided
        <5>2. CASE r = q
          BY <2>1, <2>3, <4>1, <5>2 DEF Decided
        <5> QED BY <5>1, <5>2
      <4>3. Admitted(e)' = Admitted(e) /\ Decided(e)' = Decided(e)
        BY <4>2 DEF Admitted, Decided
      <4>4. q \in Admitted(e) /\ q \notin Decided(e)
        BY <2>1, <2>3 DEF Decided
      <4>5. ASSUME n < Max, NEW r \in Admitted(e), pc'[r] = "save"
            PROVE  Fails(Saved(row'[e], new'[r]), n + 1)
        <5>1. CASE r = q
          BY <1>2, <1>3, <3>3, <4>1, <4>5, <5>1, FailureCounts
        <5>2. CASE r # q
          <6>1. pc[r] = "save" /\ new'[r] = new[r]
            BY <4>5, <5>2, Alone DEF Admitted
          <6> QED BY <1>2, <4>1, <4>5, <6>1
        <5> QED BY <5>1, <5>2
      <4> QED BY <1>2, <4>1, <4>3, <4>4, <4>5 DEF RowCounts, Fails, Saved, InForce
    <3> QED BY <3>2, <3>3
  <2>4. CASE pc[q] = "save"
    <3>1. Save(q)
      BY <2>1, <2>2, <2>4, Onward
    <3>2. pc'[q] = "incr_ip" /\ row'[e] = Saved(row[e], new[q]) /\ outcome' = outcome
      BY <1>6, <2>2, <3>1 DEF Save, Raise, Goto, IInv, TypeOK
    <3>3. /\ IsFiniteSet(Decided(e)') /\ n' = n + 1
          /\ \A r \in Admitted(e)' : pc'[r] = "save" => r # q /\ r \in Admitted(e)
      BY <1>2, <1>6, <3>2, Decides
    <3>4. n < Max => Fails(row'[e], n + 1)
      BY <1>2, <2>1, <2>4, <3>2
    \* Nobody else is under way.
    <3>5. ASSUME NEW r \in Admitted(e)', pc'[r] = "save" PROVE FALSE
      <4>1. r # q /\ r \in Request /\ r \in Admitted(e)
        BY <3>3, <3>5 DEF Admitted
      <4>2. outcome[r] = None
        BY <3>2, <3>5, <4>1 DEF AllFailing, Refused
      <4>3. Overlap(r, q)
        BY <2>1, <4>1, <4>2, UnderWay
      <4> QED BY <1>1, <2>1, <4>1, <4>3 DEF AllFailing, Sequential
    <3> QED BY <1>2, <3>3, <3>4, <3>5 DEF RowCounts, Fails, InForce
  <2> QED BY <1>6, <2>3, <2>4
<1> QED BY <1>4, <1>5, <1>6

\* A tick shortens locks, and counts and locks stay what they are.
LEMMA RowCountsTick ==
  ASSUME IInv, Tick, NEW e \in Registered, RowCounts(e)
  PROVE  RowCounts(e)'
<1>1. UNCHANGED <<pc, email, good, before, raised, outcome>>
  BY DEF Tick, inputs
<1>2. Admitted(e)' = Admitted(e) /\ Decided(e)' = Decided(e) /\ (AllFailing(e)' <=> AllFailing(e))
  BY <1>1 DEF Admitted, Decided, AllFailing, Sequential, Overlap
<1>3. row[e] \in [fails : 0..Max - 1, until : Until] /\ row'[e] = [row[e] EXCEPT !.until = Shorter(@)]
  BY DEF Tick, IInv, TypeOK
<1>4. \A m \in Until : (Shorter(m) = None <=> m = None) /\ Shorter(m) \in Until
                         /\ (Shorter(m) # None /\ Shorter(m) > 0 => m # None /\ m > 0)
  BY ConstantsAssumption DEF Until, Shorter
<1>5. row'[e].fails = row[e].fails /\ (InForce(row'[e]) => InForce(row[e]))
      /\ (row'[e].until = None <=> row[e].until = None)
  BY <1>3, <1>4 DEF InForce
<1>6. ASSUME NEW r \in Request, NEW n, Fails(Saved(row[e], new[r]), n)
      PROVE  Fails(Saved(row'[e], new'[r]), n)
  <2>1. new[r] \in Change /\ new'[r] = [new[r] EXCEPT !.until = Shorter(@)]
    BY DEF Tick, IInv, TypeOK
  <2>2. /\ new'[r].cols = new[r].cols /\ new'[r].fails = new[r].fails
        /\ new'[r].until = None <=> new[r].until = None
    BY <1>4, <2>1 DEF Change
  <2> QED BY <1>5, <1>6, <2>2 DEF Fails, Saved
<1>7. \A r \in Admitted(e) : r \in Request
  BY DEF Admitted
<1> QED BY <1>1, <1>2, <1>5, <1>6, <1>7 DEF RowCounts

LEMMA RowsStep ==
  ASSUME IInv, Told, Rows, [Next]_vars
  PROVE  Rows'
<1>1. Refused'
  BY RefusedStep DEF Rows
<1>2. ASSUME NEW e \in Registered \ Inactive PROVE RowCounts(e)'
  <2>1. RowCounts(e)
    BY DEF Rows
  <2>2. CASE UNCHANGED vars
    BY <2>1, <2>2 DEF vars, inputs, locals, RowCounts, AllFailing, Sequential, Overlap, Admitted, Decided
  <2>3. CASE Tick
    BY <2>1, <2>3, RowCountsTick
  <2>4. ASSUME NEW q \in Request, StepOf(q) PROVE RowCounts(e)'
    BY <1>1, <2>1, <2>4, RowCountsOwn
  <2> QED BY <2>2, <2>3, <2>4, Steps
<1> QED BY <1>1, <1>2 DEF Rows

LEMMA RowsInit == Init => Rows
<1> SUFFICES ASSUME Init PROVE Rows
  OBVIOUS
<1>1. Refused
  BY ConstantsAssumption DEF Init, Refused
<1>2. ASSUME NEW e \in Registered \ Inactive PROVE RowCounts(e)
  <2>1. Admitted(e) = {} /\ Decided(e) = {}
    BY DEF Init, Admitted, Decided, Checking
  <2>2. row[e].fails = 0 /\ row[e].until \in {None, 0}
    BY DEF Init
  <2>3. IsFiniteSet({}) /\ Cardinality({}) = 0 /\ Max # 0
    BY FS_EmptySet, ConstantsAssumption
  <2> QED BY <2>1, <2>2, <2>3 DEF RowCounts, InForce
<1> QED BY <1>1, <1>2 DEF Rows

\* Logins with a wrong password that follow one another lock the row at the Max-th,
\* for every limit and whoever else logs in (authenticate).
THEOREM LockAtMax == Spec => []FailuresLock
<1>1. ASSUME Rows PROVE FailuresLock
  <2> SUFFICES ASSUME NEW e \in Registered \ Inactive, AllFailed(e), Sequential(Tried(e))
               PROVE  row[e].until # None
    BY DEF FailuresLock
  <2>1. \A r \in Tried(e) : ~good[r] /\ outcome[r] = "refused" /\ raised[r] = "refused" /\ pc[r] = "done"
    BY <1>1 DEF AllFailed, Rows, Refused, Tried
  <2>2. Admitted(e) = Tried(e) /\ Decided(e) = Tried(e)
    BY <2>1 DEF Admitted, Decided, Tried, Checking
  <2>3. AllFailing(e)
    BY <2>1, <2>2 DEF AllFailing
  <2> QED BY <1>1, <2>2, <2>3 DEF Rows, RowCounts, AllFailed
<1>2. IInv /\ Told /\ Rows /\ [Next]_vars => Rows'
  BY RowsStep
<1> QED BY <1>1, <1>2, RowsInit, AlwaysTold, PTL DEF Spec
=============================================================================
