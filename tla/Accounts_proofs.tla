-------------------------- MODULE Accounts_proofs ---------------------------
(***************************************************************************)
(* What holds of the users table for every set of calls, addresses, names  *)
(* and bodies.                                                             *)
(***************************************************************************)
EXTENDS Accounts, TLAPS

\* What a call has at each of its steps.
Equipped ==
  \A r \in Request :
    /\ pc[r] # "new" => kind[r] \in Kinds /\ owner[r] \in Id
    /\ pc[r] \in {"check", "insert"} => Creating(r) /\ owner[r] = r /\ signup[r] \in Signup
    /\ pc[r] \in {"load", "save"} => kind[r] = "update" /\ data[r] \in Update
    /\ pc[r] = "save" => loaded[r] \in Row

\* The row of a registration exists only after its INSERT.
BornByInsert == \A r \in Request : Exists(r) => pc[r] \in {"refresh", "done"}

\* The e-mails that are stored are normalised ...
Normalised == \A u \in Id : Exists(u) => Normal[users[u].email] = users[u].email

\* ... and distinct.
Unique == \A u, v \in Id : Exists(u) /\ Exists(v) /\ users[u].email = users[v].email => u = v

IInv == TypeOK /\ Equipped /\ BornByInsert /\ Normalised /\ Unique

\* One row per stored e-mail is one row per mailbox, once e-mails are normalised.
LEMMA OneAccount == IInv => OneAccountEach
BY DEF IInv, Normalised, Unique, OneAccountEach

\* The invariant holds before any call.
LEMMA InitInv == Init => IInv
<1> SUFFICES ASSUME Init PROVE IInv
  OBVIOUS
<1>1. TypeOK
  BY DEF Init, TypeOK, Labels
<1>2. Equipped
  BY DEF Init, Equipped
<1>3. BornByInsert
  BY ConstantsAssumption DEF Init, BornByInsert, Id, Exists
<1>4. Normalised /\ Unique
  BY DEF Init, Normalised, Unique, Exists
<1> QED BY <1>1, <1>2, <1>3, <1>4 DEF IInv

-----------------------------------------------------------------------------
(***************************************************************************)
(* Actions that do not write the table.                                    *)
(***************************************************************************)
\* What the rows are like survives an action that leaves them alone and takes
\* no call back to where it has not inserted.
LEMMA RowsStay ==
  ASSUME IInv, UNCHANGED users,
         \A r \in Request : pc[r] \in {"refresh", "done"} => pc'[r] \in {"refresh", "done"}
  PROVE  BornByInsert' /\ Normalised' /\ Unique'
BY DEF IInv, BornByInsert, Normalised, Unique, Exists

\* A call arrives.
LEMMA ArrivalInv ==
  ASSUME IInv, NEW r \in Request, Arrival(r)
  PROVE  IInv' /\ UNCHANGED users
<1>1. CASE \E k \in {"register", "superuser"}, d \in Signup : ArriveRegister(r, k, d)
  <2> PICK k \in {"register", "superuser"}, d \in Signup : ArriveRegister(r, k, d)
    BY <1>1
  <2>1. TypeOK'
    BY DEF IInv, TypeOK, ArriveRegister, Arrive, Goto, Labels, Kinds, Id, Answered
  <2>2. Equipped'
    BY DEF IInv, TypeOK, Equipped, ArriveRegister, Arrive, Goto, Kinds, Id, Creating
  <2>3. UNCHANGED users /\ BornByInsert' /\ Normalised' /\ Unique'
    BY RowsStay DEF IInv, TypeOK, ArriveRegister, Arrive, Goto
  <2> QED BY <2>1, <2>2, <2>3 DEF IInv
<1>2. CASE \E u \in Id, d \in Update : ArriveUpdate(r, u, d)
  <2> PICK u \in Id, d \in Update : ArriveUpdate(r, u, d)
    BY <1>2
  <2>1. TypeOK'
    BY DEF IInv, TypeOK, ArriveUpdate, Arrive, Goto, Labels, Kinds, Answered
  <2>2. Equipped'
    BY DEF IInv, TypeOK, Equipped, ArriveUpdate, Arrive, Goto, Kinds, Creating
  <2>3. UNCHANGED users /\ BornByInsert' /\ Normalised' /\ Unique'
    BY RowsStay DEF IInv, TypeOK, ArriveUpdate, Arrive, Goto
  <2> QED BY <2>1, <2>2, <2>3 DEF IInv
<1> QED BY <1>1, <1>2 DEF Arrival

\* get_by_email.
LEMMA CheckInv ==
  ASSUME IInv, NEW r \in Request, Check(r)
  PROVE  IInv' /\ UNCHANGED users
<1>1. TypeOK'
  BY DEF IInv, TypeOK, Check, Handling, Goto, Answer, Labels, Outcomes, inputs
<1>2. Equipped'
  BY DEF IInv, TypeOK, Equipped, Check, Handling, Goto, Answer, inputs, Creating
<1>3. UNCHANGED users /\ BornByInsert' /\ Normalised' /\ Unique'
  BY RowsStay DEF IInv, TypeOK, Check, Handling, Goto, Answer
<1> QED BY <1>1, <1>2, <1>3 DEF IInv

\* get_current_user.
LEMMA LoadInv ==
  ASSUME IInv, NEW r \in Request, LoadCurrent(r)
  PROVE  IInv' /\ UNCHANGED users
<1> owner[r] \in Id /\ users[owner[r]] \in Row \cup {None}
  BY DEF IInv, TypeOK, Equipped, LoadCurrent, Handling
<1>1. TypeOK'
  BY DEF IInv, TypeOK, LoadCurrent, Handling, Goto, Raise, Labels, Outcomes, inputs
<1>2. Equipped'
  BY DEF IInv, TypeOK, Equipped, LoadCurrent, Handling, Goto, Raise, inputs, Creating, Exists
<1>3. UNCHANGED users /\ BornByInsert' /\ Normalised' /\ Unique'
  BY RowsStay DEF IInv, TypeOK, LoadCurrent, Handling, Goto, Raise
<1> QED BY <1>1, <1>2, <1>3 DEF IInv

\* session.refresh.
LEMMA RefreshInv ==
  ASSUME IInv, NEW r \in Request, Refresh(r)
  PROVE  IInv' /\ UNCHANGED users
<1> owner[r] \in Id /\ users[owner[r]] \in Row \cup {None}
  BY DEF IInv, TypeOK, Equipped, Refresh, Handling
<1>1. TypeOK'
  BY DEF IInv, TypeOK, Refresh, Handling, Answer, Raise, Labels, Outcomes, inputs
<1>2. Equipped'
  BY DEF IInv, TypeOK, Equipped, Refresh, Handling, Answer, Raise, inputs, Creating
<1>3. UNCHANGED users /\ BornByInsert' /\ Normalised' /\ Unique'
  BY RowsStay DEF IInv, TypeOK, Refresh, Handling, Answer, Raise
<1> QED BY <1>1, <1>2, <1>3 DEF IInv

-----------------------------------------------------------------------------
(***************************************************************************)
(* Actions that write the table.                                           *)
(***************************************************************************)
\* An e-mail that no other row has can be given to a row.
LEMMA RowsWritten ==
  ASSUME IInv, NEW u \in Id, NEW w \in Row, Normal[w.email] = w.email,
         (Exists(u) /\ users[u].email = w.email) \/ ~Taken(w.email, u),
         users' = [users EXCEPT ![u] = w]
  PROVE  Normalised' /\ Unique'
<1> users'[u] = w /\ w # None /\ \A v \in Id \ {u} : users'[v] = users[v]
  BY ConstantsAssumption DEF IInv, TypeOK
<1>1. Normalised'
  BY DEF IInv, Normalised, Exists
<1>2. ASSUME NEW v \in Id \ {u}, Exists(v), users[v].email = w.email PROVE FALSE
  BY <1>2 DEF IInv, Unique, Taken
<1>3. Unique'
  BY <1>2 DEF IInv, Unique, Exists
<1> QED BY <1>1, <1>3

\* The INSERT of a registration.
LEMMA InsertInv ==
  ASSUME IInv, NEW r \in Request, Insert(r)
  PROVE  IInv'
<1> /\ pc[r] = "insert" /\ Creating(r) /\ owner[r] = r /\ signup[r] \in Signup
    /\ UNCHANGED <<inputs, loaded, seen>>
  BY DEF IInv, Equipped, Insert, Handling
<1>1. CASE Taken(Email(r), r)
  <2>1. Raise(r)
    BY <1>1 DEF Insert
  <2>2. TypeOK' /\ Equipped'
    BY <2>1 DEF IInv, TypeOK, Equipped, Raise, Outcomes, inputs, Creating
  <2>3. BornByInsert' /\ Normalised' /\ Unique'
    BY <2>1, RowsStay DEF IInv, Raise
  <2> QED BY <2>2, <2>3 DEF IInv
<1>2. CASE ~Taken(Email(r), r)
  <2>1. NewRow(r) \in Row /\ NewRow(r).email = Email(r) /\ Normal[Email(r)] = Email(r)
    BY ConstantsAssumption DEF NewRow, Row, Email, Id
  <2>2. /\ users' = [users EXCEPT ![r] = NewRow(r)]
        /\ \E l \in {"refresh", "done"} : pc' = [pc EXCEPT ![r] = l]
        /\ \E o \in Outcomes : outcome' \in {outcome, [outcome EXCEPT ![r] = o]}
    BY <1>2 DEF Insert, Goto, Answer, Outcomes
  <2>3. TypeOK'
    <3>1. users' \in [Id -> Row \cup {None}]
      BY <2>1, <2>2 DEF IInv, TypeOK
    <3>2. pc' \in [Request -> Labels] /\ outcome' \in [Request -> Outcomes \cup {None}]
      BY <2>2 DEF IInv, TypeOK, Labels
    <3> QED BY <3>1, <3>2 DEF IInv, TypeOK, inputs
  <2>4. Equipped'
    BY <2>2 DEF IInv, TypeOK, Equipped, inputs, Creating
  <2>5. BornByInsert'
    BY <2>2 DEF IInv, TypeOK, BornByInsert, Exists, Id
  <2>6. Normalised' /\ Unique'
    BY <1>2, <2>1, <2>2, RowsWritten DEF Id
  <2> QED BY <2>3, <2>4, <2>5, <2>6 DEF IInv
<1> QED BY <1>1, <1>2

\* What update_user writes into a column is what the body asks for, and fits it.
LEMMA AssignedAsked ==
  ASSUME IInv, NEW r \in Request, pc[r] = "save", CanSave(r), NEW c \in Changed(r)
  PROVE  Asks(r, c, Assigned(r)[c])
<1>1. data[r] \in Update /\ Assigned(r)[c] # None /\ c \in DOMAIN Assigned(r)
  BY DEF IInv, Equipped, CanSave, Changed
<1>2. /\ DOMAIN data[r] \subseteq {"email", "full_name", "password", "is_staff"}
      /\ DOMAIN Assigned(r) = (DOMAIN data[r] \ {"password", "is_staff"})
                                \cup {h \in {"hashed_password"} : Sent(r, "password")}
  BY <1>1, ConstantsAssumption DEF Assigned
<1>3. CASE c = "hashed_password"
  BY <1>1, <1>2, <1>3 DEF Assigned, Asks
<1>4. CASE c = "email"
  BY <1>1, <1>2, <1>4 DEF Assigned, Asks, Sent
<1>5. CASE c = "full_name"
  BY <1>1, <1>2, <1>5 DEF Assigned, Asks, Sent
<1> QED BY <1>1, <1>2, <1>3, <1>4, <1>5

\* The row that update_user leaves is a row, with a normalised e-mail.
LEMMA WrittenRow ==
  ASSUME IInv, NEW r \in Request, pc[r] = "save", CanSave(r)
  PROVE  /\ Written(r) \in Row
         /\ Normal[Written(r).email] = Written(r).email
         /\ Written(r).email = users[owner[r]].email \/ ~Taken(Written(r).email, owner[r])
<1>1. /\ owner[r] \in Id /\ users[owner[r]] \in Row /\ data[r] \in Update
      /\ Normal[users[owner[r]].email] = users[owner[r]].email
  BY DEF IInv, TypeOK, Equipped, Normalised, CanSave, Exists
<1>2. ASSUME NEW c \in Changed(r), c \in Column
      PROVE  /\ c = "email" => /\ Assigned(r)[c] \in Address
                               /\ Normal[Assigned(r)[c]] = Assigned(r)[c]
                               /\ ~Taken(Assigned(r)[c], owner[r])
             /\ c = "full_name" => Assigned(r)[c] \in Name
             /\ c = "hashed_password" => Assigned(r)[c] \in Id
             /\ c # "is_staff"
  <2>1. Asks(r, c, Assigned(r)[c])
    BY AssignedAsked
  <2>2. CASE c = "email"
    <3>1. data[r].email \in Address /\ Assigned(r)[c] = Normal[data[r].email]
      BY <1>1, <2>1, <2>2, ConstantsAssumption DEF Asks, Sent, Value
    <3> QED BY <2>2, <3>1, ConstantsAssumption DEF CanSave
  <2>3. CASE c = "full_name"
    BY <1>1, <2>1, <2>3, ConstantsAssumption DEF Asks, Sent, Value
  <2>4. CASE c = "hashed_password"
    BY <2>1, <2>4 DEF Asks, Id
  <2>5. c # "is_staff"
    BY <2>1 DEF Asks
  <2> QED BY <2>2, <2>3, <2>4, <2>5 DEF Column
<1>3. \A c \in Column : Written(r)[c] = IF c \in Changed(r) THEN Assigned(r)[c] ELSE users[owner[r]][c]
  BY DEF Written
<1>4. Written(r) \in Row
  BY <1>1, <1>2, <1>3 DEF Row, Column, Written
<1>5. /\ Normal[Written(r).email] = Written(r).email
      /\ Written(r).email = users[owner[r]].email \/ ~Taken(Written(r).email, owner[r])
  BY <1>1, <1>2, <1>3 DEF Column
<1> QED BY <1>4, <1>5

\* The UPDATE of update_user.
LEMMA SaveInv ==
  ASSUME IInv, NEW r \in Request, Save(r)
  PROVE  IInv'
<1> pc[r] = "save" /\ owner[r] \in Id /\ UNCHANGED <<inputs, loaded, seen>>
  BY DEF IInv, Equipped, Save, Handling
<1>1. CASE UNCHANGED users
  <2>1. Goto(r, "refresh") \/ Raise(r)
    BY DEF Save
  <2>2. TypeOK'
    BY <1>1, <2>1 DEF IInv, TypeOK, Goto, Raise, Labels, Outcomes, inputs
  <2>3. Equipped'
    BY <2>1 DEF IInv, TypeOK, Equipped, Goto, Raise, inputs, Creating
  <2>4. BornByInsert' /\ Normalised' /\ Unique'
    BY <1>1, <2>1, RowsStay DEF IInv, TypeOK, Goto, Raise
  <2> QED BY <2>2, <2>3, <2>4 DEF IInv
<1>2. CASE /\ Changed(r) # {} /\ CanSave(r) /\ Goto(r, "refresh")
           /\ users' = [users EXCEPT ![owner[r]] = Written(r)]
  <2>1. Exists(owner[r])
    BY <1>2 DEF CanSave
  <2>2. TypeOK'
    BY <1>2, WrittenRow DEF IInv, TypeOK, Goto, Labels, inputs
  <2>3. Equipped'
    BY <1>2 DEF IInv, TypeOK, Equipped, Goto, inputs, Creating
  <2>4. BornByInsert'
    BY <1>2, <2>1 DEF IInv, TypeOK, BornByInsert, Goto, Exists, Id
  <2>5. Normalised' /\ Unique'
    BY <1>2, <2>1, WrittenRow, RowsWritten
  <2> QED BY <2>2, <2>3, <2>4, <2>5 DEF IInv
<1> QED BY <1>1, <1>2 DEF Save, Raise

\* An operator deletes a row.
LEMMA RemoveInv ==
  ASSUME IInv, NEW u \in Id, Remove(u)
  PROVE  IInv'
<1>1. TypeOK'
  BY DEF IInv, TypeOK, Remove, inputs
<1>2. Equipped'
  BY DEF IInv, Equipped, Remove, inputs, Creating
<1>3. \A v \in Id : users'[v] \in {users[v], None}
  BY DEF IInv, TypeOK, Remove
<1>4. BornByInsert' /\ Normalised' /\ Unique'
  BY <1>3 DEF IInv, BornByInsert, Normalised, Unique, Exists, Remove, Id
<1> QED BY <1>1, <1>2, <1>4 DEF IInv

-----------------------------------------------------------------------------
(***************************************************************************)
(* The theorems.                                                           *)
(***************************************************************************)
\* Every step keeps the invariant.
LEMMA NextInv == IInv /\ [Next]_vars => IInv'
<1> SUFFICES ASSUME IInv, [Next]_vars PROVE IInv'
  OBVIOUS
<1>1. CASE \E r \in Request : Arrival(r) \/ Step(r)
  BY <1>1, ArrivalInv, CheckInv, InsertInv, LoadInv, SaveInv, RefreshInv DEF Step
<1>2. CASE \E u \in Id : Remove(u)
  BY <1>2, RemoveInv
<1>3. CASE UNCHANGED vars
  BY <1>3 DEF vars, inputs, IInv, TypeOK, Equipped, Creating, BornByInsert, Normalised, Unique, Exists
<1> QED BY <1>1, <1>2, <1>3 DEF Next, Quiescent

\* The invariant holds in every state of every behaviour.
THEOREM Invariance == Spec => []IInv
<1> QED BY InitInv, NextInv, PTL DEF Spec

\* Every variable keeps its type: among other things, what is stored as a
\* password is a hash.
THEOREM TypeCorrect == Spec => []TypeOK
<1>1. IInv => TypeOK
  BY DEF IInv
<1> QED BY <1>1, Invariance, PTL

\* However an address is written, one row has it (create_user, update_user and
\* the unique column).
THEOREM OneRowEach == Spec => []OneAccountEach
<1> QED BY OneAccount, Invariance, PTL

\* A column of a row changes only to what an update of that user asks for: no
\* update writes back what it read, and none writes a column a client must not
\* set (clean, update_user).
THEOREM NothingUnasked == Spec => OnlyAsked
<1> DEFINE Unasked(u, c) ==
      users[u] # None /\ users'[u] # None /\ users'[u][c] # users[u][c]
    Writer(u, c) ==
      \E r \in Request : pc[r] = "save" /\ owner[r] = u /\ Asks(r, c, users'[u][c])
<1>1. ASSUME IInv, [Next]_vars, NEW u \in Id, NEW c \in Column, Unasked(u, c)
      PROVE  Writer(u, c)
  <2>1. users' # users /\ users[u] # None /\ users'[u] # None
    BY <1>1
  <2>2. CASE \E r \in Request : Insert(r)
    <3> PICK r \in Request : Insert(r)
      BY <2>2
    <3>1. ~Exists(r)
      BY <1>1 DEF IInv, BornByInsert, Insert, Handling, Id
    <3>2. users' = [users EXCEPT ![r] = NewRow(r)]
      BY <2>1 DEF Insert, Raise
    <3> QED BY <1>1, <3>1, <3>2 DEF IInv, TypeOK, Exists
  <2>3. CASE \E r \in Request : Save(r)
    <3> PICK r \in Request : Save(r)
      BY <2>3
    <3>1. /\ pc[r] = "save" /\ owner[r] \in Id /\ CanSave(r)
          /\ users' = [users EXCEPT ![owner[r]] = Written(r)]
      BY <1>1, <2>1 DEF IInv, Equipped, Save, Handling, Raise
    <3>2. owner[r] = u /\ users'[u] = Written(r)
      BY <1>1, <3>1 DEF IInv, TypeOK
    <3>3. c \in Changed(r) /\ users'[u][c] = Assigned(r)[c]
      BY <1>1, <3>2 DEF Written
    <3> QED BY <1>1, <3>1, <3>2, <3>3, AssignedAsked
  <2>4. CASE \E v \in Id : Remove(v)
    BY <1>1, <2>4 DEF IInv, TypeOK, Remove
  <2>5. CASE \E r \in Request : Arrival(r) \/ Check(r) \/ LoadCurrent(r) \/ Refresh(r)
    BY <1>1, <2>1, <2>5, ArrivalInv, CheckInv, LoadInv, RefreshInv
  <2>6. CASE UNCHANGED vars
    BY <2>1, <2>6 DEF vars
  <2> QED BY <1>1, <2>2, <2>3, <2>4, <2>5, <2>6 DEF Next, Step, Quiescent
<1>2. IInv /\ [Next]_vars =>
        [\A u \in Id : \A c \in Column : Unasked(u, c) => Writer(u, c)]_vars
  BY <1>1
<1> QED BY <1>2, Invariance, PTL DEF Spec, OnlyAsked

-----------------------------------------------------------------------------
(***************************************************************************)
(* Why a registration fails late.  From its check on, an address that is   *)
(* taken was given to a row by a call that overlaps it; the invariant      *)
(* LateConflict, which speaks of the error only, does not say so.          *)
(***************************************************************************)
\* A call knows only calls that were answered.
Backwards == \A r \in Request : before[r] \subseteq Answered

Conflict(r) == \E s \in Request \ {r} : Overlap(r, s) /\ Gave(s, Email(r))

TakenSince ==
  \A r \in Request :
    pc[r] = "insert" /\ (outcome[r] # None \/ Taken(Email(r), r)) => Conflict(r)

LInv == IInv /\ Backwards /\ TakenSince

\* An action of a call touches what this call has, and a call that has ended
\* takes no action.
LEMMA OneCallMoves ==
  ASSUME IInv, NEW r \in Request, Arrival(r) \/ Step(r)
  PROVE  /\ outcome[r] = None \/ pc[r] = "new"
         /\ \A s \in Request \ {r} :
              /\ pc'[s] = pc[s] /\ outcome'[s] = outcome[s] /\ before'[s] = before[s]
              /\ kind'[s] = kind[s] /\ signup'[s] = signup[s] /\ data'[s] = data[s]
              /\ owner'[s] = owner[s] /\ loaded'[s] = loaded[s] /\ seen'[s] = seen[s]
         /\ pc[r] # "new" => UNCHANGED inputs
         /\ before'[r] \in {before[r], Answered}
         /\ outcome'[r] \in {outcome[r]} \cup Outcomes
         /\ pc[r] \in {"refresh", "done"} =>
              pc'[r] \in {"refresh", "done"} /\ outcome'[r] \in {outcome[r], "ok", "error"}
<1> USE DEF IInv, TypeOK
<1>1. CASE Arrival(r)
  BY <1>1 DEF Arrival, ArriveRegister, ArriveUpdate, Arrive, Goto
<1>2. CASE Check(r)
  BY <1>2 DEF Check, Handling, Answer, Goto, inputs, Outcomes
<1>3. CASE Insert(r)
  BY <1>3 DEF Insert, Handling, Answer, Goto, Raise, inputs, Outcomes
<1>4. CASE LoadCurrent(r)
  BY <1>4 DEF LoadCurrent, Handling, Goto, Raise, inputs, Outcomes
<1>5. CASE Save(r)
  BY <1>5 DEF Save, Handling, Goto, Raise, inputs, Outcomes
<1>6. CASE Refresh(r)
  BY <1>6 DEF Refresh, Handling, Answer, Raise, inputs, Outcomes
<1> QED BY <1>1, <1>2, <1>3, <1>4, <1>5, <1>6 DEF Step

\* What explains a conflict goes on explaining it.
LEMMA ConflictStays ==
  ASSUME IInv, NEW q \in Request, Arrival(q) \/ Step(q),
         NEW r \in Request, pc[r] = "insert", Conflict(r)
  PROVE  Conflict(r)'
<1> PICK s \in Request \ {r} : Overlap(r, s) /\ Gave(s, Email(r))
  BY DEF Conflict
<1> pc[s] \in {"refresh", "done"} /\ outcome[s] # "exists"
  BY DEF Gave
<1>1. \A p \in {r, s} : /\ kind'[p] = kind[p] /\ signup'[p] = signup[p]
                        /\ data'[p] = data[p] /\ before'[p] = before[p]
  BY OneCallMoves DEF inputs
<1>2. pc'[s] \in {"refresh", "done"} /\ outcome'[s] # "exists"
  BY OneCallMoves
<1>3. Overlap(r, s)' /\ Gave(s, Email(r))'
  BY <1>1, <1>2 DEF Overlap, Gave, Creating, Email, Sent
<1> QED BY <1>3 DEF Conflict

\* An address that a call gives to a row is taken because of that call.
LEMMA NewlyTaken ==
  ASSUME LInv, NEW q \in Request, Arrival(q) \/ Step(q),
         NEW r \in Request \ {q}, pc[r] = "insert", outcome[r] = None,
         ~Taken(Email(r), r), Taken(Email(r), r)'
  PROVE  Conflict(r)'
<1>1. PICK v \in Id \ {r} : users'[v] # None /\ users'[v].email = Email(r)
  <2> Email(r)' = Email(r)
    BY OneCallMoves DEF Email, LInv, inputs
  <2> QED BY DEF Taken, Exists
<1>2. users'[v] # users[v] /\ ~(Exists(v) /\ users[v].email = Email(r))
  BY <1>1 DEF Taken, Exists
<1>3. Gave(q, Email(r))' /\ outcome[q] = None
  <2>1. CASE Arrival(q) \/ Check(q) \/ LoadCurrent(q) \/ Refresh(q)
    BY <1>2, <2>1, ArrivalInv, CheckInv, LoadInv, RefreshInv DEF LInv
  <2>2. CASE Insert(q)
    <3>1. /\ Creating(q) /\ outcome[q] = None /\ UNCHANGED inputs
          /\ users' = [users EXCEPT ![q] = NewRow(q)] /\ ~Raise(q)
      BY <1>2, <2>2 DEF LInv, IInv, Equipped, Insert, Handling, Raise
    <3>2. Email(q) = Email(r)
      BY <1>1, <1>2, <3>1 DEF LInv, IInv, TypeOK, NewRow
    <3>3. pc'[q] \in {"refresh", "done"} /\ outcome'[q] # "exists"
      BY <2>2, <3>1, ConstantsAssumption
      DEF LInv, IInv, TypeOK, Insert, Goto, Answer, Outcomes
    <3> QED BY <3>1, <3>2, <3>3 DEF Gave, Creating, Email, inputs
  <2>3. CASE Save(q)
    <3>1. /\ pc[q] = "save" /\ owner[q] \in Id /\ outcome[q] = None /\ UNCHANGED inputs
          /\ CanSave(q) /\ Goto(q, "refresh")
          /\ users' = [users EXCEPT ![owner[q]] = Written(q)]
      BY <1>2, <2>3 DEF LInv, IInv, Equipped, Save, Handling, Raise
    <3>2. owner[q] = v /\ Written(q).email = Email(r) /\ Exists(v)
      BY <1>1, <1>2, <3>1 DEF LInv, IInv, TypeOK, CanSave
    <3>3. "email" \in Changed(q) /\ Assigned(q)["email"] = Email(r)
      BY <1>2, <3>2 DEF Written, Column
    <3>4. Sent(q, "email") /\ Normal[data[q].email] = Email(r)
      BY <3>1, <3>3, AssignedAsked DEF LInv, Asks
    <3>5. kind[q] = "update"
      BY <3>1 DEF LInv, IInv, Equipped
    <3>6. pc'[q] = "refresh" /\ outcome'[q] # "exists"
      BY <3>1, ConstantsAssumption DEF LInv, IInv, TypeOK, Goto, Outcomes
    <3> QED BY <3>1, <3>4, <3>5, <3>6 DEF Gave, Sent, Email, inputs
  <2> QED BY <2>1, <2>2, <2>3 DEF Step
<1>4. Overlap(r, q)'
  <2>1. r \notin before[q] /\ q \notin before[r] /\ r \notin Answered
    BY <1>3 DEF LInv, Backwards, Answered
  <2>2. before'[q] \in {before[q], Answered} /\ before'[r] = before[r]
    BY OneCallMoves DEF LInv
  <2> QED BY <2>1, <2>2 DEF Overlap
<1>5. Email(r)' = Email(r)
  BY OneCallMoves DEF Email, LInv
<1> QED BY <1>3, <1>4, <1>5 DEF Conflict, Gave

\* A step of a call keeps the invariant.
LEMMA CallLInv ==
  ASSUME LInv, NEW q \in Request, Arrival(q) \/ Step(q)
  PROVE  LInv'
<1>1. IInv'
  BY NextInv DEF LInv, Next
<1>2. Backwards'
  <2>1. Answered \subseteq Answered'
    BY OneCallMoves, ConstantsAssumption DEF LInv, IInv, TypeOK, Answered
  <2>2. \A r \in Request : before'[r] \in {before[r], Answered}
    BY OneCallMoves DEF LInv
  <2> QED BY <2>1, <2>2 DEF LInv, Backwards
<1>3. TakenSince'
  <2> SUFFICES ASSUME NEW r \in Request, pc'[r] = "insert",
                      outcome'[r] # None \/ Taken(Email(r), r)'
               PROVE  Conflict(r)'
    BY DEF TakenSince
  <2>1. CASE r # q
    <3>1. pc[r] = "insert" /\ outcome'[r] = outcome[r]
      BY <2>1, OneCallMoves DEF LInv
    <3>2. CASE Conflict(r)
      BY <3>1, <3>2, ConflictStays DEF LInv
    <3>3. CASE ~Conflict(r)
      <4>1. outcome[r] = None /\ ~Taken(Email(r), r)
        BY <3>1, <3>3 DEF LInv, TakenSince
      <4>2. Taken(Email(r), r)'
        BY <3>1, <4>1
      <4> QED BY <2>1, <3>1, <4>1, <4>2, NewlyTaken
    <3> QED BY <3>2, <3>3
  <2>2. CASE r = q
    <3>1. CASE Check(r)
      <4>1. /\ ~Taken(Email(r), r) /\ outcome[r] = None /\ UNCHANGED <<users, outcome, inputs>>
        BY <3>1 DEF LInv, IInv, TypeOK, Check, Handling, Answer, Goto
      <4> QED BY <4>1, ConstantsAssumption DEF Taken, Email, Exists, inputs, Outcomes
    <3>2. CASE Insert(r)
      <4>1. pc[r] = "insert" /\ Taken(Email(r), r)
        BY <3>2 DEF LInv, IInv, TypeOK, Insert, Handling, Answer, Goto
      <4> QED BY <4>1, <2>2, ConflictStays DEF LInv, TakenSince
    <3>3. CASE Arrival(r)
      BY <3>3 DEF LInv, IInv, TypeOK, Arrival, ArriveRegister, ArriveUpdate, Arrive, Goto
    <3>4. CASE LoadCurrent(r) \/ Save(r) \/ Refresh(r)
      BY <3>4 DEF LInv, IInv, TypeOK, LoadCurrent, Save, Refresh, Handling, Answer, Goto, Raise
    <3> QED BY <2>2, <3>1, <3>2, <3>3, <3>4 DEF Step
  <2> QED BY <2>1, <2>2
<1> QED BY <1>1, <1>2, <1>3 DEF LInv

\* Every step keeps the invariant.
LEMMA NextLInv == LInv /\ [Next]_vars => LInv'
<1> SUFFICES ASSUME LInv, [Next]_vars PROVE LInv'
  OBVIOUS
<1>0. IInv'
  BY NextInv DEF LInv
<1>1. CASE \E r \in Request : Arrival(r) \/ Step(r)
  BY <1>1, CallLInv
<1>2. CASE \E u \in Id : Remove(u)
  <2> PICK u \in Id : Remove(u)
    BY <1>2
  <2>1. /\ UNCHANGED <<pc, kind, signup, data, outcome, before>>
        /\ \A v \in Id : users'[v] \in {users[v], None}
    BY DEF LInv, IInv, TypeOK, Remove, inputs
  <2>2. Backwards'
    BY <2>1 DEF LInv, Backwards, Answered
  <2>3. \A r \in Request : Taken(Email(r), r)' => Taken(Email(r), r)
    BY <2>1 DEF Taken, Exists, Email
  <2>4. \A r \in Request : Conflict(r) => Conflict(r)'
    BY <2>1 DEF Conflict, Overlap, Gave, Creating, Sent, Email
  <2>5. TakenSince'
    BY <2>1, <2>3, <2>4 DEF LInv, TakenSince
  <2> QED BY <1>0, <2>2, <2>5 DEF LInv
<1>3. CASE UNCHANGED vars
  BY <1>0, <1>3 DEF vars, inputs, LInv, Backwards, Answered, TakenSince, Taken, Exists, Email,
                    Conflict, Overlap, Gave, Creating, Sent
<1> QED BY <1>1, <1>2, <1>3 DEF Next, Quiescent

\* A registration ends in an error, and not in the answer that the e-mail is
\* registered, only if an overlapping call gave the e-mail to a row
\* (register_user checks before it inserts).
THEOREM LateErrors == Spec => []LateConflict
<1>1. Init => LInv
  BY InitInv DEF Init, LInv, Backwards, TakenSince
<1>2. LInv => LateConflict
  BY ConstantsAssumption DEF LInv, TakenSince, Conflict, LateConflict, Outcomes
<1> QED BY <1>1, <1>2, NextLInv, PTL DEF Spec

-----------------------------------------------------------------------------
(***************************************************************************)
(* Why an update that nothing overlaps takes effect.  While it is under    *)
(* way, the row is the one it read, and then the one it wrote.             *)
(***************************************************************************)
Alone(r) ==
  \A s \in Request \ {r} : owner[s] = owner[r] /\ kind[s] = "update" => ~Overlap(r, s)

\* Row w has what update r asks for.
Effect(r, w) ==
  \A f \in DOMAIN data[r] \ {"is_staff"} : data[r][f] # None =>
    LET c == IF f = "password" THEN "hashed_password" ELSE f IN Asks(r, c, w[c])

\* Only an existing row is updated.
OwnersBorn ==
  \A r \in Request : kind[r] = "update" /\ owner[r] \in Request =>
    pc[owner[r]] \in {"refresh", "done"}

Undisturbed ==
  \A r \in Request : kind[r] = "update" /\ Alone(r) =>
    /\ pc[r] = "save" /\ outcome[r] = None => users[owner[r]] \in {loaded[r], None}
    /\ pc[r] = "refresh" /\ outcome[r] = None /\ Exists(owner[r]) =>
         Effect(r, users[owner[r]])
    /\ pc[r] = "done" => Effect(r, seen[r])

EInv ==
  /\ IInv /\ Backwards /\ OwnersBorn /\ Undisturbed
  /\ \A r \in Request :
       /\ outcome[r] = "ok" => pc[r] = "done"
       /\ kind[r] = "update" => data[r] \in Update /\ pc[r] # "new"

\* The row of a call that is not alone is of no interest: an update that is not
\* answered loses its solitude to any other that saves.
LEMMA SaversOverlap ==
  ASSUME EInv, NEW r \in Request, NEW q \in Request \ {r},
         kind[r] = "update", outcome[r] = None,
         kind[q] = "update", outcome[q] = None, owner[q] = owner[r]
  PROVE  ~Alone(r)
<1>1. r \notin Answered /\ q \notin Answered
  BY DEF Answered
<1>2. Overlap(r, q)
  BY <1>1 DEF EInv, Backwards, Overlap
<1> QED BY <1>2 DEF Alone

\* Solitude is not regained.
LEMMA AloneBefore ==
  ASSUME EInv, NEW q \in Request, Arrival(q) \/ Step(q),
         NEW r \in Request, kind[r] = "update", pc[r] # "new", Alone(r)'
  PROVE  Alone(r)
<1>1. /\ pc[q] # "new" => UNCHANGED inputs
      /\ \A s \in Request \ {q} :
           kind'[s] = kind[s] /\ owner'[s] = owner[s] /\ before'[s] = before[s]
  BY OneCallMoves DEF EInv
<1>2. owner'[r] = owner[r] /\ before'[r] = before[r]
  BY <1>1 DEF inputs
<1>3. ASSUME NEW s \in Request \ {r}, owner[s] = owner[r], kind[s] = "update"
      PROVE  ~Overlap(r, s)
  <2>1. kind'[s] = "update" /\ owner'[s] = owner[s] /\ before'[s] = before[s]
    BY <1>1, <1>3 DEF EInv, inputs
  <2> QED BY <1>2, <1>3, <2>1 DEF Alone, Overlap
<1> QED BY <1>3 DEF Alone

\* An UPDATE whose row is the one that was read leaves what the body asks for.
LEMMA SaveEffect ==
  ASSUME EInv, NEW r \in Request, Save(r), pc'[r] = "refresh",
         users[owner[r]] = loaded[r]
  PROVE  Effect(r, users'[owner[r]])
<1>1. pc[r] = "save" /\ data[r] \in Update /\ owner[r] \in Id /\ loaded[r] \in Row
  BY DEF EInv, IInv, Equipped, Save, Handling
<1>2. DOMAIN data[r] \subseteq {"email", "full_name", "password", "is_staff"}
  BY <1>1, ConstantsAssumption
<1> SUFFICES ASSUME NEW f \in DOMAIN data[r] \ {"is_staff"}, data[r][f] # None
             PROVE  LET c == IF f = "password" THEN "hashed_password" ELSE f
                    IN  Asks(r, c, users'[owner[r]][c])
  BY DEF Effect
<1> DEFINE c == IF f = "password" THEN "hashed_password" ELSE f
<1>3. Sent(r, f) /\ c \in DOMAIN Assigned(r) /\ c \in Column
  BY <1>2 DEF Sent, Assigned, Column
<1>4. Asks(r, c, Assigned(r)[c])
  <2>1. CASE f = "password"
    BY <1>3, <2>1 DEF Assigned, Asks
  <2>2. CASE f = "email"
    BY <1>3, <2>2 DEF Assigned, Asks
  <2>3. CASE f = "full_name"
    BY <1>3, <2>3 DEF Assigned, Asks, Sent
  <2> QED BY <1>2, <2>1, <2>2, <2>3
<1>5. users'[owner[r]][c] = Assigned(r)[c]
  <2>1. CASE UNCHANGED users /\ Changed(r) = {}
    BY <1>3, <2>1 DEF Changed
  <2>2. CASE users' = [users EXCEPT ![owner[r]] = Written(r)]
    <3>1. users'[owner[r]] = Written(r)
      BY <1>1, <2>2 DEF EInv, IInv, TypeOK
    <3> HIDE DEF c
    <3>2. Written(r)[c] = IF c \in Changed(r) THEN Assigned(r)[c] ELSE users[owner[r]][c]
      BY <1>3 DEF Written
    <3>3. c \notin Changed(r) => Assigned(r)[c] = loaded[r][c]
      BY <1>3 DEF Changed
    <3> QED BY <3>1, <3>2, <3>3
  <2>3. ~Raise(r)
    BY <1>1 DEF Raise
  <2> QED BY <2>1, <2>2, <2>3 DEF Save
<1> QED BY <1>4, <1>5

\* The row of an update that nothing overlaps is not written by another call.
LEMMA RowUndisturbed ==
  ASSUME EInv, NEW q \in Request, Arrival(q) \/ Step(q),
         NEW r \in Request \ {q}, kind[r] = "update", outcome[r] = None, Alone(r)
  PROVE  users'[owner[r]] = users[owner[r]]
<1>1. owner[r] \in Id
  BY DEF EInv, IInv, Equipped
<1>2. CASE Arrival(q) \/ Check(q) \/ LoadCurrent(q) \/ Refresh(q)
  BY <1>2, ArrivalInv, CheckInv, LoadInv, RefreshInv DEF EInv
<1>3. CASE Insert(q)
  <2>1. pc[q] = "insert" /\ (users' = users \/ users' = [users EXCEPT ![q] = NewRow(q)])
    BY <1>3 DEF Insert, Handling, Raise
  <2>2. owner[r] # q
    BY <2>1 DEF EInv, OwnersBorn
  <2> QED BY <1>1, <2>1, <2>2 DEF EInv, IInv, TypeOK
<1>4. CASE Save(q)
  <2>1. /\ pc[q] = "save" /\ outcome[q] = None /\ kind[q] = "update"
        /\ users' = users \/ users' = [users EXCEPT ![owner[q]] = Written(q)]
    BY <1>4 DEF EInv, IInv, Equipped, Save, Handling, Raise
  <2>2. owner[q] # owner[r]
    BY <2>1, SaversOverlap
  <2> QED BY <1>1, <2>1, <2>2 DEF EInv, IInv, TypeOK
<1> QED BY <1>2, <1>3, <1>4 DEF Step

\* What the invariant says of the call that moves.
LEMMA MoverUndisturbed ==
  ASSUME EInv, NEW r \in Request, Arrival(r) \/ Step(r), kind'[r] = "update", Alone(r)'
  PROVE  /\ pc'[r] = "save" /\ outcome'[r] = None => users'[owner'[r]] \in {loaded'[r], None}
         /\ pc'[r] = "refresh" /\ outcome'[r] = None /\ Exists(owner[r])' =>
              Effect(r, users[owner[r]])'
         /\ pc'[r] = "done" => Effect(r, seen[r])'
<1>1. CASE Arrival(r)
  <2>1. pc'[r] = "load" \/ kind'[r] # "update"
    BY <1>1 DEF EInv, IInv, TypeOK, Arrival, ArriveRegister, ArriveUpdate, Arrive, Goto
  <2> QED BY <2>1
<1>2. CASE Step(r)
  <2>1. pc[r] # "new" /\ outcome[r] = None /\ UNCHANGED inputs
    BY <1>2 DEF Step, Check, Insert, LoadCurrent, Save, Refresh, Handling
  <2>2. kind[r] = "update" /\ owner'[r] = owner[r] /\ data'[r] = data[r] /\ Alone(r)
    BY <2>1, AloneBefore DEF inputs
  <2>3. CASE Check(r) \/ Insert(r)
    BY <2>2, <2>3 DEF EInv, IInv, Equipped, Creating, Check, Insert, Handling
  <2>4. CASE LoadCurrent(r)
    BY <2>2, <2>4, LoadInv
    DEF EInv, IInv, TypeOK, LoadCurrent, Handling, Goto, Raise, Exists
  <2>5. CASE Save(r)
    <3>1. pc[r] = "save" /\ pc'[r] \in {"save", "refresh"} /\ outcome'[r] \in {None, "error"}
          /\ (pc'[r] = "save" => outcome'[r] = "error")
      BY <2>5 DEF EInv, IInv, TypeOK, Save, Handling, Goto, Raise
    <3>2. pc'[r] = "refresh" /\ Exists(owner[r])' => Exists(owner[r])
      BY <2>2, <2>5, <3>1 DEF EInv, Exists, Save, CanSave, Raise
    <3>3. users[owner[r]] \in {loaded[r], None}
      BY <2>1, <2>2, <3>1 DEF EInv, Undisturbed
    <3>4. pc'[r] = "refresh" /\ Exists(owner[r]) => Effect(r, users'[owner[r]])
      BY <2>5, <3>3, SaveEffect DEF Exists
    <3> QED BY <2>2, <3>1, <3>2, <3>4, ConstantsAssumption DEF Outcomes, Effect, Asks, Sent
  <2>6. CASE Refresh(r)
    <3>1. pc[r] = "refresh"
      BY <2>6 DEF Refresh, Handling
    <3>2. CASE Exists(owner[r])
      <4>1. Effect(r, users[owner[r]])
        BY <2>1, <2>2, <3>1, <3>2 DEF EInv, Undisturbed
      <4>2. pc'[r] = "done" /\ seen'[r] = users[owner[r]]
        BY <2>6, <3>2 DEF EInv, IInv, TypeOK, Refresh, Answer
      <4> QED BY <2>2, <4>1, <4>2 DEF Effect, Asks, Sent
    <3>3. CASE ~Exists(owner[r])
      BY <2>6, <3>1, <3>3, ConstantsAssumption
      DEF EInv, IInv, TypeOK, Refresh, Raise, Outcomes
    <3> QED BY <3>2, <3>3
  <2> QED BY <1>2, <2>3, <2>4, <2>5, <2>6 DEF Step
<1> QED BY <1>1, <1>2

\* A step of a call keeps the invariant.
LEMMA CallEInv ==
  ASSUME EInv, NEW q \in Request, Arrival(q) \/ Step(q)
  PROVE  EInv'
<1> USE DEF EInv
<1>1. IInv'
  BY NextInv DEF Next
<1>2. Backwards'
  <2>1. Answered \subseteq Answered'
    BY OneCallMoves, ConstantsAssumption DEF IInv, TypeOK, Answered
  <2>2. \A r \in Request : before'[r] \in {before[r], Answered}
    BY OneCallMoves
  <2> QED BY <2>1, <2>2 DEF Backwards
<1>3. OwnersBorn'
  <2>1. \A r \in Request : pc[r] \in {"refresh", "done"} => pc'[r] \in {"refresh", "done"}
    BY OneCallMoves
  <2>2. CASE Arrival(q)
    BY <2>1, <2>2 DEF IInv, TypeOK, BornByInsert, OwnersBorn,
                      Arrival, ArriveRegister, ArriveUpdate, Arrive, Goto
  <2>3. CASE Step(q)
    <3>1. UNCHANGED inputs
      BY <2>3 DEF Step, Check, Insert, LoadCurrent, Save, Refresh, Handling
    <3> QED BY <2>1, <3>1 DEF OwnersBorn, inputs
  <2> QED BY <2>2, <2>3
<1>4. Undisturbed'
  <2> SUFFICES ASSUME NEW r \in Request \ {q}, kind'[r] = "update", Alone(r)'
               PROVE  /\ pc'[r] = "save" /\ outcome'[r] = None =>
                           users'[owner'[r]] \in {loaded'[r], None}
                      /\ pc'[r] = "refresh" /\ outcome'[r] = None /\ Exists(owner[r])' =>
                           Effect(r, users[owner[r]])'
                      /\ pc'[r] = "done" => Effect(r, seen[r])'
    BY MoverUndisturbed DEF Undisturbed
  <2>1. /\ kind[r] = "update" /\ pc'[r] = pc[r] /\ outcome'[r] = outcome[r]
        /\ owner'[r] = owner[r] /\ data'[r] = data[r]
        /\ loaded'[r] = loaded[r] /\ seen'[r] = seen[r]
    BY OneCallMoves
  <2>2. Alone(r)
    BY <2>1, AloneBefore
  <2>3. outcome[r] = None => users'[owner[r]] = users[owner[r]]
    BY <2>1, <2>2, RowUndisturbed
  <2> QED BY <2>1, <2>2, <2>3 DEF Undisturbed, Effect, Asks, Sent, Exists
<1>5. \A r \in Request : outcome'[r] = "ok" => pc'[r] = "done"
  <2>1. \A r \in Request \ {q} : outcome'[r] = outcome[r] /\ pc'[r] = pc[r]
    BY OneCallMoves
  <2>2. outcome'[q] = "ok" => pc'[q] = "done"
    BY DEF IInv, TypeOK, Arrival, ArriveRegister, ArriveUpdate, Arrive, Goto, Answer, Raise,
           Handling, Step, Check, Insert, LoadCurrent, Save, Refresh
  <2> QED BY <2>1, <2>2
<1>6. \A r \in Request : kind'[r] = "update" => data'[r] \in Update /\ pc'[r] # "new"
  <2>1. \A r \in Request \ {q} :
          kind'[r] = kind[r] /\ data'[r] = data[r] /\ pc'[r] = pc[r]
    BY OneCallMoves
  <2>2. CASE Arrival(q)
    BY <2>1, <2>2 DEF IInv, TypeOK, Arrival, ArriveRegister, ArriveUpdate, Arrive, Goto
  <2>3. CASE Step(q)
    <3>1. UNCHANGED inputs
      BY <2>3 DEF Step, Check, Insert, LoadCurrent, Save, Refresh, Handling
    <3>2. pc'[q] # "new"
      BY <2>3 DEF IInv, TypeOK, Goto, Answer, Raise,
                  Handling, Step, Check, Insert, LoadCurrent, Save, Refresh
    <3> QED BY <2>1, <3>1, <3>2 DEF inputs
  <2> QED BY <2>2, <2>3
<1> QED BY <1>1, <1>2, <1>3, <1>4, <1>5, <1>6

\* Every step keeps the invariant.
LEMMA NextEInv == EInv /\ [Next]_vars => EInv'
<1> SUFFICES ASSUME EInv, [Next]_vars PROVE EInv'
  OBVIOUS
<1>0. IInv'
  BY NextInv DEF EInv
<1>1. CASE \E r \in Request : Arrival(r) \/ Step(r)
  BY <1>1, CallEInv
<1>2. CASE (\E u \in Id : Remove(u)) \/ UNCHANGED vars
  <2>1. /\ UNCHANGED <<pc, kind, owner, data, loaded, seen, outcome, before>>
        /\ \A v \in Id : users'[v] \in {users[v], None}
    BY <1>2 DEF EInv, IInv, TypeOK, Remove, inputs, vars
  <2>2. \A r \in Request : Alone(r)' => Alone(r)
    BY <2>1 DEF Alone, Overlap
  <2>3. ASSUME NEW r \in Request, kind[r] = "update", Alone(r)
        PROVE  /\ pc[r] = "save" /\ outcome[r] = None => users'[owner[r]] \in {loaded[r], None}
               /\ pc[r] = "refresh" /\ outcome[r] = None /\ Exists(owner[r])' =>
                    Effect(r, users'[owner[r]])
               /\ pc[r] = "done" => Effect(r, seen[r])
    <3>1. owner[r] \in Id
      BY <2>3 DEF EInv, IInv, Equipped
    <3> QED BY <2>1, <2>3, <3>1 DEF EInv, Undisturbed, Exists
  <2>4. Undisturbed'
    BY <2>1, <2>2, <2>3 DEF Undisturbed, Exists, Effect, Asks, Sent
  <2>5. Backwards' /\ OwnersBorn'
    BY <2>1 DEF EInv, Backwards, Answered, OwnersBorn
  <2> QED BY <1>0, <2>1, <2>4, <2>5 DEF EInv
<1> QED BY <1>1, <1>2 DEF Next, Quiescent

\* An update that is answered, and that no other update of the user overlapped,
\* shows a row with everything it asked for (clean, update_user).
THEOREM UpdatesTakeEffect == Spec => []UpdateTakesEffect
<1>1. Init => EInv
  BY InitInv, ConstantsAssumption DEF Init, EInv, Backwards, OwnersBorn, Undisturbed, Kinds, Outcomes
<1>2. EInv => UpdateTakesEffect
  BY DEF EInv, Undisturbed, Alone, Effect, UpdateTakesEffect
<1> QED BY <1>1, <1>2, NextEInv, PTL DEF Spec

=============================================================================
