------------------------------ MODULE Accounts ------------------------------
(***************************************************************************)
(* The users table and who writes it: registration                         *)
(* (app/modules/accounts/services.py), the update of the own profile       *)
(* (app/modules/accounts/routes.py) and the command createsuperuser        *)
(* (cli.py), which runs in a process of its own.                           *)
(*                                                                         *)
(* An element of Request is one call of one of them; it names the row it   *)
(* inserts and the hash of the password it brings, which has a fresh salt. *)
(* One statement with its commit is one action.  A call that dies is one   *)
(* that takes no further step: the database rolls back what it had not     *)
(* committed.                                                              *)
(***************************************************************************)
EXTENDS Integers

CONSTANTS
  User,       \* rows that exist at the start
  Request,    \* calls
  Address,    \* e-mail addresses as people write them
  Normal,     \* what strip and lower make of an address
  Name,       \* full names
  Signup,     \* what a registration brings besides the password
  Update,     \* bodies of PATCH /me: the fields that were sent, with their values
  None,       \* NULL in the database, null in JSON, None in Python
  Removable   \* whether an operator deletes rows in the database

Id == User \cup Request
Row == [email : Address, full_name : Name, hashed_password : Id, is_staff : BOOLEAN]
Column == {"email", "full_name", "hashed_password", "is_staff"}

Kinds == {"register", "superuser", "update"}
Labels == {"new", "check", "insert", "load", "save", "refresh", "done"}
Outcomes == {"ok", "exists", "error"}

\* UserUpdate: a field may be left out, or be null.
Value(f) ==
  CASE f = "email" -> Address \cup {None}
    [] f = "full_name" -> Name \cup {None}
    [] f = "password" -> {"given", None}
    [] f = "is_staff" -> BOOLEAN \cup {None}

ASSUME ConstantsAssumption ==
  /\ User \cap Request = {}
  /\ Normal \in [Address -> Address]
  /\ \A a \in Address : Normal[Normal[a]] = Normal[a]
  /\ \A d \in Update :
       /\ DOMAIN d \subseteq {"email", "full_name", "password", "is_staff"}
       /\ d = [f \in DOMAIN d |-> d[f]]
       /\ \A f \in DOMAIN d : d[f] \in Value(f)
  /\ None \notin Id \cup Address \cup Name \cup Kinds \cup Outcomes
  /\ Signup \subseteq [email : Address, full_name : Name]
  /\ None \notin Update /\ None \notin Signup /\ None \notin Row /\ None \notin BOOLEAN
  /\ Removable \in BOOLEAN

VARIABLES
  users,    \* the rows of the users table
  pc,       \* where each call is, or where it failed
  kind,     \* "register", "superuser" or "update"
  owner,    \* the row a call is about
  signup,   \* what a registration brings
  data,     \* the body of an update
  loaded,   \* the row get_current_user read
  seen,     \* the row the response shows
  outcome,  \* how the call ended
  before    \* history: the calls that had ended when it arrived

inputs == <<kind, owner, signup, data, before>>
vars == <<users, pc, inputs, loaded, seen, outcome>>

TypeOK ==
  /\ users \in [Id -> Row \cup {None}]
  /\ pc \in [Request -> Labels]
  /\ kind \in [Request -> Kinds \cup {None}]
  /\ owner \in [Request -> Id \cup {None}]
  /\ signup \in [Request -> Signup \cup {None}]
  /\ data \in [Request -> Update \cup {None}]
  /\ loaded \in [Request -> Row \cup {None}]
  /\ seen \in [Request -> Row \cup {None}]
  /\ outcome \in [Request -> Outcomes \cup {None}]
  /\ before \in [Request -> SUBSET Request]

Exists(u) == users[u] # None

Init ==
  /\ users \in [Id -> Row \cup {None}]
  /\ \A u \in Id : Exists(u) <=> u \in User
  /\ \A u \in User : users[u].hashed_password = u /\ Normal[users[u].email] = users[u].email
  /\ \A u, v \in User : users[u].email = users[v].email => u = v
  /\ pc = [r \in Request |-> "new"]
  /\ kind = [r \in Request |-> None]
  /\ owner = [r \in Request |-> None]
  /\ signup = [r \in Request |-> None]
  /\ data = [r \in Request |-> None]
  /\ loaded = [r \in Request |-> None]
  /\ seen = [r \in Request |-> None]
  /\ outcome = [r \in Request |-> None]
  /\ before = [r \in Request |-> {}]

-----------------------------------------------------------------------------
Goto(r, l) == pc' = [pc EXCEPT ![r] = l] /\ UNCHANGED outcome

Answer(r, o) ==
  /\ pc' = [pc EXCEPT ![r] = "done"]
  /\ outcome' = [outcome EXCEPT ![r] = o]

\* The database or the ORM raises: the transaction is rolled back, and no
\* handler knows the exception.
Raise(r) == outcome' = [outcome EXCEPT ![r] = "error"] /\ UNCHANGED <<users, pc>>

Answered == {r \in Request : outcome[r] # None}

Arrive(r, k, l) ==
  /\ pc[r] = "new"
  /\ Goto(r, l)
  /\ kind' = [kind EXCEPT ![r] = k]
  /\ before' = [before EXCEPT ![r] = Answered]
  /\ UNCHANGED <<users, loaded, seen>>

\* POST /register, or createsuperuser.
ArriveRegister(r, k, d) ==
  /\ Arrive(r, k, "check")
  /\ owner' = [owner EXCEPT ![r] = r]
  /\ signup' = [signup EXCEPT ![r] = d]
  /\ UNCHANGED data

\* PATCH /me with an access token of user u.
ArriveUpdate(r, u, d) ==
  /\ Exists(u)
  /\ Arrive(r, "update", "load")
  /\ owner' = [owner EXCEPT ![r] = u]
  /\ data' = [data EXCEPT ![r] = d]
  /\ UNCHANGED signup

Handling(r, l) == pc[r] = l /\ outcome[r] = None /\ UNCHANGED inputs

\* The unique index on users.email: a row other than u has address e.
Taken(e, u) == \E v \in Id \ {u} : Exists(v) /\ users[v].email = e

-----------------------------------------------------------------------------
(***************************************************************************)
(* UserService.register_user and create_superuser_async.                   *)
(***************************************************************************)
Creating(r) == kind[r] \in {"register", "superuser"}

Email(r) == Normal[signup[r].email]

\* A faulty variant of NewRow: the e-mail is stored as it was written.
NewRowAsWritten(r) ==
  [email |-> signup[r].email, full_name |-> signup[r].full_name, hashed_password |-> r,
   is_staff |-> kind[r] = "superuser"]

NewRow(r) ==
  [email |-> Email(r), full_name |-> signup[r].full_name, hashed_password |-> r,
   is_staff |-> kind[r] = "superuser"]

\* A faulty variant of Check: it looks for the address as it was written.
CheckAsWritten(r) ==
  /\ Handling(r, "check")
  /\ IF Taken(signup[r].email, r) THEN Answer(r, "exists") ELSE Goto(r, "insert")
  /\ UNCHANGED <<users, loaded, seen>>

Check(r) ==
  /\ Handling(r, "check")
  /\ IF Taken(Email(r), r) THEN Answer(r, "exists") ELSE Goto(r, "insert")
  /\ UNCHANGED <<users, loaded, seen>>

\* INSERT and COMMIT; the command ends here.
Insert(r) ==
  /\ Handling(r, "insert")
  /\ IF Taken(Email(r), r)
       THEN Raise(r)
       ELSE /\ users' = [users EXCEPT ![r] = NewRow(r)]
            /\ IF kind[r] = "register" THEN Goto(r, "refresh") ELSE Answer(r, "ok")
  /\ UNCHANGED <<loaded, seen>>

(***************************************************************************)
(* UpdateMe: get_current_user, SafeUpdateMixin.clean and update_user.      *)
(***************************************************************************)
LoadCurrent(r) ==
  /\ Handling(r, "load")
  /\ loaded' = [loaded EXCEPT ![r] = users[owner[r]]]
  /\ IF Exists(owner[r]) THEN Goto(r, "save") /\ UNCHANGED users ELSE Raise(r)
  /\ UNCHANGED seen

Sent(r, f) == f \in DOMAIN data[r] /\ data[r][f] # None

\* Faulty variants of Assigned: clean stores the password as it was sent; the
\* endpoint has no password_hasher.
AssignedPlain(r) ==
  [c \in (DOMAIN data[r] \ {"password", "is_staff"})
           \cup {h \in {"hashed_password"} : Sent(r, "password")} |->
     CASE c = "hashed_password" -> data[r].password
       [] c = "email" /\ Sent(r, c) -> Normal[data[r].email]
       [] OTHER -> data[r][c]]

AssignedUnhashed(r) ==
  [c \in DOMAIN data[r] \ {"password", "is_staff"} |->
     IF c = "email" /\ Sent(r, c) THEN Normal[data[r].email] ELSE data[r][c]]

\* The columns update_user sets, and their values: a null password counts as
\* not sent, a null e-mail or name does not.
Assigned(r) ==
  [c \in (DOMAIN data[r] \ {"password", "is_staff"})
           \cup {h \in {"hashed_password"} : Sent(r, "password")} |->
     CASE c = "hashed_password" -> r
       [] c = "email" /\ Sent(r, c) -> Normal[data[r].email]
       [] OTHER -> data[r][c]]

\* The columns whose value differs from the one that was read.
Changed(r) == {c \in DOMAIN Assigned(r) : Assigned(r)[c] # loaded[r][c]}

\* An UPDATE of the changed columns, if any, and COMMIT.  It raises if a value
\* is NULL, the row is gone or the address is taken.
CanSave(r) ==
  /\ None \notin {Assigned(r)[c] : c \in Changed(r)}
  /\ Exists(owner[r])
  /\ "email" \in Changed(r) => ~Taken(Assigned(r).email, owner[r])

\* The row after the UPDATE; a faulty variant writes every column of the object.
WrittenWhole(r) ==
  [c \in Column |-> IF c \in Changed(r) THEN Assigned(r)[c] ELSE loaded[r][c]]

Written(r) ==
  [c \in Column |-> IF c \in Changed(r) THEN Assigned(r)[c] ELSE users[owner[r]][c]]

Save(r) ==
  /\ Handling(r, "save")
  /\ \/ Changed(r) = {} /\ Goto(r, "refresh") /\ UNCHANGED users
     \/ /\ Changed(r) # {} /\ CanSave(r) /\ Goto(r, "refresh")
        /\ users' = [users EXCEPT ![owner[r]] = Written(r)]
     \/ Changed(r) # {} /\ ~CanSave(r) /\ Raise(r)
  /\ UNCHANGED <<loaded, seen>>

\* session.refresh, and the response.
Refresh(r) ==
  /\ Handling(r, "refresh")
  /\ IF Exists(owner[r])
       THEN /\ seen' = [seen EXCEPT ![r] = users[owner[r]]]
            /\ Answer(r, "ok") /\ UNCHANGED users
       ELSE Raise(r) /\ UNCHANGED seen
  /\ UNCHANGED loaded

-----------------------------------------------------------------------------
(***************************************************************************)
(* The environment.                                                        *)
(***************************************************************************)
\* No route deletes a row: an operator does, in the database.
Remove(u) ==
  /\ Removable /\ Exists(u)
  /\ users' = [users EXCEPT ![u] = None]
  /\ UNCHANGED <<pc, inputs, loaded, seen, outcome>>

\* Every call of the run has ended.
Quiescent == Answered = Request /\ UNCHANGED vars

Arrival(r) ==
  \/ \E k \in {"register", "superuser"}, d \in Signup : ArriveRegister(r, k, d)
  \/ \E u \in Id, d \in Update : ArriveUpdate(r, u, d)

Step(r) == Check(r) \/ Insert(r) \/ LoadCurrent(r) \/ Save(r) \/ Refresh(r)

Next ==
  \/ \E r \in Request : Arrival(r) \/ Step(r)
  \/ \E u \in Id : Remove(u)
  \/ Quiescent

Spec == Init /\ [][Next]_vars

-----------------------------------------------------------------------------
(***************************************************************************)
(* What the accounts promise.                                              *)
(***************************************************************************)
Overlap(r, s) == r \notin before[s] /\ s \notin before[r]

\* However an address is written, one row has it (normalize_email in the
\* schemas, create_user and update_user, and the unique column).
OneAccountEach ==
  \A u, v \in Id :
    Exists(u) /\ Exists(v) /\ Normal[users[u].email] = Normal[users[v].email] => u = v

\* Call s gave address e to a row.
Gave(s, e) ==
  /\ pc[s] \in {"refresh", "done"} /\ outcome[s] # "exists"
  /\ \/ Creating(s) /\ Email(s) = e
     \/ kind[s] = "update" /\ Sent(s, "email") /\ Normal[data[s].email] = e

\* A registration ends in an error, and not in the answer that the e-mail is
\* registered, only if another call gave the e-mail to a row meanwhile
\* (register_user checks before it inserts).
LateConflict ==
  \A r \in Request : pc[r] = "insert" /\ outcome[r] = "error" =>
    \E s \in Request \ {r} : Overlap(r, s) /\ Gave(s, Email(r))

\* A column of a row changes only to what an update of that user asks for it:
\* concurrent updates of other columns are not undone (update_user).
Asks(r, c, v) ==
  CASE c = "email" -> Sent(r, c) /\ Normal[data[r].email] = v
    [] c = "full_name" -> Sent(r, c) /\ data[r][c] = v
    [] c = "hashed_password" -> Sent(r, "password") /\ r = v
    [] OTHER -> FALSE

OnlyAsked ==
  [][\A u \in Id : \A c \in Column :
       users[u] # None /\ users'[u] # None /\ users'[u][c] # users[u][c] =>
         \E r \in Request :
           pc[r] = "save" /\ owner[r] = u /\ Asks(r, c, users'[u][c])]_vars

\* An update that is answered, and that no other update of the user overlapped,
\* shows a row with everything it asked for (clean, update_user).
UpdateTakesEffect ==
  \A r \in Request :
    /\ kind[r] = "update" /\ outcome[r] = "ok"
    /\ \A s \in Request \ {r} : owner[s] = owner[r] /\ kind[s] = "update" => ~Overlap(r, s)
    => \A f \in DOMAIN data[r] \ {"is_staff"} : data[r][f] # None =>
         LET c == IF f = "password" THEN "hashed_password" ELSE f IN
         Asks(r, c, seen[r][c])

=============================================================================
