-------------------------------- MODULE Rbac --------------------------------
(***************************************************************************)
(* Groups and permissions, and the routes that manage them: the permissions *)
(* of a caller (get_by_id_with_permissions, has_permission), the generic   *)
(* routes of app/core/generics over groups and permissions, the groups and *)
(* user_permissions of PATCH /me, and the command seed-permissions of      *)
(* cli.py, which runs in a process of its own.                             *)
(*                                                                         *)
(* An element of Request is one call.  One statement is one action, with   *)
(* its commit where the code commits next; each statement sees what was    *)
(* committed before it (READ COMMITTED).  Only seed-permissions has more   *)
(* than one write in a transaction: its rows are kept in "inserted" until  *)
(* it commits, and the unique index makes whoever wants one of them wait.  *)
(***************************************************************************)
EXTENDS Integers

CONSTANTS
  User,      \* rows of the users table
  Super,     \* those with is_superuser
  Request,   \* calls
  Row,       \* groups and permissions that exist at the start
  Start,     \* what they may be
  Word,      \* names of groups, and codenames no route asks for
  Last,      \* how many codenames seed-permissions goes through
  Standard,  \* which ones, in its order
  Call,      \* what each call may bring
  Operated,  \* the associations an operator adds in the database, or removes
  None       \* NULL in the database, null in JSON, None in Python

Verb == [list |-> "view", retrieve |-> "view", create |-> "add",
         update |-> "change", delete |-> "delete"]
Kinds == DOMAIN Verb \cup {"leave", "seed"}

Codename == {"view", "add", "change", "delete"} \X {"user", "group", "permission"}
Key == Codename \cup Word
Id == Row \cup (Request \X (0..Last))
Entry == [model : {"group", "permission"}, key : Key]
Link == (User \cup Id) \X Id

\* The fields of a body that were sent: "key" is the name of a group or the
\* codename of a permission, "name" the name of a permission; the others are
\* lists of identifiers, "empty" or "some", or null.
Field == {"key", "name", "permissions", "groups", "user_permissions"}
IsBody(b) ==
  /\ DOMAIN b \subseteq Field
  /\ \A f \in DOMAIN b :
       b[f] \in (IF f = "key" THEN Key ELSE {"given", "empty", "some"}) \cup {None}

AnyCall == UNION {Call[r] : r \in Request}

ASSUME ConstantsAssumption ==
  /\ Super \subseteq User
  /\ User \cap Id = {} /\ Row \cap (Request \X (0..Last)) = {}
  /\ Start \subseteq [Row -> Entry]
  /\ \A f \in Start, i, j \in Row : f[i] = f[j] => i = j
  /\ Last \in Nat \ {0}
  /\ Standard \in [1..Last -> Codename]
  /\ \A i, j \in 1..Last : Standard[i] = Standard[j] => i = j
  /\ Word \cap Codename = {}
  /\ \A r \in Request : \A c \in Call[r] :
       /\ c.kind \in Kinds /\ IsBody(c.body)
       /\ c.kind # "seed" => c.user \in User
       /\ c.kind \in DOMAIN Verb => c.model \in {"group", "permission"}
       /\ c.kind \in {"retrieve", "update", "delete"} => c.target \in Id
       /\ c.kind = "create" /\ c.model = "permission" =>
            "key" \in DOMAIN c.body /\ c.body.key \in Key
       /\ c.kind = "leave" => DOMAIN c.body \subseteq {"groups", "user_permissions"}
  /\ Operated \subseteq Link \X BOOLEAN
  /\ None \notin Entry \cup Key \cup AnyCall \cup {"ok", "forbidden", "missing", "error", "died"}

VARIABLES
  rows,      \* the tables groups and permissions
  assoc,     \* user_groups, user_permissions and group_permissions
  pc,        \* where each call is, or where it failed
  call,      \* what it brings
  mine,      \* the groups and permissions of the caller, as they were read
  granted,   \* the permissions it was found to have, with their codenames
  pos,       \* how far a seed is
  inserted,  \* what a seed has inserted and not committed
  outcome,   \* how the call ended
  before,    \* history: the calls that had ended when it arrived
  seen,      \* history: what happened to its caller while it was loaded
  gone       \* history: the codenames that went away while a seed ran

vars == <<rows, assoc, pc, call, mine, granted, pos, inserted, outcome, before, seen, gone>>

Labels == {"new", "groups", "grouped", "direct", "act", "refresh",
           "select", "insert", "commit", "done"}
Outcomes == {"ok", "forbidden", "missing", "error", "died"}
Signs == {"had", "lacked", "left", "unlinked"}

\* Row i is a group, or a permission.
Is(i, m) == rows[i] # None /\ rows[i].model = m

\* A foreign key refers to a row that exists.
Linked(a) ==
  IF a[1] \in User THEN rows[a[2]] # None ELSE Is(a[1], "group") /\ Is(a[2], "permission")

TypeOK ==
  /\ rows \in [Id -> Entry \cup {None}]
  /\ assoc \subseteq Link /\ \A a \in assoc : Linked(a)
  /\ pc \in [Request -> Labels]
  /\ call \in [Request -> AnyCall \cup {None}]
  /\ mine \in [Request -> SUBSET Id]
  /\ granted \in [Request -> SUBSET (Id \X Key)]
  /\ pos \in [Request -> 1..Last + 1]
  /\ inserted \in [Request -> SUBSET Codename]
  /\ outcome \in [Request -> Outcomes \cup {None}]
  /\ before \in [Request -> SUBSET Request]
  /\ seen \in [Request -> SUBSET Signs]
  /\ gone \in [Request -> SUBSET Key]

\* A faulty variant of Taken: the column is not unique.
TakenNever(m, k, i) == FALSE

\* The unique index of a table: a row other than i has key k.
Taken(m, k, i) == \E j \in Id \ {i} : Is(j, m) /\ rows[j].key = k

Init ==
  /\ rows \in {[i \in Id |-> IF i \in Row THEN f[i] ELSE None] : f \in Start}
  /\ assoc \in SUBSET {o[1] : o \in Operated} /\ \A a \in assoc : Linked(a)
  /\ pc = [r \in Request |-> "new"]
  /\ call = [r \in Request |-> None]
  /\ mine = [r \in Request |-> {}]
  /\ granted = [r \in Request |-> {}]
  /\ pos = [r \in Request |-> 1]
  /\ inserted = [r \in Request |-> {}]
  /\ outcome = [r \in Request |-> None]
  /\ before = [r \in Request |-> {}]
  /\ seen = [r \in Request |-> {}]
  /\ gone = [r \in Request |-> {}]

-----------------------------------------------------------------------------
(***************************************************************************)
(* What the properties need to know of the past.                           *)
(***************************************************************************)
\* The codename a route asks for, and whether the caller has it now.
Needs(r) == <<Verb[call[r].kind], call[r].model>>

Holds(r) ==
  \E p \in Id :
    /\ Is(p, "permission") /\ rows[p].key = Needs(r)
    /\ \/ <<call[r].user, p>> \in assoc
       \/ \E g \in Id : <<call[r].user, g>> \in assoc /\ <<g, p>> \in assoc

\* The permissions of the caller are being loaded, and they will matter.
Deciding(r) ==
  /\ pc[r] \in {"groups", "grouped", "direct"} /\ outcome[r] = None
  /\ call[r].kind \in DOMAIN Verb /\ call[r].user \notin Super

Codenames == {rows[p].key : p \in {q \in Id : Is(q, "permission")}}

\* Since the call arrived its caller had the permission, or lacked it, was taken
\* out of a group, or lost an association of its own or of its groups.
Noted(r) ==
  {s \in {"had"} : Holds(r)'} \cup {s \in {"lacked"} : ~Holds(r)'}
    \cup {s \in {"left"} : \E a \in assoc \ assoc' : a[1] = call'[r].user /\ Is(a[2], "group")}
    \cup {s \in {"unlinked"} :
            \E a \in assoc \ assoc' : a[1] = call'[r].user \/ <<call'[r].user, a[1]>> \in assoc}

Watch ==
  /\ seen' = [r \in Request |->
       IF Deciding(r) \/ Deciding(r)' THEN seen[r] \cup Noted(r) ELSE seen[r]]
  /\ gone' = [r \in Request |->
       IF pc[r] # "new" /\ call[r].kind = "seed"
         THEN gone[r] \cup (Codenames \ Codenames') ELSE gone[r]]

-----------------------------------------------------------------------------
(***************************************************************************)
(* Control of a call.                                                      *)
(***************************************************************************)
Goto(r, l) == pc' = [pc EXCEPT ![r] = l] /\ UNCHANGED outcome

Answer(r, o) ==
  /\ pc' = [pc EXCEPT ![r] = "done"]
  /\ outcome' = [outcome EXCEPT ![r] = o]

\* An exception no handler knows; the transaction is rolled back.
Raise(r) == outcome' = [outcome EXCEPT ![r] = "error"] /\ UNCHANGED <<pc, rows, assoc>>

\* The response of a group or a user reads relations the ORM may not have loaded.
Respond(r) ==
  \/ Answer(r, "ok")
  \/ (call[r].kind = "leave" \/ call[r].model = "group") /\ Answer(r, "error")

Answered == {r \in Request : outcome[r] # None}

Handling(r, l) == pc[r] = l /\ outcome[r] = None /\ UNCHANGED <<call, before>>

Arrive(r, c) ==
  /\ pc[r] = "new"
  /\ Goto(r, IF c.kind = "seed" THEN "select" ELSE "groups")
  /\ call' = [call EXCEPT ![r] = c]
  /\ before' = [before EXCEPT ![r] = Answered]
  /\ UNCHANGED <<rows, assoc, mine, granted, pos, inserted>>
  /\ Watch

-----------------------------------------------------------------------------
(***************************************************************************)
(* The permissions of the caller: the row of the user with its groups, the *)
(* permissions of these groups, its own permissions; then has_permission.  *)
(***************************************************************************)
LoadGroups(r) ==
  /\ Handling(r, "groups")
  /\ mine' = [mine EXCEPT ![r] = {g \in Id : <<call[r].user, g>> \in assoc /\ Is(g, "group")}]
  /\ Goto(r, "grouped")
  /\ UNCHANGED <<rows, assoc, granted, pos, inserted>>
  /\ Watch

\* A faulty variant of GroupPermissions: those of any group.
AnyGroupPermissions(r) == {p \in Id : \E g \in Id : <<g, p>> \in assoc}

GroupPermissions(r) == {p \in Id : \E g \in mine[r] : <<g, p>> \in assoc}

LoadGroupPermissions(r) ==
  /\ Handling(r, "grouped")
  /\ granted' = [granted EXCEPT ![r] = {<<p, rows[p].key>> : p \in GroupPermissions(r)}]
  /\ Goto(r, "direct")
  /\ UNCHANGED <<rows, assoc, mine, pos, inserted>>
  /\ Watch

\* An object that is already in the session keeps the codename it was read with.
Loaded(r) == {x[1] : x \in granted[r]}

Own(r) == {p \in Id : <<call[r].user, p>> \in assoc /\ Is(p, "permission")}

\* A faulty variant of Found: has_permission forgets the groups.
FoundOwn(r) == {<<p, rows[p].key>> : p \in Own(r)}

Found(r) == granted[r] \cup {<<p, rows[p].key>> : p \in Own(r) \ Loaded(r)}

HasPermission(r) ==
  call[r].user \in Super \/ \E x \in Found(r) : x[2] = Needs(r)

LoadDirect(r) ==
  /\ Handling(r, "direct")
  /\ mine' = [mine EXCEPT ![r] = @ \cup Own(r)]
  /\ granted' = [granted EXCEPT ![r] = Found(r)]
  /\ IF call[r].kind = "leave" \/ HasPermission(r)
       THEN Goto(r, "act") ELSE Answer(r, "forbidden")
  /\ UNCHANGED <<rows, assoc, pos, inserted>>
  /\ Watch

-----------------------------------------------------------------------------
(***************************************************************************)
(* The routes of GenericAPIView, with the service and the repository.      *)
(***************************************************************************)
Acting(r, k) ==
  /\ Handling(r, "act") /\ call[r].kind = k
  /\ UNCHANGED <<mine, granted, pos, inserted>>

Sends(r, f) == f \in DOMAIN call[r].body
Null(r) == \E f \in DOMAIN call[r].body : call[r].body[f] = None
NewKey(r) == call[r].body.key

\* A seed that has not committed has inserted permission k.
Pending(k) == \E s \in Request : k \in inserted[s]

\* The row call r is to write would have a key of its table twice, or waits.
Duplicate(r, i) == Sends(r, "key") /\ Taken(call[r].model, NewKey(r), i)
Waiting(r) == Sends(r, "key") /\ call[r].model = "permission" /\ Pending(NewKey(r))

List(r) ==
  /\ Acting(r, "list")
  /\ Respond(r)
  /\ UNCHANGED <<rows, assoc>>
  /\ Watch

Retrieve(r) ==
  /\ Acting(r, "retrieve")
  /\ IF Is(call[r].target, call[r].model) THEN Respond(r) ELSE Answer(r, "missing")
  /\ UNCHANGED <<rows, assoc>>
  /\ Watch

\* A list of identifiers is not a list of objects, and None is no list.
Unbuildable(r) ==
  \/ Null(r) \/ ~Sends(r, "key")
  \/ Sends(r, "permissions") /\ call[r].body.permissions # "empty"

Create(r) ==
  /\ Acting(r, "create")
  /\ \/ /\ Unbuildable(r) \/ Duplicate(r, <<r, 0>>)
        /\ Raise(r)
     \/ /\ ~Unbuildable(r) /\ ~Duplicate(r, <<r, 0>>) /\ ~Waiting(r)
        /\ rows' = [rows EXCEPT ![<<r, 0>>] = [model |-> call[r].model, key |-> NewKey(r)]]
        /\ Goto(r, "refresh") /\ UNCHANGED assoc
  /\ Watch

\* session.refresh, and the response.
Refresh(r) ==
  /\ Handling(r, "refresh")
  /\ IF rows[<<r, 0>>] # None THEN Respond(r) /\ UNCHANGED <<rows, assoc>> ELSE Raise(r)
  /\ UNCHANGED <<mine, granted, pos, inserted>>
  /\ Watch

\* UPDATE ... RETURNING of the fields that were sent; a SELECT if there are none.
Missing(r) == ~Is(call[r].target, call[r].model)

\* A seed waits for the row with the codename this update takes away, while the
\* update waits for the seed: the database ends one of them.
Deadlocked(r) ==
  \E s \in Request :
    /\ pc[s] = "insert" /\ outcome[s] = None
    /\ NewKey(r) \in inserted[s] /\ rows[call[r].target].key = Standard[pos[s]]

Update(r) ==
  /\ Acting(r, "update")
  /\ \/ Sends(r, "permissions") /\ Raise(r)
     \/ /\ ~Sends(r, "permissions") /\ Missing(r)
        /\ Answer(r, "missing") /\ UNCHANGED <<rows, assoc>>
     \/ /\ ~Sends(r, "permissions") /\ ~Missing(r)
        /\ \/ (Null(r) \/ Duplicate(r, call[r].target)) /\ Raise(r)
           \/ Waiting(r) /\ Deadlocked(r) /\ Raise(r)
           \/ /\ ~Null(r) /\ ~Duplicate(r, call[r].target) /\ ~Waiting(r)
              /\ rows' = IF Sends(r, "key")
                           THEN [rows EXCEPT ![call[r].target].key = NewKey(r)] ELSE rows
              /\ Respond(r) /\ UNCHANGED assoc
  /\ Watch

\* A faulty variant of Severed: no ON DELETE CASCADE.
SeveredNothing(i) == assoc

\* The associations of a row go with it (ON DELETE CASCADE).
Severed(i) == {a \in assoc : i \notin {a[1], a[2]}}

\* A faulty variant of Deleted: the number of deleted rows is not looked at.
DeletedAnyway(r) == TRUE

Deleted(r) == ~Missing(r)

Delete(r) ==
  /\ Acting(r, "delete")
  /\ IF Missing(r)
       THEN UNCHANGED <<rows, assoc>>
       ELSE /\ rows' = [rows EXCEPT ![call[r].target] = None]
            /\ assoc' = Severed(call[r].target)
  /\ Answer(r, IF Deleted(r) THEN "ok" ELSE "missing")
  /\ Watch

\* PATCH /me: an empty list deletes what was loaded, anything else raises.  The
\* ORM may notice that a row it deletes is gone.
Dropped(r) ==
  {<<call[r].user, i>> : i \in (IF Sends(r, "groups") THEN mine[r] \ Loaded(r) ELSE {})
                               \cup (IF Sends(r, "user_permissions")
                                       THEN mine[r] \cap Loaded(r) ELSE {})}

Leave(r) ==
  /\ Acting(r, "leave")
  /\ LET fits == \A f \in DOMAIN call[r].body : call[r].body[f] = "empty" IN
       \/ (~fits \/ ~(Dropped(r) \subseteq assoc)) /\ Raise(r)
       \/ fits /\ assoc' = assoc \ Dropped(r) /\ Respond(r) /\ UNCHANGED rows
  /\ Watch

-----------------------------------------------------------------------------
(***************************************************************************)
(* seed-permissions.                                                       *)
(***************************************************************************)
\* A faulty variant of Wanted: the order depends on the run.
WantedEitherWay(r) == Standard[IF before[r] = {} THEN pos[r] ELSE Last + 1 - pos[r]]

Wanted(r) == Standard[pos[r]]

\* Past the last codename there is the commit.
Advance(r) ==
  /\ pos' = [pos EXCEPT ![r] = @ + 1]
  /\ Goto(r, IF pos[r] = Last THEN "commit" ELSE "select")

\* A faulty variant of SeedSelect: what is there is not looked at.
SeedAlways(r) ==
  /\ Handling(r, "select")
  /\ Goto(r, "insert")
  /\ UNCHANGED <<rows, assoc, mine, granted, inserted, pos>>
  /\ Watch

SeedSelect(r) ==
  /\ Handling(r, "select")
  /\ IF Wanted(r) \in Codenames THEN Advance(r) ELSE Goto(r, "insert") /\ UNCHANGED pos
  /\ UNCHANGED <<rows, assoc, mine, granted, inserted>>
  /\ Watch

\* A faulty variant of SeedInsert: a duplicate is taken for a row that is there.
SeedInsertQuietly(r) ==
  /\ Handling(r, "insert")
  /\ ~Pending(Wanted(r))
  /\ IF Wanted(r) \in Codenames
       THEN Answer(r, "ok") /\ inserted' = [inserted EXCEPT ![r] = {}] /\ UNCHANGED pos
       ELSE inserted' = [inserted EXCEPT ![r] = @ \cup {Wanted(r)}] /\ Advance(r)
  /\ UNCHANGED <<rows, assoc, mine, granted>>
  /\ Watch

\* The row that was added, flushed before the next SELECT or by the commit.
SeedInsert(r) ==
  /\ Handling(r, "insert")
  /\ ~Pending(Wanted(r))
  /\ IF Wanted(r) \in Codenames
       THEN Raise(r) /\ inserted' = [inserted EXCEPT ![r] = {}] /\ UNCHANGED pos
       ELSE /\ inserted' = [inserted EXCEPT ![r] = @ \cup {Wanted(r)}]
            /\ Advance(r) /\ UNCHANGED <<rows, assoc>>
  /\ UNCHANGED <<mine, granted>>
  /\ Watch

SeedCommit(r) ==
  /\ Handling(r, "commit")
  /\ rows' = [i \in Id |->
       IF \E n \in 1..Last : i = <<r, n>> /\ Standard[n] \in inserted[r]
         THEN [model |-> "permission", key |-> Standard[i[2]]] ELSE rows[i]]
  /\ inserted' = [inserted EXCEPT ![r] = {}]
  /\ Answer(r, "ok")
  /\ UNCHANGED <<assoc, mine, granted, pos>>
  /\ Watch

-----------------------------------------------------------------------------
(***************************************************************************)
(* The environment.                                                        *)
(***************************************************************************)
\* The process or its connection ends; the database rolls back.
Die(r) ==
  /\ pc[r] \in {"select", "insert", "commit"} /\ outcome[r] = None
  /\ outcome' = [outcome EXCEPT ![r] = "died"]
  /\ inserted' = [inserted EXCEPT ![r] = {}]
  /\ UNCHANGED <<rows, assoc, pc, call, mine, granted, pos, before>>
  /\ Watch

\* No route adds an association: an operator does, and may remove one.
Operate(a, add) ==
  /\ Linked(a)
  /\ assoc' = IF add THEN assoc \cup {a} ELSE assoc \ {a}
  /\ assoc' # assoc
  /\ UNCHANGED <<rows, pc, call, mine, granted, pos, inserted, outcome, before>>
  /\ Watch

\* Every call of the run has ended.
Quiescent == Answered = Request /\ UNCHANGED vars

LoadStep(r) == LoadGroups(r) \/ LoadGroupPermissions(r) \/ LoadDirect(r)

RouteStep(r) ==
  List(r) \/ Retrieve(r) \/ Create(r) \/ Refresh(r) \/ Update(r) \/ Delete(r) \/ Leave(r)

SeedStep(r) == SeedSelect(r) \/ SeedInsert(r) \/ SeedCommit(r)

Next ==
  \/ \E r \in Request : \E c \in Call[r] : Arrive(r, c)
  \/ \E r \in Request : LoadStep(r) \/ RouteStep(r) \/ SeedStep(r) \/ Die(r)
  \/ \E o \in Operated : Operate(o[1], o[2])
  \/ Quiescent

Spec == Init /\ [][Next]_vars

-----------------------------------------------------------------------------
(***************************************************************************)
(* What the permissions and their routes promise.                          *)
(***************************************************************************)
Kind(r, k) == call[r] # None /\ call[r].kind = k
Overlap(r, s) == r \notin before[s] /\ s \notin before[r]

\* A codename or a group name is in its table once, although seed-permissions
\* looks before it inserts and shows its rows only at its commit.
OneRowPerKey ==
  \A i, j \in Id : rows[i] # None /\ rows[i] = rows[j] => i = j

\* A call is let in only if its caller had the permission at some moment since
\* the call arrived, or was taken out of a group meanwhile: the groups and their
\* permissions are read one after the other (get_by_id_with_permissions).
EnteredHeld ==
  \A r \in Request :
    /\ pc[r] \in {"act", "refresh", "done"} /\ outcome[r] # "forbidden"
    /\ call[r].kind \in DOMAIN Verb /\ call[r].user \notin Super
    => seen[r] \cap {"had", "left"} # {}

\* A call is refused only if its caller lacked the permission at some moment
\* since the call arrived, or lost an association meanwhile (has_permission).
RefusedLacked ==
  \A r \in Request : outcome[r] = "forbidden" => seen[r] \cap {"lacked", "unlinked"} # {}

\* A row that is gone was deleted by one call that says so, and a call that
\* arrives after that answer succeeds in nothing about the row (NotFoundError).
Deleters(i) == {r \in Request : Kind(r, "delete") /\ outcome[r] = "ok" /\ call[r].target = i}

DeletedOnce ==
  \A i \in Id :
    /\ i \in Row /\ rows[i] = None => Deleters(i) # {}
    /\ \A r, s \in Deleters(i) : r = s
    /\ \A r \in Deleters(i), s \in Request :
         r \in before[s] /\ call[s].kind \in {"retrieve", "update", "delete"}
           /\ call[s].target = i => outcome[s] # "ok"

\* After seed-permissions said it was done every standard codename is there, or
\* went away since the command began: it does not count on what it skipped.
SeedComplete ==
  \A r \in Request : Kind(r, "seed") /\ outcome[r] = "ok" =>
    \A n \in 1..Last : Standard[n] \in Codenames \cup gone[r]

\* seed-permissions ends in an error only if a call that overlaps it gave one of
\* the standard codenames to a permission (it looks, and inserts later).
Gave(s) ==
  \/ Kind(s, "seed") /\ outcome[s] = "ok"
  \/ /\ (Kind(s, "create") \/ Kind(s, "update")) /\ call[s].model = "permission"
     /\ pc[s] \in {"refresh", "done"} /\ outcome[s] \notin {"forbidden", "missing"}
     /\ Sends(s, "key") /\ \E n \in 1..Last : NewKey(s) = Standard[n]

SeedErrorExplained ==
  \A r \in Request : Kind(r, "seed") /\ outcome[r] = "error" =>
    \E s \in Request \ {r} : Overlap(r, s) /\ Gave(s)

\* Seeds that run together wait for one another, and never in a circle.
WaitsFor(r, s) == pc[r] = "insert" /\ outcome[r] = None /\ Wanted(r) \in inserted[s]

NoWaitCycle ==
  \A S \in SUBSET Request : S # {} => \E r \in S : \A s \in S : ~WaitsFor(r, s)

=============================================================================
