---------------------------- MODULE Rbac_proofs -----------------------------
(***************************************************************************)
(* What holds of groups, permissions and their associations for every set  *)
(* of calls, users, rows and standard codenames.                           *)
(***************************************************************************)
EXTENDS Rbac, TLAPS, WellFoundedInduction

Loading == {"groups", "grouped", "direct", "act"}
Seeding == {"select", "insert", "commit"}

\* What a call is at each of its steps.
Equipped ==
  \A r \in Request :
    /\ pc[r] = "new" => call[r] = None /\ outcome[r] = None /\ pos[r] = 1
    /\ pc[r] # "new" => call[r] \in Call[r]
    /\ pc[r] \in Loading => call[r].kind # "seed"
    /\ pc[r] = "refresh" => call[r].kind = "create"
    /\ pc[r] \in Seeding => call[r].kind = "seed"
    /\ pc[r] \in {"select", "insert"} => pos[r] \in 1..Last
    /\ pc[r] = "commit" => pos[r] = Last + 1

\* A call knows only calls that have ended.
Backwards == \A r, s \in Request : s \in before[r] => outcome[s] # None

\* What a seed holds it has gone past, nobody else holds, and nobody sees.
Apart ==
  \A r \in Request :
    /\ inserted[r] # {} => pc[r] \in Seeding /\ outcome[r] = None
    /\ \A k \in inserted[r] :
         /\ k \notin Codenames
         /\ \E n \in 1..Last : n < pos[r] /\ k = Standard[n]
         /\ \A s \in Request : k \in inserted[s] => s = r

\* The rows of a call exist only after its INSERT or its commit.
Born == \A r \in Request, n \in 0..Last : rows[<<r, n>>] # None => pc[r] \in {"refresh", "done"}

IInv == TypeOK /\ Equipped /\ Backwards /\ Apart /\ Born /\ OneRowPerKey

-----------------------------------------------------------------------------
\* The history variables keep their types.
LEMMA WatchType ==
  ASSUME TypeOK, Watch
  PROVE  seen' \in [Request -> SUBSET Signs] /\ gone' \in [Request -> SUBSET Key]
<1>1. Codenames \subseteq Key
  BY DEF TypeOK, Codenames, Is, Entry
<1>2. \A r \in Request : Noted(r) \subseteq Signs
  BY DEF Noted, Signs
<1> QED BY <1>1, <1>2 DEF TypeOK, Watch

\* The invariant holds before any call.
LEMMA InitInv == Init => IInv
<1> SUFFICES ASSUME Init PROVE IInv
  OBVIOUS
<1> PICK f \in Start : rows = [i \in Id |-> IF i \in Row THEN f[i] ELSE None]
  BY DEF Init
<1> Row \subseteq Id /\ f \in [Row -> Entry]
  BY ConstantsAssumption DEF Id
<1>1. TypeOK
  <2>1. rows \in [Id -> Entry \cup {None}]
    OBVIOUS
  <2>2. assoc \subseteq Link /\ \A a \in assoc : Linked(a)
    BY ConstantsAssumption DEF Init
  <2> QED BY <2>1, <2>2, ConstantsAssumption DEF Init, TypeOK, Labels
<1>2. Equipped
  BY ConstantsAssumption DEF Init, Equipped, Loading, Seeding
<1>3. Backwards /\ Apart
  BY DEF Init, Backwards, Apart
<1>4. Born
  <2> SUFFICES ASSUME NEW r \in Request, NEW n \in 0..Last
               PROVE  rows[<<r, n>>] = None
    BY DEF Born
  <2> <<r, n>> \in Id /\ <<r, n>> \notin Row
    BY ConstantsAssumption DEF Id
  <2> QED OBVIOUS
<1>5. OneRowPerKey
  BY ConstantsAssumption DEF OneRowPerKey
<1> QED BY <1>1, <1>2, <1>3, <1>4, <1>5 DEF IInv

-----------------------------------------------------------------------------
(***************************************************************************)
(* Actions that leave the tables of rows alone.                            *)
(***************************************************************************)
\* What is known of rows and of seeds survives an action that writes neither,
\* takes no call back to where it has not written, and moves seeds forward only.
LEMMA RowsStay ==
  ASSUME IInv, UNCHANGED <<rows, inserted>>,
         \A r \in Request : pc[r] \in {"refresh", "done"} => pc'[r] \in {"refresh", "done"},
         \A r \in Request : inserted[r] # {} =>
           pc'[r] \in Seeding /\ outcome'[r] = None /\ pos'[r] \in Int /\ pos'[r] >= pos[r]
  PROVE  Apart' /\ Born' /\ OneRowPerKey'
<1>1. Codenames' = Codenames
  BY DEF Codenames, Is
<1>2. Apart'
  BY <1>1 DEF IInv, TypeOK, Apart
<1>3. Born' /\ OneRowPerKey'
  BY DEF IInv, Born, OneRowPerKey
<1> QED BY <1>2, <1>3

\* A call arrives.
LEMMA ArriveInv ==
  ASSUME IInv, NEW r \in Request, NEW c \in Call[r], Arrive(r, c)
  PROVE  IInv'
<1>1. TypeOK'
  <2>1. c \in AnyCall
    BY DEF AnyCall
  <2>2. rows' = rows /\ assoc' = assoc /\ \A a \in assoc : Linked(a)'
    BY DEF IInv, TypeOK, Arrive, Linked, Is
  <2>3. Watch
    BY DEF Arrive
  <2> QED BY <2>1, <2>2, <2>3, WatchType DEF IInv, TypeOK, Arrive, Goto, Labels, Answered
<1>2. Equipped'
  BY ConstantsAssumption DEF IInv, TypeOK, Equipped, Arrive, Goto, Loading, Seeding
<1>3. Backwards'
  BY DEF IInv, TypeOK, Backwards, Arrive, Goto, Answered
<1>4. Apart' /\ Born' /\ OneRowPerKey'
  <2>1. inserted[r] = {}
    BY DEF IInv, Apart, Arrive, Seeding
  <2> QED BY <2>1, RowsStay DEF IInv, TypeOK, Apart, Arrive, Goto
<1> QED BY <1>1, <1>2, <1>3, <1>4 DEF IInv

\* Associations refer to rows after an action that removes some of them only.
LEMMA LinksStay ==
  ASSUME IInv, rows' = rows, assoc' \subseteq assoc
  PROVE  assoc' \subseteq Link /\ \A a \in assoc' : Linked(a)'
BY DEF IInv, TypeOK, Linked, Is

\* The permissions of a caller are read.
LEMMA LoadInv ==
  ASSUME IInv, NEW r \in Request, LoadStep(r)
  PROVE  IInv'
<1>1. CASE LoadGroups(r)
  <2>1. TypeOK'
    BY <1>1, LinksStay, WatchType
    DEF IInv, TypeOK, LoadGroups, Handling, Goto, Labels
  <2>2. Equipped' /\ Backwards'
    BY <1>1 DEF IInv, TypeOK, Equipped, Backwards, LoadGroups, Handling, Goto, Loading, Seeding
  <2>3. inserted[r] = {}
    BY <1>1 DEF IInv, Apart, LoadGroups, Handling, Seeding
  <2>4. Apart' /\ Born' /\ OneRowPerKey'
    BY <1>1, <2>3, RowsStay DEF IInv, TypeOK, Apart, LoadGroups, Handling, Goto
  <2> QED BY <2>1, <2>2, <2>4 DEF IInv
<1>2. CASE LoadGroupPermissions(r)
  <2>1. \A p \in GroupPermissions(r) : p \in Id /\ rows[p].key \in Key
    <3> SUFFICES ASSUME NEW p \in Id, NEW g \in mine[r], <<g, p>> \in assoc
                 PROVE  rows[p].key \in Key
      BY DEF GroupPermissions
    <3>1. g \in Id /\ g \notin User
      BY ConstantsAssumption DEF IInv, TypeOK
    <3>2. Is(p, "permission")
      BY <3>1 DEF IInv, TypeOK, Linked
    <3> QED BY <3>2 DEF IInv, TypeOK, Is, Entry
  <2>2. TypeOK'
    BY <1>2, <2>1, LinksStay, WatchType
    DEF IInv, TypeOK, LoadGroupPermissions, Handling, Goto, Labels
  <2>3. Equipped' /\ Backwards'
    BY <1>2
    DEF IInv, TypeOK, Equipped, Backwards, LoadGroupPermissions, Handling, Goto, Loading, Seeding
  <2>4. inserted[r] = {}
    BY <1>2 DEF IInv, Apart, LoadGroupPermissions, Handling, Seeding
  <2>5. Apart' /\ Born' /\ OneRowPerKey'
    BY <1>2, <2>4, RowsStay DEF IInv, TypeOK, Apart, LoadGroupPermissions, Handling, Goto
  <2> QED BY <2>2, <2>3, <2>5 DEF IInv
<1>3. CASE LoadDirect(r)
  <2>1. Own(r) \subseteq Id /\ \A p \in Own(r) : rows[p].key \in Key
    BY DEF IInv, TypeOK, Own, Is, Entry
  <2>2. TypeOK'
    BY <1>3, <2>1, LinksStay, WatchType
    DEF IInv, TypeOK, LoadDirect, Handling, Goto, Answer, Found, Labels, Outcomes
  <2>3. Equipped' /\ Backwards'
    BY <1>3
    DEF IInv, TypeOK, Equipped, Backwards, LoadDirect, Handling, Goto, Answer, Loading, Seeding
  <2>4. inserted[r] = {}
    BY <1>3 DEF IInv, Apart, LoadDirect, Handling, Seeding
  <2>5. Apart' /\ Born' /\ OneRowPerKey'
    BY <1>3, <2>4, RowsStay DEF IInv, TypeOK, Apart, LoadDirect, Handling, Goto, Answer
  <2> QED BY <2>2, <2>3, <2>5 DEF IInv
<1> QED BY <1>1, <1>2, <1>3 DEF LoadStep

\* A call that is neither a load nor a seed holds nothing.
LEMMA HoldsNothing ==
  ASSUME IInv, NEW r \in Request, pc[r] \notin Seeding
  PROVE  inserted[r] = {}
BY DEF IInv, Apart

\* List, Retrieve and Refresh.
LEMMA ReadInv ==
  ASSUME IInv, NEW r \in Request, List(r) \/ Retrieve(r) \/ Refresh(r)
  PROVE  IInv'
<1>1. /\ pc[r] \in {"act", "refresh"} /\ outcome[r] = None
      /\ UNCHANGED <<rows, assoc, call, mine, granted, pos, inserted, before>>
      /\ \/ pc' = [pc EXCEPT ![r] = "done"] \/ pc' = pc
      /\ \E o \in Outcomes : outcome' = [outcome EXCEPT ![r] = o]
      /\ Watch
  BY DEF List, Retrieve, Refresh, Acting, Handling, Respond, Answer, Raise, Outcomes
<1>2. TypeOK'
  BY <1>1, LinksStay, WatchType DEF IInv, TypeOK, Labels
<1>3. Equipped' /\ Backwards'
  BY <1>1, ConstantsAssumption
  DEF IInv, TypeOK, Equipped, Backwards, Loading, Seeding
<1>4. Apart' /\ Born' /\ OneRowPerKey'
  BY <1>1, HoldsNothing, RowsStay DEF IInv, TypeOK, Apart, Seeding
<1> QED BY <1>2, <1>3, <1>4 DEF IInv

\* PATCH /me removes associations only.
LEMMA LeaveInv ==
  ASSUME IInv, NEW r \in Request, Leave(r)
  PROVE  IInv'
<1>1. /\ pc[r] = "act" /\ outcome[r] = None
      /\ UNCHANGED <<rows, call, mine, granted, pos, inserted, before>>
      /\ assoc' \subseteq assoc
      /\ \/ pc' = [pc EXCEPT ![r] = "done"] \/ pc' = pc
      /\ \E o \in Outcomes : outcome' = [outcome EXCEPT ![r] = o]
      /\ Watch
  BY DEF Leave, Acting, Handling, Respond, Answer, Raise, Outcomes
<1>2. TypeOK'
  BY <1>1, LinksStay, WatchType DEF IInv, TypeOK, Labels
<1>3. Equipped' /\ Backwards'
  BY <1>1, ConstantsAssumption
  DEF IInv, TypeOK, Equipped, Backwards, Loading, Seeding
<1>4. Apart' /\ Born' /\ OneRowPerKey'
  BY <1>1, HoldsNothing, RowsStay DEF IInv, TypeOK, Apart, Seeding
<1> QED BY <1>2, <1>3, <1>4 DEF IInv

-----------------------------------------------------------------------------
(***************************************************************************)
(* Actions that write a row.                                               *)
(***************************************************************************)
\* A call writes one row, with a key that is free, and keeps its model.
LEMMA RowWritten ==
  ASSUME IInv, NEW i \in Id, NEW m \in {"group", "permission"}, NEW k \in Key,
         rows' = [rows EXCEPT ![i] = [model |-> m, key |-> k]],
         rows[i] = None \/ rows[i].model = m, ~Taken(m, k, i),
         m = "permission" => ~Pending(k),
         UNCHANGED <<assoc, inserted, pos>>,
         \A s \in Request : pc[s] \in {"refresh", "done"} => pc'[s] \in {"refresh", "done"},
         \A s \in Request, n \in 0..Last : i = <<s, n>> => pc'[s] \in {"refresh", "done"},
         \A s \in Request : inserted[s] # {} => pc'[s] = pc[s] /\ outcome'[s] = outcome[s]
  PROVE  /\ rows' \in [Id -> Entry \cup {None}]
         /\ assoc' \subseteq Link /\ \A a \in assoc' : Linked(a)'
         /\ Apart' /\ Born' /\ OneRowPerKey'
<1>1. [model |-> m, key |-> k] \in Entry /\ None \notin Entry
  BY ConstantsAssumption DEF Entry
<1>2. rows' \in [Id -> Entry \cup {None}] /\ rows'[i] = [model |-> m, key |-> k] /\ rows'[i] # None
  BY <1>1 DEF IInv, TypeOK
<1>3. \A j \in Id : j # i => rows'[j] = rows[j]
  BY DEF IInv, TypeOK
<1>4. \A j \in Id, l \in {"group", "permission"} : Is(j, l) => Is(j, l)'
  BY <1>2, <1>3 DEF Is
<1>5. assoc' \subseteq Link /\ \A a \in assoc' : Linked(a)'
  <2>1. \A a \in assoc : a \in Link /\ a[2] \in Id /\ (a[1] \notin User => a[1] \in Id)
    BY DEF IInv, TypeOK, Link
  <2>2. \A j \in Id : rows[j] # None => rows'[j] # None
    BY <1>2, <1>3
  <2> QED BY <2>1, <2>2, <1>4 DEF IInv, TypeOK, Linked
<1>6. \A c \in Codenames' : c \in Codenames \/ (m = "permission" /\ c = k)
  BY <1>2, <1>3 DEF Codenames, Is
<1>7. Apart'
  <2>1. \A s \in Request : \A c \in inserted[s] : c \notin Codenames'
    BY <1>6 DEF IInv, Apart, Pending
  <2> QED BY <2>1 DEF IInv, Apart
<1>8. Born'
  BY <1>3 DEF IInv, Born, Id
<1>9. OneRowPerKey'
  <2> SUFFICES ASSUME NEW j \in Id, j # i PROVE rows'[j] # rows'[i]
    BY <1>3 DEF IInv, OneRowPerKey
  <2> QED BY <1>1, <1>2, <1>3 DEF IInv, TypeOK, Taken, Is, Entry
<1> QED BY <1>2, <1>5, <1>7, <1>8, <1>9

\* A call that arrived brings what it may bring.
LEMMA Brings ==
  ASSUME IInv, NEW r \in Request, pc[r] # "new"
  PROVE  /\ call[r] \in Call[r] /\ IsBody(call[r].body)
         /\ call[r].kind \in DOMAIN Verb => call[r].model \in {"group", "permission"}
         /\ call[r].kind \in {"retrieve", "update", "delete"} => call[r].target \in Id
         /\ call[r].kind # "seed" => call[r].user \in User
BY ConstantsAssumption DEF IInv, Equipped

\* A key that was sent and is not null is one.
LEMMA SentKey ==
  ASSUME IInv, NEW r \in Request, pc[r] # "new", Sends(r, "key"), ~Null(r)
  PROVE  NewKey(r) \in Key
BY Brings DEF Sends, Null, NewKey, IsBody

LEMMA CreateInv ==
  ASSUME IInv, NEW r \in Request, Create(r)
  PROVE  IInv'
<1>1. /\ pc[r] = "act" /\ outcome[r] = None /\ call[r].kind = "create"
      /\ UNCHANGED <<call, mine, granted, pos, inserted, before>>
      /\ Watch
  BY DEF Create, Acting, Handling
<1>2. CASE (Unbuildable(r) \/ Duplicate(r, <<r, 0>>)) /\ Raise(r)
  <2>1. TypeOK'
    BY <1>1, <1>2, LinksStay, WatchType DEF IInv, TypeOK, Raise, Outcomes
  <2>2. Equipped' /\ Backwards'
    BY <1>1, <1>2, ConstantsAssumption DEF IInv, TypeOK, Equipped, Backwards, Raise
  <2>3. Apart' /\ Born' /\ OneRowPerKey'
    BY <1>1, <1>2, HoldsNothing, RowsStay DEF IInv, TypeOK, Apart, Raise, Seeding
  <2> QED BY <2>1, <2>2, <2>3 DEF IInv
<1>3. CASE /\ ~Unbuildable(r) /\ ~Duplicate(r, <<r, 0>>) /\ ~Waiting(r)
           /\ rows' = [rows EXCEPT ![<<r, 0>>] = [model |-> call[r].model, key |-> NewKey(r)]]
           /\ Goto(r, "refresh") /\ UNCHANGED assoc
  <2>1. Sends(r, "key") /\ NewKey(r) \in Key
    BY <1>1, <1>3, SentKey DEF Unbuildable
  <2>2. call[r].model \in {"group", "permission"}
    BY <1>1, Brings DEF Verb
  <2>3. <<r, 0>> \in Id /\ rows[<<r, 0>>] = None
    <3>1. 0 \in 0..Last
      BY ConstantsAssumption
    <3> QED BY <1>1, <3>1 DEF IInv, Born, Id
  <2>4. /\ ~Taken(call[r].model, NewKey(r), <<r, 0>>)
        /\ call[r].model = "permission" => ~Pending(NewKey(r))
    BY <1>3, <2>1 DEF Duplicate, Waiting
  <2>5. \A s \in Request : pc'[s] = IF s = r THEN "refresh" ELSE pc[s]
    BY <1>3 DEF IInv, TypeOK, Goto
  <2>6. inserted[r] = {}
    BY <1>1, HoldsNothing DEF Seeding
  <2>7. /\ rows' \in [Id -> Entry \cup {None}]
        /\ assoc' \subseteq Link /\ \A a \in assoc' : Linked(a)'
        /\ Apart' /\ Born' /\ OneRowPerKey'
    <3>1. \A s \in Request : pc[s] \in {"refresh", "done"} => pc'[s] \in {"refresh", "done"}
      BY <2>5
    <3>2. \A s \in Request, n \in 0..Last : <<r, 0>> = <<s, n>> => pc'[s] \in {"refresh", "done"}
      BY <2>5
    <3>3. \A s \in Request : inserted[s] # {} => pc'[s] = pc[s] /\ outcome'[s] = outcome[s]
      BY <1>3, <2>5, <2>6 DEF Goto
    <3> QED BY <1>1, <1>3, <2>1, <2>2, <2>3, <2>4, <3>1, <3>2, <3>3, RowWritten
  <2>8. TypeOK'
    BY <1>1, <1>3, <2>7, WatchType DEF IInv, TypeOK, Goto, Labels
  <2>9. Equipped' /\ Backwards'
    BY <1>1, <1>3, <2>5 DEF IInv, TypeOK, Equipped, Backwards, Goto, Loading, Seeding
  <2> QED BY <2>7, <2>8, <2>9 DEF IInv
<1> QED BY <1>2, <1>3 DEF Create

LEMMA UpdateInv ==
  ASSUME IInv, NEW r \in Request, Update(r)
  PROVE  IInv'
<1>1. /\ pc[r] = "act" /\ outcome[r] = None /\ call[r].kind = "update"
      /\ UNCHANGED <<call, mine, granted, pos, inserted, before>>
      /\ Watch
  BY DEF Update, Acting, Handling
<1>2. CASE /\ UNCHANGED <<rows, assoc>>
           /\ \/ pc' = [pc EXCEPT ![r] = "done"] \/ pc' = pc
           /\ \E o \in Outcomes : outcome' = [outcome EXCEPT ![r] = o]
  <2>1. TypeOK'
    BY <1>1, <1>2, LinksStay, WatchType DEF IInv, TypeOK, Labels
  <2>2. Equipped' /\ Backwards'
    BY <1>1, <1>2, ConstantsAssumption DEF IInv, TypeOK, Equipped, Backwards, Loading, Seeding
  <2>3. Apart' /\ Born' /\ OneRowPerKey'
    BY <1>1, <1>2, HoldsNothing, RowsStay DEF IInv, TypeOK, Apart, Seeding
  <2> QED BY <2>1, <2>2, <2>3 DEF IInv
<1>3. CASE /\ ~Missing(r) /\ ~Null(r) /\ ~Duplicate(r, call[r].target) /\ ~Waiting(r)
           /\ Sends(r, "key")
           /\ rows' = [rows EXCEPT ![call[r].target].key = NewKey(r)]
           /\ Respond(r) /\ UNCHANGED assoc
  <2> DEFINE i == call[r].target
             m == call[r].model
             k == NewKey(r)
  <2>1. k \in Key
    BY <1>1, <1>3, SentKey
  <2>2. m \in {"group", "permission"} /\ i \in Id
    BY <1>1, Brings DEF Verb
  <2>3. rows[i] # None /\ rows[i].model = m
    BY <1>3 DEF Missing, Is
  <2>4. rows' = [rows EXCEPT ![i] = [model |-> m, key |-> k]]
    <3>1. rows[i] \in Entry
      BY <2>2, <2>3 DEF IInv, TypeOK
    <3>2. [rows[i] EXCEPT !.key = k] = [model |-> m, key |-> k]
      BY <2>3, <3>1 DEF Entry
    <3> QED BY <1>3, <3>2
  <2>5. ~Taken(m, k, i) /\ (m = "permission" => ~Pending(k))
    BY <1>3 DEF Duplicate, Waiting
  <2>6. \A s \in Request : pc'[s] = IF s = r THEN "done" ELSE pc[s]
    BY <1>3 DEF IInv, TypeOK, Respond, Answer
  <2>7. inserted[r] = {}
    BY <1>1, HoldsNothing DEF Seeding
  <2>8. \E o \in Outcomes : outcome' = [outcome EXCEPT ![r] = o]
    BY <1>3 DEF Respond, Answer, Outcomes
  <2>9. /\ rows' \in [Id -> Entry \cup {None}]
        /\ assoc' \subseteq Link /\ \A a \in assoc' : Linked(a)'
        /\ Apart' /\ Born' /\ OneRowPerKey'
    <3>1. \A s \in Request : pc[s] \in {"refresh", "done"} => pc'[s] \in {"refresh", "done"}
      BY <2>6
    <3>2. \A s \in Request, n \in 0..Last : i = <<s, n>> => pc'[s] \in {"refresh", "done"}
      BY <2>3, <2>6 DEF IInv, Born
    <3>3. \A s \in Request : inserted[s] # {} => pc'[s] = pc[s] /\ outcome'[s] = outcome[s]
      BY <2>6, <2>7, <2>8 DEF IInv, TypeOK
    <3> HIDE DEF i, m, k
    <3> QED BY <1>1, <1>3, <2>1, <2>2, <2>3, <2>4, <2>5, <3>1, <3>2, <3>3, RowWritten
  <2>10. TypeOK'
    BY <1>1, <1>3, <2>8, <2>9, WatchType DEF IInv, TypeOK, Respond, Answer, Labels
  <2>11. Equipped' /\ Backwards'
    BY <1>1, <2>6, <2>8, ConstantsAssumption
    DEF IInv, TypeOK, Equipped, Backwards, Loading, Seeding
  <2> QED BY <2>9, <2>10, <2>11 DEF IInv
<1> QED BY <1>2, <1>3 DEF Update, Raise, Answer, Respond, Outcomes

\* A row goes with its associations.
LEMMA DeleteInv ==
  ASSUME IInv, NEW r \in Request, Delete(r)
  PROVE  IInv'
<1> DEFINE i == call[r].target
<1>1. /\ pc[r] = "act" /\ outcome[r] = None
      /\ UNCHANGED <<call, mine, granted, pos, inserted, before>>
      /\ pc' = [pc EXCEPT ![r] = "done"]
      /\ \E o \in Outcomes : outcome' = [outcome EXCEPT ![r] = o]
      /\ Watch
  BY DEF Delete, Acting, Handling, Answer, Outcomes
<1>2. \/ UNCHANGED <<rows, assoc>>
      \/ rows' = [rows EXCEPT ![i] = None] /\ assoc' = Severed(i)
  BY DEF Delete
<1>3. rows' \in [Id -> Entry \cup {None}]
  BY <1>2 DEF IInv, TypeOK
<1>4. \A j \in Id : rows'[j] = rows[j] \/ rows'[j] = None
  BY <1>2 DEF IInv, TypeOK
<1>5. assoc' \subseteq Link /\ \A a \in assoc' : Linked(a)'
  <2>1. CASE UNCHANGED <<rows, assoc>>
    BY <2>1, LinksStay
  <2>2. CASE rows' = [rows EXCEPT ![i] = None] /\ assoc' = Severed(i)
    <3>1. \A a \in assoc' : /\ a \in assoc /\ a[2] # i /\ a[1] # i
                            /\ a \in Link /\ a[2] \in Id /\ (a[1] \notin User => a[1] \in Id)
      BY <2>2 DEF Severed, IInv, TypeOK, Link
    <3>2. \A j \in Id : j # i => rows'[j] = rows[j]
      BY <2>2 DEF IInv, TypeOK
    <3> QED BY <3>1, <3>2 DEF IInv, TypeOK, Linked, Is
  <2> QED BY <1>2, <2>1, <2>2
<1>6. TypeOK'
  BY <1>1, <1>3, <1>5, WatchType DEF IInv, TypeOK, Labels
<1>7. Equipped' /\ Backwards'
  BY <1>1, ConstantsAssumption DEF IInv, TypeOK, Equipped, Backwards, Loading, Seeding
<1>8. inserted[r] = {}
  BY <1>1, HoldsNothing DEF Seeding
<1>9. Codenames' \subseteq Codenames
  BY <1>4 DEF Codenames, Is
<1>10. Apart'
  BY <1>1, <1>8, <1>9 DEF IInv, TypeOK, Apart
<1>11. Born'
  <2>1. \A s \in Request, n \in 0..Last : <<s, n>> \in Id
    BY DEF Id
  <2> QED BY <1>1, <1>4, <2>1 DEF IInv, TypeOK, Born
<1>12. OneRowPerKey'
  BY <1>4 DEF IInv, OneRowPerKey
<1> QED BY <1>6, <1>7, <1>10, <1>11, <1>12 DEF IInv

-----------------------------------------------------------------------------
(***************************************************************************)
(* seed-permissions.                                                       *)
(***************************************************************************)
LEMMA SeedSelectInv ==
  ASSUME IInv, NEW r \in Request, SeedSelect(r)
  PROVE  IInv'
<1>1. /\ pc[r] = "select" /\ outcome[r] = None /\ pos[r] \in 1..Last
      /\ UNCHANGED <<rows, assoc, call, mine, granted, inserted, outcome, before>>
      /\ \/ pc' = [pc EXCEPT ![r] = "insert"] /\ UNCHANGED pos
         \/ /\ pc' = [pc EXCEPT ![r] = IF pos[r] = Last THEN "commit" ELSE "select"]
            /\ pos' = [pos EXCEPT ![r] = pos[r] + 1]
      /\ Watch
  BY DEF SeedSelect, Handling, Advance, Goto, IInv, Equipped
<1> Last \in Nat
  BY ConstantsAssumption
<1>2. TypeOK'
  BY <1>1, LinksStay, WatchType DEF IInv, TypeOK, Labels
<1>3. Equipped' /\ Backwards'
  BY <1>1 DEF IInv, TypeOK, Equipped, Backwards, Loading, Seeding
<1>4. Apart' /\ Born' /\ OneRowPerKey'
  BY <1>1, RowsStay DEF IInv, TypeOK, Apart, Seeding
<1> QED BY <1>2, <1>3, <1>4 DEF IInv

LEMMA SeedInsertInv ==
  ASSUME IInv, NEW r \in Request, SeedInsert(r)
  PROVE  IInv'
<1>1. /\ pc[r] = "insert" /\ outcome[r] = None /\ pos[r] \in 1..Last
      /\ UNCHANGED <<rows, assoc, call, mine, granted, before>>
      /\ ~Pending(Wanted(r))
      /\ \/ /\ UNCHANGED <<pc, pos>>
            /\ outcome' = [outcome EXCEPT ![r] = "error"]
            /\ inserted' = [inserted EXCEPT ![r] = {}]
         \/ /\ Wanted(r) \notin Codenames
            /\ inserted' = [inserted EXCEPT ![r] = inserted[r] \cup {Wanted(r)}]
            /\ pc' = [pc EXCEPT ![r] = IF pos[r] = Last THEN "commit" ELSE "select"]
            /\ pos' = [pos EXCEPT ![r] = pos[r] + 1]
            /\ UNCHANGED outcome
      /\ Watch
  BY DEF SeedInsert, Handling, Advance, Goto, Raise, IInv, Equipped
<1> Last \in Nat /\ Wanted(r) = Standard[pos[r]] /\ Wanted(r) \in Codename
  BY <1>1, ConstantsAssumption DEF Wanted
<1>2. TypeOK'
  BY <1>1, LinksStay, WatchType DEF IInv, TypeOK, Labels, Outcomes
<1>3. Equipped' /\ Backwards'
  BY <1>1, ConstantsAssumption DEF IInv, TypeOK, Equipped, Backwards, Loading, Seeding
<1>4. Codenames' = Codenames
  BY <1>1 DEF Codenames, Is
<1>5. Apart'
  <2>1. \A s \in Request : Wanted(r) \notin inserted[s]
    BY <1>1 DEF Pending
  <2> QED BY <1>1, <1>4, <2>1 DEF IInv, TypeOK, Apart, Seeding
<1>6. Born' /\ OneRowPerKey'
  BY <1>1 DEF IInv, TypeOK, Born, OneRowPerKey
<1> QED BY <1>2, <1>3, <1>5, <1>6 DEF IInv

LEMMA SeedCommitInv ==
  ASSUME IInv, NEW r \in Request, SeedCommit(r)
  PROVE  IInv'
<1>1. /\ pc[r] = "commit" /\ outcome[r] = None
      /\ UNCHANGED <<assoc, call, mine, granted, pos, before>>
      /\ inserted' = [inserted EXCEPT ![r] = {}]
      /\ pc' = [pc EXCEPT ![r] = "done"]
      /\ outcome' = [outcome EXCEPT ![r] = "ok"]
      /\ Watch
  BY DEF SeedCommit, Handling, Answer
<1> DEFINE New(i) == \E n \in 1..Last : i = <<r, n>> /\ Standard[n] \in inserted[r]
<1>2. \A i \in Id : rows'[i] = IF New(i) THEN [model |-> "permission", key |-> Standard[i[2]]]
                                        ELSE rows[i]
  BY DEF SeedCommit
<1>3. \A i \in Id : New(i) => /\ rows[i] = None /\ rows'[i] \in Entry
                             /\ rows'[i].model = "permission" /\ rows'[i].key \in inserted[r]
                             /\ rows'[i].key = Standard[i[2]]
  <2> SUFFICES ASSUME NEW i \in Id, New(i)
               PROVE  /\ rows[i] = None /\ rows'[i] \in Entry
                      /\ rows'[i].model = "permission" /\ rows'[i].key \in inserted[r]
                      /\ rows'[i].key = Standard[i[2]]
    OBVIOUS
  <2> PICK n \in 1..Last : i = <<r, n>> /\ Standard[n] \in inserted[r]
    OBVIOUS
  <2>1. Standard[n] \in Key /\ n \in 0..Last /\ i[2] = n
    BY ConstantsAssumption DEF Key
  <2>2. rows'[i] = [model |-> "permission", key |-> Standard[n]]
    BY <1>2, <2>1
  <2> QED BY <1>1, <2>1, <2>2 DEF IInv, Born, Entry
<1>4. rows' \in [Id -> Entry \cup {None}]
  <2>1. rows' = [i \in Id |-> rows'[i]]
    BY DEF SeedCommit
  <2>2. \A i \in Id : rows'[i] \in Entry \cup {None}
    BY <1>2, <1>3 DEF IInv, TypeOK
  <2> QED BY <2>1, <2>2
<1> HIDE DEF New
<1>5. \A i \in Id, m \in {"group", "permission"} : Is(i, m) => Is(i, m)'
  BY <1>2, <1>3 DEF Is
<1>6. assoc' \subseteq Link /\ \A a \in assoc' : Linked(a)'
  <2>1. \A a \in assoc : a \in Link /\ a[2] \in Id /\ (a[1] \notin User => a[1] \in Id)
    BY DEF IInv, TypeOK, Link
  <2>2. None \notin Entry
    BY ConstantsAssumption
  <2>3. \A j \in Id : rows[j] # None => rows'[j] # None
    BY <1>2, <1>3, <2>2
  <2> QED BY <1>1, <1>5, <2>1, <2>3 DEF IInv, TypeOK, Linked
<1>7. TypeOK'
  BY <1>1, <1>4, <1>6, WatchType DEF IInv, TypeOK, Labels, Outcomes
<1>8. Equipped' /\ Backwards'
  BY <1>1, ConstantsAssumption DEF IInv, TypeOK, Equipped, Backwards, Loading, Seeding
<1>9. \A c \in Codenames' : c \in Codenames \/ c \in inserted[r]
  BY <1>2, <1>3 DEF Codenames, Is
<1>10. Apart'
  <2>1. \A s \in Request : s # r => inserted'[s] = inserted[s] /\ pc'[s] = pc[s] /\ outcome'[s] = outcome[s]
    BY <1>1 DEF IInv, TypeOK
  <2>2. inserted'[r] = {} /\ pos' = pos
    BY <1>1 DEF IInv, TypeOK
  <2>3. \A s \in Request : \A c \in inserted'[s] : c \notin Codenames'
    BY <1>9, <2>1, <2>2 DEF IInv, Apart
  <2> QED BY <2>1, <2>2, <2>3 DEF IInv, Apart
<1>11. Born'
  <2>1. \A s \in Request, n \in 0..Last : <<s, n>> \in Id
    BY DEF Id
  <2>2. \A s \in Request, n \in 0..Last : New(<<s, n>>) => s = r
    BY DEF New
  <2> QED BY <1>1, <1>2, <2>1, <2>2 DEF IInv, TypeOK, Born
<1>12. OneRowPerKey'
  <2> SUFFICES ASSUME NEW i \in Id, NEW j \in Id, rows'[i] # None, rows'[i] = rows'[j]
               PROVE  i = j
    BY DEF OneRowPerKey
  <2>1. CASE New(i) /\ New(j)
    <3>1. PICK n \in 1..Last : i = <<r, n>>
      BY <2>1 DEF New
    <3>2. PICK p \in 1..Last : j = <<r, p>>
      BY <2>1 DEF New
    <3>3. Standard[n] = Standard[p]
      BY <1>3, <2>1, <3>1, <3>2
    <3> QED BY <3>1, <3>2, <3>3, ConstantsAssumption
  <2>2. CASE ~New(i) /\ ~New(j)
    BY <1>2, <2>2 DEF IInv, OneRowPerKey
  <2>3. ASSUME NEW a \in Id, NEW b \in Id, New(a), ~New(b), rows'[a] = rows'[b] PROVE FALSE
    <3>1. rows[b] = rows'[a] /\ rows'[a] \in Entry
      BY <1>2, <1>3, <2>3
    <3>2. rows[b].key \in inserted[r] /\ rows[b].model = "permission" /\ rows[b] # None
      BY <1>3, <2>3, <3>1, ConstantsAssumption
    <3>3. rows[b].key \in Codenames
      BY <3>2 DEF Codenames, Is
    <3> QED BY <3>2, <3>3 DEF IInv, Apart
  <2> QED BY <2>1, <2>2, <2>3
<1> QED BY <1>7, <1>8, <1>10, <1>11, <1>12 DEF IInv

LEMMA DieInv ==
  ASSUME IInv, NEW r \in Request, Die(r)
  PROVE  IInv'
<1>1. TypeOK'
  BY LinksStay, WatchType DEF IInv, TypeOK, Die, Outcomes
<1>2. Equipped' /\ Backwards'
  BY ConstantsAssumption DEF IInv, TypeOK, Equipped, Backwards, Die
<1>3. Apart' /\ Born' /\ OneRowPerKey'
  <2>1. Codenames' = Codenames
    BY DEF Die, Codenames, Is
  <2> QED BY <2>1 DEF IInv, TypeOK, Apart, Born, OneRowPerKey, Die
<1> QED BY <1>1, <1>2, <1>3 DEF IInv

\* An operator adds or removes an association.
LEMMA OperateInv ==
  ASSUME IInv, NEW o \in Operated, Operate(o[1], o[2])
  PROVE  IInv'
<1>1. /\ UNCHANGED <<rows, pc, call, mine, granted, pos, inserted, outcome, before>>
      /\ assoc' \subseteq assoc \cup {o[1]} /\ Linked(o[1]) /\ o[1] \in Link
      /\ Watch
  BY ConstantsAssumption DEF Operate
<1>2. assoc' \subseteq Link /\ \A a \in assoc' : Linked(a)'
  BY <1>1 DEF IInv, TypeOK, Linked, Is
<1>3. TypeOK'
  BY <1>1, <1>2, WatchType DEF IInv, TypeOK
<1>4. Equipped' /\ Backwards'
  BY <1>1 DEF IInv, Equipped, Backwards
<1>5. Apart' /\ Born' /\ OneRowPerKey'
  BY <1>1, RowsStay DEF IInv, TypeOK, Apart
<1> QED BY <1>3, <1>4, <1>5 DEF IInv

LEMMA StutterInv ==
  ASSUME IInv, UNCHANGED vars
  PROVE  IInv'
BY DEF IInv, TypeOK, Equipped, Backwards, Apart, Born, OneRowPerKey, vars, Linked, Is, Codenames

LEMMA NextInv ==
  ASSUME IInv, [Next]_vars
  PROVE  IInv'
<1>1. ASSUME NEW r \in Request, NEW c \in Call[r], Arrive(r, c) PROVE IInv'
  BY <1>1, ArriveInv
<1>2. ASSUME NEW r \in Request, LoadStep(r) \/ RouteStep(r) \/ SeedStep(r) \/ Die(r) PROVE IInv'
  BY <1>2, LoadInv, ReadInv, CreateInv, UpdateInv, DeleteInv, LeaveInv, SeedSelectInv,
     SeedInsertInv, SeedCommitInv, DieInv
  DEF RouteStep, SeedStep
<1>3. ASSUME NEW o \in Operated, Operate(o[1], o[2]) PROVE IInv'
  BY <1>3, OperateInv
<1>4. CASE UNCHANGED vars
  BY <1>4, StutterInv
<1> QED BY <1>1, <1>2, <1>3, <1>4 DEF Next, Quiescent

\* The inductive invariant: what a call and a row are at each step, and that what a seed
\* holds is its own and unseen (seed_permissions_async, GenericRepository).
THEOREM Invariance == Spec => []IInv
<1>1. Init => IInv
  BY InitInv
<1>2. IInv /\ [Next]_vars => IInv'
  BY NextInv
<1> QED BY <1>1, <1>2, PTL DEF Spec

\* Every variable keeps its type, and no association outlives its rows.
THEOREM TypeCorrect == Spec => []TypeOK
<1>1. IInv => TypeOK
  BY DEF IInv
<1> QED BY <1>1, Invariance, PTL

\* A codename or a group name is one row, whatever calls and seeds overlap.
THEOREM OneRow == Spec => []OneRowPerKey
<1>1. IInv => OneRowPerKey
  BY DEF IInv
<1> QED BY <1>1, Invariance, PTL

\* Who waits has come less far than whom it waits for: nobody who has come
\* farthest waits.
LEMMA WaitsForFarther ==
  ASSUME IInv, NEW r \in Request, NEW s \in Request, WaitsFor(r, s)
  PROVE  pos[r] < pos[s]
<1>1. pos[r] \in 1..Last
  BY DEF IInv, Equipped, WaitsFor
<1>2. PICK n \in 1..Last : n < pos[s] /\ Standard[pos[r]] = Standard[n]
  BY DEF IInv, Apart, WaitsFor, Wanted
<1>3. n = pos[r]
  BY <1>1, <1>2, ConstantsAssumption
<1> QED BY <1>2, <1>3

LEMMA NobodyInACircle == IInv => NoWaitCycle
<1> SUFFICES ASSUME IInv, NEW S \in SUBSET Request, S # {}
             PROVE  \E r \in S : \A s \in S : ~WaitsFor(r, s)
  BY DEF NoWaitCycle
<1> DEFINE left == [r \in S |-> Last + 1 - pos[r]]
           T == {left[r] : r \in S}
<1>1. \A r \in S : pos[r] \in 1..(Last + 1) /\ left[r] \in Nat
  BY ConstantsAssumption DEF IInv, TypeOK
<1>2. T \subseteq Nat /\ T # {}
  BY <1>1
<1>3. \E x \in T : \A y \in T : ~(<<y, x>> \in OpToRel(<, Nat))
  <2> HIDE DEF T
  <2> QED BY <1>2, NatLessThanWellFounded, WFMin, Zenon
<1>4. PICK x \in T : \A y \in T : ~(y < x)
  BY <1>2, <1>3 DEF OpToRel
<1>5. PICK r \in S : x = left[r]
  BY <1>4
<1>6. \A s \in S : ~(pos[r] < pos[s])
  <2> SUFFICES ASSUME NEW s \in S, pos[r] < pos[s] PROVE FALSE
    OBVIOUS
  <2>1. ~(left[s] < left[r])
    BY <1>4, <1>5
  <2> QED BY <2>1, <1>1, ConstantsAssumption
<1> QED BY <1>6, WaitsForFarther

\* Seeds never wait for one another in a circle (the order of the loops in
\* seed_permissions_async is the same in each run).
THEOREM NoCircle == Spec => []NoWaitCycle
BY NobodyInACircle, Invariance, PTL

-----------------------------------------------------------------------------
(***************************************************************************)
(* What any step does to the calls and to the rows.                        *)
(***************************************************************************)
StepOf(r) ==
  (\E c \in Call[r] : Arrive(r, c)) \/ LoadStep(r) \/ RouteStep(r) \/ SeedStep(r) \/ Die(r)

\* A step is one of a call, of an operator, or none.
LEMMA Steps ==
  ASSUME [Next]_vars
  PROVE  \/ \E r \in Request : StepOf(r)
         \/ \E o \in Operated : Operate(o[1], o[2])
         \/ UNCHANGED vars
BY DEF Next, Quiescent, StepOf

\* A call that has not ended moves alone.
LEMMA Alone ==
  ASSUME IInv, NEW r \in Request, StepOf(r)
  PROVE  /\ outcome[r] = None /\ pc'[r] # "new" /\ Watch
         /\ pc[r] # "new" => UNCHANGED <<call, before>>
         /\ pc[r] = "new" => /\ before' = [before EXCEPT ![r] = Answered]
                            /\ UNCHANGED <<rows, assoc, outcome, mine, granted, pos, inserted>>
         /\ pc[r] = "refresh" => pc'[r] \in {"refresh", "done"}
         /\ pc[r] = "done" => pc'[r] = "done"
         /\ \A s \in Request \ {r} :
              /\ pc'[s] = pc[s] /\ outcome'[s] = outcome[s]
              /\ call'[s] = call[s] /\ before'[s] = before[s]
              /\ pos'[s] = pos[s] /\ inserted'[s] = inserted[s]
              /\ mine'[s] = mine[s] /\ granted'[s] = granted[s]
<1>1. CASE \E c \in Call[r] : Arrive(r, c)
  BY <1>1 DEF IInv, TypeOK, Equipped, Arrive, Goto
<1>2. CASE LoadStep(r)
  BY <1>2 DEF IInv, TypeOK, LoadStep, LoadGroups, LoadGroupPermissions, LoadDirect, Handling, Goto,
              Answer
<1>3. CASE List(r) \/ Retrieve(r) \/ Refresh(r)
  BY <1>3 DEF IInv, TypeOK, List, Retrieve, Refresh, Acting, Handling, Respond, Answer, Raise
<1>4. CASE Create(r)
  BY <1>4 DEF IInv, TypeOK, Create, Acting, Handling, Goto, Raise
<1>5. CASE Update(r)
  BY <1>5 DEF IInv, TypeOK, Update, Acting, Handling, Respond, Answer, Raise
<1>6. CASE Delete(r)
  BY <1>6 DEF IInv, TypeOK, Delete, Acting, Handling, Answer
<1>7. CASE Leave(r)
  BY <1>7 DEF IInv, TypeOK, Leave, Acting, Handling, Respond, Answer, Raise
<1>8. CASE SeedSelect(r)
  BY <1>8 DEF IInv, TypeOK, SeedSelect, Handling, Advance, Goto
<1>9. CASE SeedInsert(r)
  BY <1>9 DEF IInv, TypeOK, SeedInsert, Handling, Advance, Goto, Raise
<1>10. CASE SeedCommit(r)
  BY <1>10 DEF IInv, TypeOK, SeedCommit, Handling, Answer
<1>11. CASE Die(r)
  BY <1>11 DEF IInv, TypeOK, Die
<1> QED BY <1>1, <1>2, <1>3, <1>4, <1>5, <1>6, <1>7, <1>8, <1>9, <1>10, <1>11
        DEF StepOf, RouteStep, SeedStep

\* A step of a call leaves the rows alone, unless it creates, updates or deletes
\* one or commits what a seed inserted.
LEMMA Writers ==
  ASSUME IInv, NEW r \in Request, StepOf(r)
  PROVE  UNCHANGED rows \/ Create(r) \/ Update(r) \/ Delete(r) \/ SeedCommit(r)
BY DEF StepOf, Arrive, LoadStep, LoadGroups, LoadGroupPermissions, LoadDirect, RouteStep, List,
       Retrieve, Refresh, Leave, Raise, SeedStep, SeedSelect, SeedInsert, Die

Past(i) == \A s \in Request, n \in 0..Last : i = <<s, n>> => pc[s] \in {"refresh", "done"}

\* What may happen to a row: it is created by its call, which has not written
\* before; it is given another key; or it is deleted.
LEMMA RowStep ==
  ASSUME IInv, NEW r \in Request, StepOf(r), NEW i \in Id
  PROVE  \/ rows'[i] = rows[i]
         \/ rows[i] = None /\ i \notin Row /\ ~Past(i)
         \/ rows[i] # None /\ rows'[i] # None /\ rows'[i].model = rows[i].model
         \/ rows[i] # None /\ rows'[i] = None /\ Delete(r) /\ call[r].target = i
<1>1. CASE Create(r)
  <2>1. pc[r] = "act" /\ <<r, 0>> \notin Row /\ 0 \in 0..Last
    BY <1>1, ConstantsAssumption DEF Create, Acting, Handling
  <2>2. rows[<<r, 0>>] = None /\ ~Past(<<r, 0>>)
    BY <2>1 DEF IInv, Born, Past
  <2>3. i # <<r, 0>> => rows'[i] = rows[i]
    BY <1>1 DEF IInv, TypeOK, Create, Raise
  <2> QED BY <2>1, <2>2, <2>3
<1>2. CASE Update(r)
  <2>1. UNCHANGED rows \/ (~Missing(r) /\ rows' = [rows EXCEPT ![call[r].target].key = NewKey(r)])
    BY <1>2 DEF Update, Raise
  <2>2. CASE ~Missing(r) /\ rows' = [rows EXCEPT ![call[r].target].key = NewKey(r)]
    <3>1. CASE i = call[r].target
      <4>1. rows[i] \in Entry /\ rows'[i] = [rows[i] EXCEPT !.key = NewKey(r)]
        BY <2>2, <3>1 DEF IInv, TypeOK, Missing, Is
      <4>2. PICK k : rows'[i] = [model |-> rows[i].model, key |-> k] /\ k = NewKey(r)
        BY <4>1 DEF Entry
      <4>3. rows'[i] # None
        <5>1. /\ pc[r] # "new" /\ call[r].kind = "update" /\ (rows'[i] = rows[i] \/ (Sends(r, "key") /\ ~Null(r)))
          BY <1>2, <4>1, <3>1 DEF Update, Acting, Handling, Raise
        <5>2. CASE Sends(r, "key") /\ ~Null(r)
          <6>1. k \in Key
            BY <4>2, <5>1, <5>2, SentKey
          <6> QED BY <4>1, <4>2, <6>1, ConstantsAssumption DEF Entry
        <5>3. CASE rows'[i] = rows[i]
          BY <5>3, <4>1, ConstantsAssumption
        <5> QED BY <5>1, <5>2, <5>3
      <4> QED BY <4>1, <4>2, <4>3, ConstantsAssumption
    <3>2. CASE i # call[r].target
      BY <2>2, <3>2 DEF IInv, TypeOK
    <3> QED BY <3>1, <3>2
  <2> QED BY <2>1, <2>2
<1>3. CASE Delete(r)
  BY <1>3 DEF IInv, TypeOK, Delete, Missing, Is
<1>4. CASE SeedCommit(r)
  <2>1. CASE \E n \in 1..Last : i = <<r, n>>
    <3> PICK n \in 1..Last : i = <<r, n>>
      BY <2>1
    <3>1. pc[r] = "commit" /\ i \notin Row /\ n \in 0..Last
      BY <1>4, ConstantsAssumption DEF SeedCommit, Handling
    <3> QED BY <3>1 DEF IInv, Born, Past
  <2>2. CASE ~\E n \in 1..Last : i = <<r, n>>
    BY <1>4, <2>2 DEF SeedCommit
  <2> QED BY <2>1, <2>2
<1> QED BY <1>1, <1>2, <1>3, <1>4, Writers

-----------------------------------------------------------------------------
(***************************************************************************)
(* Deletes.  DeletedOnce says nothing of the row itself: what a call was    *)
(* told it deleted is gone, and stays gone because its call has inserted.  *)
(***************************************************************************)
StaysGone ==
  /\ \A i \in Id : Deleters(i) # {} => rows[i] = None /\ Past(i)
  /\ DeletedOnce

\* An answer about a row that says "ok" finds the row there.
LEMMA SucceedsInSomething ==
  ASSUME IInv, NEW r \in Request, StepOf(r), NEW i \in Id,
         outcome'[r] = "ok", call'[r].kind \in {"retrieve", "update", "delete"},
         call'[r].target = i
  PROVE  /\ pc[r] = "act" /\ rows[i] # None
         /\ call'[r].kind = "delete" => Delete(r) /\ rows'[i] = None
<1>1. pc[r] # "new" /\ call' = call
  <2>1. outcome[r] # "ok"
    BY Alone, ConstantsAssumption
  <2> QED BY <2>1, Alone
<1>2. CASE List(r) \/ Create(r) \/ Leave(r)
  BY <1>1, <1>2 DEF List, Create, Leave, Acting
<1>3. CASE Refresh(r)
  BY <1>1, <1>3 DEF IInv, Equipped, Refresh, Handling
<1>4. CASE SeedStep(r) \/ Die(r)
  <2>1. call[r].kind = "seed"
    BY <1>4 DEF IInv, Equipped, SeedStep, SeedSelect, SeedInsert, SeedCommit, Die, Handling, Seeding
  <2> QED BY <1>1, <2>1
<1>5. CASE LoadStep(r)
  BY <1>5, Alone, ConstantsAssumption
  DEF IInv, TypeOK, LoadStep, LoadGroups, LoadGroupPermissions, LoadDirect, Goto, Answer
<1>6. CASE Retrieve(r)
  BY <1>1, <1>6 DEF IInv, TypeOK, Retrieve, Acting, Handling, Is, Answer
<1>7. CASE Update(r)
  BY <1>1, <1>7 DEF IInv, TypeOK, Update, Acting, Handling, Missing, Is, Answer, Raise
<1>8. CASE Delete(r)
  BY <1>1, <1>8 DEF IInv, TypeOK, Delete, Deleted, Acting, Handling, Missing, Is, Answer
<1> QED BY <1>1, <1>2, <1>3, <1>4, <1>5, <1>6, <1>7, <1>8 DEF StepOf, RouteStep, Arrive

LEMMA StaysGoneStep ==
  ASSUME IInv, StaysGone, [Next]_vars
  PROVE  StaysGone'
<1>1. CASE UNCHANGED <<rows, call, outcome, before, pc>>
  BY <1>1 DEF StaysGone, DeletedOnce, Deleters, Past, Kind
<1>2. ASSUME NEW r \in Request, StepOf(r) PROVE StaysGone'
  <2>1. /\ \A s \in Request : outcome[s] # None => outcome'[s] = outcome[s] /\ call'[s] = call[s]
                                                /\ before'[s] = before[s]
        /\ \A s \in Request : s # r => outcome'[s] = outcome[s] /\ call'[s] = call[s]
                                      /\ before'[s] = before[s]
    BY <1>2, Alone
  <2>2. \A i \in Id : Past(i) => Past(i)'
    BY <1>2, Alone DEF Past
  <2>3. \A i \in Id : \A s \in Deleters(i)' :
          \/ s \in Deleters(i)
          \/ s = r /\ rows[i] # None /\ rows'[i] = None /\ Deleters(i) = {}
    <3> SUFFICES ASSUME NEW i \in Id, NEW s \in Request, Kind(s, "delete")', outcome'[s] = "ok",
                        call'[s].target = i, s \notin Deleters(i)
                 PROVE  s = r /\ rows[i] # None /\ rows'[i] = None /\ Deleters(i) = {}
      BY DEF Deleters
    <3>1. s = r
      BY <2>1 DEF Deleters, Kind
    <3>2. rows[i] # None /\ rows'[i] = None
      BY <1>2, <3>1, SucceedsInSomething DEF Kind
    <3> QED BY <3>1, <3>2 DEF StaysGone
  <2>4. \A i \in Id : Deleters(i) \subseteq Deleters(i)'
    BY <2>1, ConstantsAssumption DEF Deleters, Kind
  <2>5. \A i \in Id : Deleters(i)' # {} => rows'[i] = None /\ Past(i)'
    <3> SUFFICES ASSUME NEW i \in Id, NEW s \in Deleters(i)'
                 PROVE  rows'[i] = None /\ Past(i)'
      OBVIOUS
    <3>1. CASE s \in Deleters(i)
      BY <1>2, <2>2, <3>1, RowStep DEF StaysGone
    <3>2. CASE s = r /\ rows[i] # None /\ rows'[i] = None
      BY <2>2, <3>2 DEF IInv, Born, Past
    <3> QED BY <2>3, <3>1, <3>2
  <2>6. ASSUME NEW i \in Row, rows'[i] = None PROVE Deleters(i)' # {}
    <3>1. i \in Id
      BY DEF Id
    <3>2. CASE rows[i] = None
      BY <2>4, <3>1, <3>2 DEF StaysGone, DeletedOnce
    <3>3. CASE rows[i] # None
      <4>1. Delete(r) /\ call[r].target = i
        BY <1>2, <2>6, <3>1, <3>3, RowStep
      <4>2. r \in Deleters(i)'
        <5>1. pc[r] = "act" /\ call' = call /\ call[r].kind = "delete" /\ ~Missing(r)
          BY <2>6, <3>3, <4>1 DEF Delete, Acting, Handling
        <5>2. outcome'[r] = "ok"
          BY <4>1, <5>1 DEF IInv, TypeOK, Delete, Deleted, Answer
        <5>3. call[r] # None
          BY <5>1, ConstantsAssumption DEF IInv, Equipped, AnyCall
        <5> QED BY <4>1, <5>1, <5>2, <5>3 DEF Deleters, Kind
      <4> QED BY <4>2
    <3> QED BY <3>2, <3>3
  <2>7. ASSUME NEW i \in Id, NEW s \in Deleters(i)', NEW u \in Deleters(i)' PROVE s = u
    BY <2>3, <2>7 DEF StaysGone, DeletedOnce
  <2>8. ASSUME NEW i \in Id, NEW s \in Deleters(i)', NEW u \in Request, s \in before'[u],
               call'[u].kind \in {"retrieve", "update", "delete"}, call'[u].target = i,
               outcome'[u] = "ok"
        PROVE  FALSE
    <3>1. s \in before[u] => s \in Deleters(i)
      <4> SUFFICES ASSUME s \in before[u] PROVE s \in Deleters(i)
        OBVIOUS
      <4>1. s \in Request /\ outcome[s] # None
        BY <2>8 DEF IInv, Backwards, Deleters
      <4> QED BY <2>1, <2>8, <4>1 DEF Deleters, Kind
    <3>2. CASE outcome[u] # None
      BY <2>1, <2>8, <3>1, <3>2 DEF StaysGone, DeletedOnce
    <3>3. CASE outcome[u] = None
      <4>1. u = r
        BY <2>1, <2>8, <3>3, ConstantsAssumption
      <4>2. pc[u] = "act" /\ rows[i] # None
        BY <1>2, <2>8, <4>1, SucceedsInSomething
      <4>3. before'[u] = before[u]
        BY <1>2, <4>1, <4>2, Alone
      <4> QED BY <2>8, <3>1, <4>2, <4>3 DEF StaysGone
    <3> QED BY <3>2, <3>3
  <2> QED BY <2>5, <2>6, <2>7, <2>8 DEF StaysGone, DeletedOnce
<1> QED BY <1>1, <1>2, Steps DEF Operate, vars

\* A row that is gone was deleted by one call that says so, and a later call
\* succeeds in nothing about it (GenericRepository.delete and update).
THEOREM DeletesOnce == Spec => []DeletedOnce
<1>1. Init => StaysGone
  <2> SUFFICES ASSUME Init PROVE StaysGone
    OBVIOUS
  <2>1. \A i \in Id : Deleters(i) = {}
    BY ConstantsAssumption DEF Init, Deleters, Kind
  <2>2. \A i \in Row : i \in Id /\ rows[i] # None
    BY ConstantsAssumption DEF Init, Id
  <2> QED BY <2>1, <2>2 DEF StaysGone, DeletedOnce
<1>2. IInv /\ StaysGone /\ [Next]_vars => StaysGone'
  BY StaysGoneStep
<1>3. StaysGone => DeletedOnce
  BY DEF StaysGone
<1> QED BY <1>1, <1>2, <1>3, Invariance, PTL DEF Spec

-----------------------------------------------------------------------------
(***************************************************************************)
(* What seed-permissions leaves behind.                                    *)
(***************************************************************************)
\* A codename that was not there comes from a seed that commits it, or from a
\* call that writes it and goes on.
LEMMA NewCodename ==
  ASSUME IInv, NEW r \in Request, StepOf(r), NEW k \in Codenames', k \notin Codenames
  PROVE  \/ SeedCommit(r) /\ k \in inserted[r]
         \/ /\ call[r].kind \in {"create", "update"} /\ call[r].model = "permission"
            /\ Sends(r, "key") /\ NewKey(r) = k
            /\ pc[r] = "act" /\ pc'[r] \in {"refresh", "done"} /\ call' = call
            /\ outcome'[r] \notin {"forbidden", "missing"}
<1>1. PICK i \in Id : Is(i, "permission")' /\ rows'[i].key = k
  BY DEF Codenames
<1>2. rows'[i] # rows[i]
  BY <1>1 DEF Codenames, Is
<1>3. CASE Create(r)
  <2>1. rows' = [rows EXCEPT ![<<r, 0>>] = [model |-> call[r].model, key |-> NewKey(r)]]
          /\ Goto(r, "refresh") /\ Sends(r, "key") /\ i = <<r, 0>>
    BY <1>2, <1>3 DEF IInv, TypeOK, Create, Raise, Unbuildable
  <2>2. rows'[i] = [model |-> call[r].model, key |-> NewKey(r)]
    BY <2>1 DEF IInv, TypeOK
  <2>3. call[r].model = "permission"
    BY <1>1, <2>2 DEF Is
  <2> QED BY <1>1, <1>3, <2>1, <2>2, <2>3, ConstantsAssumption
          DEF IInv, TypeOK, Create, Acting, Handling, Goto
<1>4. CASE Update(r)
  <2>1. rows' = [rows EXCEPT ![call[r].target].key = NewKey(r)]
          /\ Respond(r) /\ Sends(r, "key") /\ i = call[r].target /\ ~Missing(r)
    BY <1>2, <1>4 DEF IInv, TypeOK, Update, Raise, Answer
  <2>2. rows'[i].key = NewKey(r) /\ call[r].model = "permission"
    <3>1. rows[i] \in Entry /\ rows'[i] = [rows[i] EXCEPT !.key = NewKey(r)]
      BY <2>1 DEF IInv, TypeOK, Missing, Is
    <3>2. rows[i].model = call[r].model /\ rows'[i].model = "permission"
      BY <1>1, <2>1 DEF Missing, Is
    <3> QED BY <3>1, <3>2 DEF Entry
  <2> QED BY <1>1, <1>4, <2>1, <2>2 DEF IInv, TypeOK, Update, Acting, Handling, Respond, Answer
<1>5. CASE Delete(r)
  BY <1>1, <1>2, <1>5 DEF IInv, TypeOK, Delete, Is
<1>6. CASE SeedCommit(r)
  <2>1. PICK n \in 1..Last : i = <<r, n>> /\ Standard[n] \in inserted[r]
    BY <1>2, <1>6 DEF SeedCommit
  <2>2. rows'[i] = [model |-> "permission", key |-> Standard[n]]
    BY <1>6, <2>1 DEF SeedCommit
  <2> QED BY <1>1, <1>6, <2>1, <2>2
<1> QED BY <1>2, <1>3, <1>4, <1>5, <1>6, Writers

\* What a seed has gone past it has inserted, or it is there, or it went away.
Covers(r) ==
  \A n \in 1..Last : n < pos[r] => Standard[n] \in inserted[r] \cup Codenames \cup gone[r]

SeedKeeps ==
  \A r \in Request : Kind(r, "seed") /\ outcome[r] \in {None, "ok"} =>
    Covers(r) /\ (outcome[r] = "ok" => pos[r] = Last + 1)

\* Who watches sees what goes away.
LEMMA GoneIsSeen ==
  ASSUME IInv, Watch, NEW r \in Request, Kind(r, "seed"), NEW k \in Codenames \cup gone[r]
  PROVE  k \in Codenames' \cup gone'[r]
<1>1. pc[r] # "new"
  BY DEF IInv, Equipped, Kind
<1> QED BY <1>1 DEF Watch, Kind

LEMMA SeedKeepsStep ==
  ASSUME IInv, SeedKeeps, [Next]_vars
  PROVE  SeedKeeps'
<1>1. CASE UNCHANGED vars
  BY <1>1 DEF SeedKeeps, Covers, Kind, Codenames, Is, vars
<1>2. ASSUME Watch, NEW r \in Request, UNCHANGED <<call[r], pos[r], inserted[r], outcome[r]>>,
             Kind(r, "seed"), outcome[r] \in {None, "ok"}
      PROVE  Covers(r)' /\ (outcome'[r] = "ok" => pos'[r] = Last + 1)
  <2>1. \A n \in 1..Last : Standard[n] \in inserted[r] \cup Codenames \cup gone[r]
          => Standard[n] \in inserted[r]' \cup Codenames' \cup gone[r]'
    BY <1>2, GoneIsSeen
  <2> QED BY <1>2, <2>1 DEF SeedKeeps, Covers
<1>3. ASSUME NEW o \in Operated, Operate(o[1], o[2]) PROVE SeedKeeps'
  BY <1>2, <1>3 DEF SeedKeeps, Operate, Kind
<1>4. ASSUME NEW q \in Request, StepOf(q) PROVE SeedKeeps'
  <2> SUFFICES ASSUME NEW r \in Request, Kind(r, "seed")', outcome'[r] \in {None, "ok"}
               PROVE  Covers(r)' /\ (outcome'[r] = "ok" => pos'[r] = Last + 1)
    BY DEF SeedKeeps
  <2>0. Watch
    BY <1>4, Alone
  <2>1. CASE r # q
    BY <1>2, <1>4, <2>0, <2>1, Alone DEF Kind
  <2>2. CASE r = q /\ pc[r] = "new"
    <3>1. pos'[r] = 1 /\ outcome'[r] = None
      BY <1>4, <2>2, Alone DEF IInv, TypeOK, Equipped
    <3> QED BY <3>1, ConstantsAssumption DEF Covers
  <2>3. CASE r = q /\ pc[r] # "new"
    <3>1. call' = call /\ Kind(r, "seed") /\ outcome[r] = None /\ call[r].kind = "seed"
      BY <1>4, <2>3, Alone DEF Kind
    <3>2. SeedStep(r)
      <4>1. pc[r] \notin Loading \cup {"refresh"}
        BY <3>1 DEF IInv, Equipped
      <4>2. ~Die(r)
        BY <2>3, ConstantsAssumption DEF Die, IInv, TypeOK
      <4> QED BY <1>4, <2>3, <4>1, <4>2
              DEF StepOf, Arrive, LoadStep, LoadGroups, LoadGroupPermissions, LoadDirect, RouteStep,
                  List, Retrieve, Create, Refresh, Update, Delete, Leave, Acting, Handling, Loading
    <3>3. Covers(r) /\ \A k \in Codenames \cup gone[r] : k \in Codenames' \cup gone'[r]
      BY <2>0, <3>1, GoneIsSeen DEF SeedKeeps
    <3>4. CASE SeedSelect(r)
      <4>1. /\ outcome'[r] = None /\ inserted'[r] = inserted[r]
            /\ pos[r] \in 1..Last
            /\ \/ pos'[r] = pos[r]
               \/ pos'[r] = pos[r] + 1 /\ Standard[pos[r]] \in Codenames
        BY <3>1, <3>4 DEF IInv, TypeOK, Equipped, SeedSelect, Handling, Goto, Advance, Wanted
      <4> QED BY <3>3, <4>1, ConstantsAssumption DEF Covers
    <3>5. CASE SeedInsert(r)
      <4>1. /\ outcome'[r] = None /\ inserted'[r] = inserted[r] \cup {Standard[pos[r]]}
            /\ pos'[r] = pos[r] + 1 /\ pos[r] \in 1..Last
        BY <3>1, <3>5, ConstantsAssumption
        DEF IInv, TypeOK, Equipped, SeedInsert, Handling, Goto, Advance, Raise, Wanted
      <4> QED BY <3>3, <4>1, ConstantsAssumption DEF Covers
    <3>6. CASE SeedCommit(r)
      <4>1. pos'[r] = Last + 1 /\ pos[r] = Last + 1
        BY <3>6 DEF IInv, TypeOK, Equipped, SeedCommit, Handling
      <4>2. \A n \in 1..Last : Standard[n] \in inserted[r] => Standard[n] \in Codenames'
        <5> SUFFICES ASSUME NEW n \in 1..Last, Standard[n] \in inserted[r]
                     PROVE  Standard[n] \in Codenames'
          OBVIOUS
        <5>1. <<r, n>> \in Id /\ None \notin Entry /\ Standard[n] \in Key
          BY ConstantsAssumption DEF Id, Key
        <5>2. rows'[<<r, n>>] = [model |-> "permission", key |-> Standard[n]]
          BY <3>6, <5>1 DEF SeedCommit
        <5>3. rows'[<<r, n>>] # None
          BY <5>1, <5>2 DEF Entry
        <5> QED BY <5>1, <5>2, <5>3 DEF Codenames, Is
      <4> QED BY <3>3, <4>1, <4>2 DEF Covers
    <3> QED BY <3>2, <3>4, <3>5, <3>6 DEF SeedStep
  <2> QED BY <2>1, <2>2, <2>3
<1> QED BY <1>1, <1>3, <1>4, Steps

\* After a seed that said it was done every standard codename is there, or went
\* away since the seed began (seed_permissions_async).
THEOREM SeedsComplete == Spec => []SeedComplete
<1>1. Init => SeedKeeps
  BY DEF Init, SeedKeeps, Kind
<1>2. IInv /\ SeedKeeps /\ [Next]_vars => SeedKeeps'
  BY SeedKeepsStep
<1>3. IInv /\ SeedKeeps => SeedComplete
  <2> SUFFICES ASSUME IInv, SeedKeeps, NEW r \in Request, Kind(r, "seed"), outcome[r] = "ok",
                      NEW n \in 1..Last
               PROVE  Standard[n] \in Codenames \cup gone[r]
    BY DEF SeedComplete
  <2>1. inserted[r] = {}
    BY ConstantsAssumption DEF IInv, Apart
  <2>2. n < pos[r]
    BY ConstantsAssumption DEF SeedKeeps
  <2> QED BY <2>1, <2>2 DEF SeedKeeps, Covers
<1> QED BY <1>1, <1>2, <1>3, Invariance, PTL DEF Spec

-----------------------------------------------------------------------------
(***************************************************************************)
(* Seeds that fail.  A seed at its INSERT that finds the codename taken    *)
(* looked before: whoever wrote it since overlaps the seed.                *)
(***************************************************************************)
Excused(r) == \E s \in Request \ {r} : Overlap(r, s) /\ Gave(s)

Surprised(r) ==
  /\ Kind(r, "seed")
  /\ \/ outcome[r] = "error"
     \/ pc[r] = "insert" /\ outcome[r] = None /\ Wanted(r) \in Codenames

Explained == \A r \in Request : Surprised(r) => Excused(r)

\* An excuse stays one.
LEMMA ExcuseStays ==
  ASSUME IInv, [Next]_vars, NEW r \in Request, Kind(r, "seed"), Excused(r)
  PROVE  Excused(r)'
<1> PICK s \in Request \ {r} : Overlap(r, s) /\ Gave(s)
  BY DEF Excused
<1>1. pc[s] # "new" /\ pc[r] # "new"
  BY DEF IInv, Equipped, Gave, Kind
<1>2. CASE UNCHANGED vars \/ \E o \in Operated : Operate(o[1], o[2])
  BY <1>2 DEF Operate, vars, Excused, Overlap, Gave, Kind, Sends, NewKey
<1>3. ASSUME NEW q \in Request, StepOf(q) PROVE Excused(r)'
  <2>1. before'[r] = before[r] /\ before'[s] = before[s] /\ call'[s] = call[s]
    BY <1>1, <1>3, Alone
  <2>2. Gave(s)'
    <3>1. CASE q # s
      BY <1>3, <2>1, <3>1, Alone DEF Gave, Kind, Sends, NewKey
    <3>2. CASE q = s
      <4>1. outcome[s] = None /\ pc[s] \in {"refresh", "done"}
        BY <1>3, <3>2, Alone, ConstantsAssumption DEF Gave
      <4>2. Refresh(s)
        BY <1>3, <3>2, <4>1
        DEF StepOf, Arrive, LoadStep, LoadGroups, LoadGroupPermissions, LoadDirect, RouteStep, List,
            Retrieve, Create, Update, Delete, Leave, Acting, Handling, SeedStep, SeedSelect,
            SeedInsert, SeedCommit, Die
      <4>3. pc'[s] \in {"refresh", "done"} /\ outcome'[s] \in {"ok", "error"}
        BY <4>1, <4>2 DEF IInv, TypeOK, Refresh, Respond, Answer, Raise
      <4> QED BY <2>1, <4>1, <4>3, ConstantsAssumption DEF Gave, Kind, Sends, NewKey
    <3> QED BY <3>1, <3>2
  <2> QED BY <2>1, <2>2 DEF Excused, Overlap
<1> QED BY <1>2, <1>3, Steps

LEMMA ExplainedStep ==
  ASSUME IInv, Explained, [Next]_vars
  PROVE  Explained'
<1> SUFFICES ASSUME NEW r \in Request, Surprised(r)', ~Surprised(r)
             PROVE  Excused(r)'
  BY ExcuseStays DEF Explained, Surprised
<1>1. CASE UNCHANGED vars \/ \E o \in Operated : Operate(o[1], o[2])
  BY <1>1 DEF Operate, vars, Surprised, Kind, Wanted, Codenames, Is
<1>2. ASSUME StepOf(r) PROVE FALSE
  <2>1. CASE pc[r] = "new"
    <3>1. PICK c \in Call[r] : Arrive(r, c)
      BY <1>2, <2>1 DEF StepOf, LoadStep, LoadGroups, LoadGroupPermissions, LoadDirect, RouteStep,
           List, Retrieve, Create, Refresh, Update, Delete, Leave, Acting, Handling, SeedStep,
           SeedSelect, SeedInsert, SeedCommit, Die
    <3>2. outcome'[r] = None /\ pc'[r] # "insert"
      BY <2>1, <3>1 DEF IInv, TypeOK, Equipped, Arrive, Goto
    <3> QED BY <3>2, ConstantsAssumption DEF Surprised
  <2>2. CASE pc[r] # "new"
    <3>1. call' = call /\ Kind(r, "seed") /\ call[r].kind = "seed" /\ outcome[r] = None
      BY <1>2, <2>2, Alone DEF Surprised, Kind
    <3>2. SeedStep(r) \/ Die(r)
      <4>1. pc[r] \notin Loading \cup {"refresh"}
        BY <3>1 DEF IInv, Equipped
      <4> QED BY <1>2, <2>2, <4>1
              DEF StepOf, Arrive, LoadStep, LoadGroups, LoadGroupPermissions, LoadDirect, RouteStep,
                  List, Retrieve, Create, Refresh, Update, Delete, Leave, Acting, Handling, Loading
    <3>3. CASE SeedSelect(r)
      BY <3>1, <3>3, ConstantsAssumption
      DEF IInv, TypeOK, SeedSelect, Handling, Goto, Advance, Surprised, Wanted, Codenames, Is
    <3>4. CASE SeedInsert(r)
      BY <3>1, <3>4, ConstantsAssumption
      DEF IInv, TypeOK, SeedInsert, Handling, Goto, Advance, Raise, Surprised
    <3>5. CASE SeedCommit(r) \/ Die(r)
      BY <3>5, ConstantsAssumption DEF IInv, TypeOK, SeedCommit, Handling, Answer, Die, Surprised
    <3> QED BY <3>2, <3>3, <3>4, <3>5 DEF SeedStep
  <2> QED BY <2>1, <2>2
<1>3. ASSUME NEW q \in Request, q # r, StepOf(q) PROVE Excused(r)'
  <2>1. /\ pc'[r] = pc[r] /\ outcome'[r] = outcome[r] /\ call'[r] = call[r]
        /\ before'[r] = before[r] /\ pos'[r] = pos[r] /\ outcome[q] = None
    BY <1>3, Alone
  <2>2. /\ pc[r] = "insert" /\ outcome[r] = None
        /\ Wanted(r) \in Codenames' /\ Wanted(r) \notin Codenames
    BY <2>1 DEF Surprised, Kind, Wanted
  <2>3. \/ SeedCommit(q)
        \/ /\ call[q].kind \in {"create", "update"} /\ call[q].model = "permission"
           /\ Sends(q, "key") /\ NewKey(q) = Wanted(r)
           /\ pc[q] = "act" /\ pc'[q] \in {"refresh", "done"} /\ call' = call
           /\ outcome'[q] \notin {"forbidden", "missing"}
    BY <1>3, <2>2, NewCodename
  <2>4. \E n \in 1..Last : Wanted(r) = Standard[n]
    BY <2>2 DEF IInv, Equipped, Wanted
  <2>5. pc[q] # "new" /\ call' = call /\ before' = before /\ call[q] # None
    <3>1. pc[q] # "new"
      BY <2>3 DEF SeedCommit, Handling
    <3> QED BY <1>3, <3>1, Alone, ConstantsAssumption DEF IInv, Equipped, AnyCall
  <2>6. Gave(q)'
    <3>1. CASE SeedCommit(q)
      <4>1. call[q].kind = "seed" /\ outcome'[q] = "ok"
        BY <3>1 DEF IInv, TypeOK, Equipped, SeedCommit, Handling, Answer, Seeding
      <4> QED BY <2>5, <4>1 DEF Gave, Kind
    <3> QED BY <2>3, <2>4, <2>5, <3>1 DEF Gave, Kind, Sends, NewKey
  <2>7. Overlap(r, q)'
    BY <2>1, <2>2, <2>5 DEF IInv, Backwards, Overlap
  <2> QED BY <1>3, <2>6, <2>7 DEF Excused
<1> QED BY <1>1, <1>2, <1>3, Steps

\* A seed fails only if a call that overlaps it gave one of the standard codenames
\* to a permission (seed_permissions_async looks, and inserts later).
THEOREM SeedErrors == Spec => []SeedErrorExplained
<1>1. Init => Explained
  BY DEF Init, Explained, Surprised, Kind
<1>2. IInv /\ Explained /\ [Next]_vars => Explained'
  BY ExplainedStep
<1>3. Explained => SeedErrorExplained
  BY DEF Explained, Surprised, Excused, SeedErrorExplained
<1> QED BY <1>1, <1>2, <1>3, Invariance, PTL DEF Spec

-----------------------------------------------------------------------------
(***************************************************************************)
(* Who is let in.  Between the two queries a group that was read is either *)
(* still the caller's or was seen to be left; so a permission found through *)
(* it was held when it was found.                                          *)
(***************************************************************************)
Routed(r) == call[r] # None /\ call[r].kind \in DOMAIN Verb /\ call[r].user \notin Super

MineOrLeft(r) ==
  \A g \in mine[r] :
    \/ <<call[r].user, g>> \in assoc /\ Is(g, "group")
    \/ "left" \in seen[r]

Earned(r) == seen[r] \cap {"had", "left"} # {}

GrantsEarned ==
  \A r \in Request : Routed(r) =>
    /\ pc[r] = "grouped" /\ outcome[r] = None => MineOrLeft(r)
    /\ pc[r] = "direct" /\ outcome[r] = None /\ (\E x \in granted[r] : x[2] = Needs(r))
         => Earned(r)
    /\ pc[r] \in {"act", "refresh", "done"} /\ outcome[r] # "forbidden" => Earned(r)

\* What was seen stays seen, and a call that decides notices what happens.
LEMMA Notices ==
  ASSUME IInv, Watch, NEW r \in Request
  PROVE  /\ seen[r] \subseteq seen'[r]
         /\ Deciding(r) \/ Deciding(r)' => seen'[r] = seen[r] \cup Noted(r)
BY DEF Watch, IInv, TypeOK

\* Every step is watched, and leaves the other calls alone.
LEMMA Others ==
  ASSUME IInv, NEW r \in Request,
         \/ \E q \in Request \ {r} : StepOf(q)
         \/ \E o \in Operated : Operate(o[1], o[2])
  PROVE  /\ Watch
         /\ pc'[r] = pc[r] /\ outcome'[r] = outcome[r] /\ call'[r] = call[r]
         /\ mine'[r] = mine[r] /\ granted'[r] = granted[r]
BY Alone DEF Operate

\* A group that stays linked stays a group.
LEMMA GroupStays ==
  ASSUME IInv, [Next]_vars, NEW u \in User, NEW g \in Id, <<u, g>> \in assoc', Is(g, "group")
  PROVE  Is(g, "group")'
<1>1. rows'[g] # None
  BY NextInv DEF IInv, TypeOK, Linked
<1>2. CASE UNCHANGED rows
  BY <1>2 DEF Is
<1>3. ASSUME NEW r \in Request, StepOf(r) PROVE Is(g, "group")'
  BY <1>1, <1>3, RowStep DEF Is
<1> QED BY <1>2, <1>3, Steps DEF Operate, vars

LEMMA GrantsEarnedStep ==
  ASSUME IInv, GrantsEarned, [Next]_vars
  PROVE  GrantsEarned'
<1>1. CASE UNCHANGED vars
  BY <1>1 DEF GrantsEarned, Routed, MineOrLeft, Earned, Needs, Is, vars
<1>2. ASSUME NEW r \in Request, Routed(r)',
             \/ \E q \in Request \ {r} : StepOf(q)
             \/ \E o \in Operated : Operate(o[1], o[2])
      PROVE  /\ pc'[r] = "grouped" /\ outcome'[r] = None => MineOrLeft(r)'
             /\ pc'[r] = "direct" /\ outcome'[r] = None /\ (\E x \in granted'[r] : x[2] = Needs(r)')
                  => Earned(r)'
             /\ pc'[r] \in {"act", "refresh", "done"} /\ outcome'[r] # "forbidden" => Earned(r)'
  <2>1. /\ Watch /\ pc'[r] = pc[r] /\ outcome'[r] = outcome[r] /\ call'[r] = call[r]
        /\ mine'[r] = mine[r] /\ granted'[r] = granted[r]
    BY <1>2, Others
  <2>2. Routed(r) /\ Needs(r)' = Needs(r)
    BY <1>2, <2>1 DEF Routed, Needs
  <2>3. Earned(r) => Earned(r)'
    BY <2>1, Notices DEF Earned
  <2>4. ASSUME pc[r] = "grouped", outcome[r] = None PROVE MineOrLeft(r)'
    <3>1. Deciding(r)
      BY <2>2, <2>4 DEF Deciding, Routed
    <3>2. call[r].user \in User
      BY <2>2, <2>4, Brings DEF Routed, Verb
    <3> SUFFICES ASSUME NEW g \in mine[r], "left" \notin seen'[r]
                 PROVE  <<call[r].user, g>> \in assoc' /\ Is(g, "group")'
      BY <2>1 DEF MineOrLeft
    <3>3. g \in Id /\ <<call[r].user, g>> \in assoc /\ Is(g, "group")
      BY <2>1, <2>2, <2>4, Notices DEF GrantsEarned, MineOrLeft, IInv, TypeOK
    <3>4. <<call[r].user, g>> \in assoc'
      <4> SUFFICES ASSUME <<call[r].user, g>> \notin assoc' PROVE FALSE
        OBVIOUS
      <4> DEFINE a == <<call[r].user, g>>
      <4>1. a \in assoc \ assoc' /\ a[1] = call'[r].user /\ Is(a[2], "group")
        BY <2>1, <3>3
      <4>2. "left" \in Noted(r)
        BY <4>1 DEF Noted
      <4> QED BY <2>1, <3>1, <4>2, Notices
    <3> QED BY <3>2, <3>3, <3>4, GroupStays
  <2> QED BY <2>1, <2>2, <2>3, <2>4 DEF GrantsEarned
<1>3. ASSUME NEW r \in Request, Routed(r)', StepOf(r)
      PROVE  /\ pc'[r] = "grouped" /\ outcome'[r] = None => MineOrLeft(r)'
             /\ pc'[r] = "direct" /\ outcome'[r] = None /\ (\E x \in granted'[r] : x[2] = Needs(r)')
                  => Earned(r)'
             /\ pc'[r] \in {"act", "refresh", "done"} /\ outcome'[r] # "forbidden" => Earned(r)'
  <2>1. Watch /\ outcome[r] = None
    BY <1>3, Alone
  <2>2. seen[r] \subseteq seen'[r]
    BY <2>1, Notices
  <2>3. CASE \E c \in Call[r] : Arrive(r, c)
    BY <2>3 DEF IInv, TypeOK, Arrive, Goto
  <2>4. CASE ~\E c \in Call[r] : Arrive(r, c)
    <3>1. pc[r] # "new" /\ call' = call
      <4>1. pc[r] # "new"
        BY <1>3, <2>4 DEF StepOf, LoadStep, LoadGroups, LoadGroupPermissions, LoadDirect, RouteStep,
           List, Retrieve, Create, Refresh, Update, Delete, Leave, Acting, Handling, SeedStep,
           SeedSelect, SeedInsert, SeedCommit, Die
      <4> QED BY <1>3, <4>1, Alone
    <3>2. Routed(r) /\ call[r].user \in User /\ Needs(r)' = Needs(r)
      BY <1>3, <3>1, Brings DEF Routed, Verb, Needs
    <3>3. CASE LoadGroups(r)
      <4>1. /\ pc'[r] = "grouped" /\ assoc' = assoc /\ rows' = rows
            /\ mine'[r] = {g \in Id : <<call[r].user, g>> \in assoc /\ Is(g, "group")}
        BY <3>3 DEF IInv, TypeOK, LoadGroups, Goto
      <4> QED BY <3>1, <4>1 DEF MineOrLeft, Is
    <3>4. CASE LoadGroupPermissions(r)
      <4>1. /\ pc'[r] = "direct" /\ pc[r] = "grouped" /\ outcome'[r] = None
            /\ assoc' = assoc /\ rows' = rows
            /\ granted'[r] = {<<p, rows[p].key>> : p \in GroupPermissions(r)}
        BY <3>4 DEF IInv, TypeOK, LoadGroupPermissions, Handling, Goto
      <4> SUFFICES ASSUME NEW p \in GroupPermissions(r), rows[p].key = Needs(r), "left" \notin seen[r]
                   PROVE  Earned(r)'
        BY <2>2, <3>2, <4>1 DEF Earned
      <4>2. PICK g \in mine[r] : p \in Id /\ <<g, p>> \in assoc
        BY DEF GroupPermissions
      <4>3. g \in Id /\ g \notin User /\ <<call[r].user, g>> \in assoc
        BY <2>1, <3>2, <4>1, ConstantsAssumption DEF GrantsEarned, MineOrLeft, IInv, TypeOK
      <4>4. Is(p, "permission")
        BY <4>2, <4>3 DEF IInv, TypeOK, Linked
      <4>5. Holds(r)'
        BY <3>1, <3>2, <4>1, <4>2, <4>3, <4>4 DEF Holds, Is
      <4>6. "had" \in Noted(r)
        BY <4>5 DEF Noted
      <4>7. Deciding(r)'
        BY <3>1, <3>2, <4>1 DEF Deciding, Routed
      <4> QED BY <2>1, <4>6, <4>7, Notices DEF Earned
    <3>5. CASE LoadDirect(r)
      <4>1. /\ pc[r] = "direct" /\ assoc' = assoc /\ rows' = rows /\ pc'[r] \in {"act", "done"}
            /\ outcome'[r] # "forbidden" => HasPermission(r)
        BY <2>1, <3>2, <3>5, ConstantsAssumption
        DEF IInv, TypeOK, LoadDirect, Handling, Goto, Answer, Routed, Verb
      <4> SUFFICES ASSUME HasPermission(r) PROVE Earned(r)'
        BY <4>1
      <4>2. PICK x \in Found(r) : x[2] = Needs(r)
        BY <3>2 DEF HasPermission, Routed
      <4>3. CASE x \in granted[r]
        BY <2>1, <2>2, <3>2, <4>1, <4>2, <4>3 DEF GrantsEarned, Earned
      <4>4. CASE x \notin granted[r]
        <5>1. PICK p \in Own(r) : x = <<p, rows[p].key>>
          BY <4>2, <4>4 DEF Found
        <5>2. Holds(r)'
          BY <3>1, <3>2, <4>1, <4>2, <5>1 DEF Own, Holds, Is
        <5>3. "had" \in Noted(r)
          BY <5>2 DEF Noted
        <5>4. Deciding(r)
          BY <2>1, <3>2, <4>1 DEF Deciding, Routed
        <5> QED BY <2>1, <5>3, <5>4, Notices DEF Earned
      <4> QED BY <4>3, <4>4
    <3>6. CASE RouteStep(r)
      <4>1. pc[r] \in {"act", "refresh"} /\ pc'[r] \in {"act", "refresh", "done"}
        BY <3>6
        DEF IInv, TypeOK, RouteStep, List, Retrieve, Create, Refresh, Update, Delete, Leave, Acting,
            Handling, Goto, Respond, Answer, Raise
      <4> QED BY <2>1, <2>2, <3>2, <4>1, ConstantsAssumption DEF GrantsEarned, Earned
    <3>7. ~(SeedStep(r) \/ Die(r))
      BY <3>2 DEF IInv, Equipped, SeedStep, SeedSelect, SeedInsert, SeedCommit, Die, Handling,
                  Seeding, Routed, Verb
    <3> QED BY <1>3, <2>4, <3>3, <3>4, <3>5, <3>6, <3>7 DEF StepOf, LoadStep
  <2> QED BY <2>3, <2>4
<1> QED BY <1>1, <1>2, <1>3, Steps DEF GrantsEarned

\* A call is let in only if its caller had the permission at some moment since the
\* call arrived, or was taken out of a group (get_by_id_with_permissions).
THEOREM Entered == Spec => []EnteredHeld
<1>1. Init => GrantsEarned
  BY DEF Init, GrantsEarned, Routed
<1>2. IInv /\ GrantsEarned /\ [Next]_vars => GrantsEarned'
  BY GrantsEarnedStep
<1>3. IInv /\ GrantsEarned => EnteredHeld
  BY ConstantsAssumption DEF IInv, Equipped, AnyCall, GrantsEarned, Routed, Earned, EnteredHeld
<1> QED BY <1>1, <1>2, <1>3, Invariance, PTL DEF Spec

-----------------------------------------------------------------------------
(***************************************************************************)
(* Who is refused.  While nothing was seen to be lacked or unlinked, what  *)
(* the caller holds is found by the next queries, or was found already.    *)
(***************************************************************************)
Clear(r) == seen[r] \cap {"lacked", "unlinked"} = {}

\* The permission of the route is p.
Opens(r, p) == p \in Id /\ Is(p, "permission") /\ rows[p].key = Needs(r)

ThroughMine(r) ==
  \E p \in Id : /\ Opens(r, p)
                /\ \/ <<call[r].user, p>> \in assoc
                   \/ \E g \in mine[r] : <<call[r].user, g>> \in assoc /\ <<g, p>> \in assoc

FoundOrOwn(r) ==
  \/ \E x \in granted[r] : x[2] = Needs(r)
  \/ \E p \in Id : Opens(r, p) /\ <<call[r].user, p>> \in assoc /\ p \notin Loaded(r)

SteadyAt(r) ==
  /\ Deciding(r) /\ Clear(r) => Holds(r)
  /\ Deciding(r) /\ Clear(r) /\ pc[r] = "grouped" => ThroughMine(r)
  /\ Deciding(r) /\ Clear(r) /\ pc[r] = "direct" => FoundOrOwn(r)
  /\ outcome[r] = "forbidden" => ~Clear(r)

Steady == \A r \in Request : SteadyAt(r)

\* A codename that is still there after a step is still the codename of its row.
LEMMA KeyStays ==
  ASSUME IInv, NEW q \in Request, StepOf(q), NEW p \in Id, Is(p, "permission"),
         rows[p].key \in Codenames'
  PROVE  Is(p, "permission")' /\ rows'[p].key = rows[p].key
<1> PICK j \in Id : Is(j, "permission")' /\ rows'[j].key = rows[p].key
  BY DEF Codenames
<1>1. rows[p] \in Entry /\ rows[p] # None /\ rows[p].model = "permission"
  BY DEF IInv, TypeOK, Is
<1>2. CASE rows'[p] = rows[p]
  BY <1>1, <1>2 DEF Is
<1>3. CASE rows'[p] # rows[p] /\ rows'[j] = rows[j]
  <2>1. rows[j] \in Entry /\ rows[j].model = "permission" /\ rows[j].key = rows[p].key
    BY <1>3 DEF IInv, TypeOK, Is
  <2>2. rows[j] = rows[p]
    BY <1>1, <2>1 DEF Entry
  <2>3. j = p
    BY <1>1, <2>2 DEF IInv, OneRowPerKey
  <2> QED BY <1>3, <2>3
<1>4. CASE rows'[p] # rows[p] /\ rows'[j] # rows[j]
  <2>1. j = p
    <3>1. CASE Create(q) \/ Update(q) \/ Delete(q)
      BY <1>4, <3>1 DEF IInv, TypeOK, Create, Update, Delete, Raise
    <3>2. CASE SeedCommit(q)
      <4>1. PICK n \in 1..Last : p = <<q, n>>
        BY <1>4, <3>2 DEF SeedCommit
      <4>2. n \in 0..Last /\ pc[q] = "commit"
        BY <3>2, ConstantsAssumption DEF SeedCommit, Handling
      <4> QED BY <1>1, <4>1, <4>2 DEF IInv, Born
    <3> QED BY <1>4, <3>1, <3>2, Writers
  <2> QED BY <2>1
<1> QED BY <1>2, <1>3, <1>4

\* What a step of somebody else does not take away from a caller that was clear.
LEMMA StillClear ==
  ASSUME IInv, Steady, NEW r \in Request, Deciding(r), Clear(r)',
         \/ \E q \in Request \ {r} : StepOf(q)
         \/ \E o \in Operated : Operate(o[1], o[2])
  PROVE  /\ Clear(r) /\ Holds(r)'
         /\ \A p \in Id : Opens(r, p) => Opens(r, p)'
         /\ \A a \in assoc : a[1] = call[r].user \/ <<call[r].user, a[1]>> \in assoc => a \in assoc'
<1>1. /\ Watch /\ call'[r] = call[r] /\ seen'[r] = seen[r] \cup Noted(r)
  BY Others, Notices
<1>2. Clear(r) /\ "lacked" \notin Noted(r) /\ "unlinked" \notin Noted(r)
  BY <1>1 DEF Clear
<1>3. Holds(r)'
  BY <1>2 DEF Noted
<1>4. Needs(r)' = Needs(r)
  BY <1>1 DEF Needs
<1>5. Needs(r) \in Codenames'
  BY <1>3, <1>4 DEF Holds, Codenames
<1>6. \A p \in Id : Opens(r, p) => Opens(r, p)'
  <2>1. CASE \E q \in Request \ {r} : StepOf(q)
    BY <1>4, <1>5, <2>1, KeyStays DEF Opens
  <2>2. CASE \E o \in Operated : Operate(o[1], o[2])
    BY <1>4, <2>2 DEF Opens, Operate, Is
  <2> QED BY <2>1, <2>2
<1>7. \A a \in assoc : a[1] = call[r].user \/ <<call[r].user, a[1]>> \in assoc => a \in assoc'
  BY <1>1, <1>2 DEF Noted
<1> QED BY <1>2, <1>3, <1>6, <1>7

\* The step of somebody else.
LEMMA SteadyOthers ==
  ASSUME IInv, Steady, NEW r \in Request,
         \/ \E q \in Request \ {r} : StepOf(q)
         \/ \E o \in Operated : Operate(o[1], o[2])
  PROVE  SteadyAt(r)'
<1>1. /\ Watch /\ pc'[r] = pc[r] /\ outcome'[r] = outcome[r] /\ call'[r] = call[r]
      /\ mine'[r] = mine[r] /\ granted'[r] = granted[r]
  BY Others
<1>2. outcome'[r] = "forbidden" => ~Clear(r)'
  BY <1>1, Notices DEF Steady, SteadyAt, Clear
<1>3. Deciding(r)' = Deciding(r) /\ Needs(r)' = Needs(r) /\ Loaded(r)' = Loaded(r)
  BY <1>1 DEF Deciding, Needs, Loaded
<1>4. CASE Deciding(r) /\ Clear(r)'
  <2>1. /\ Clear(r) /\ Holds(r)'
        /\ \A p \in Id : Opens(r, p) => Opens(r, p)'
        /\ \A a \in assoc : a[1] = call[r].user \/ <<call[r].user, a[1]>> \in assoc => a \in assoc'
    BY <1>4, StillClear
  <2>2. \A x : <<call[r].user, x>> \in assoc => <<call[r].user, x>> \in assoc'
    BY <2>1
  <2>3. ASSUME pc[r] = "grouped" PROVE ThroughMine(r)'
    <3>1. ThroughMine(r)
      BY <1>4, <2>1, <2>3 DEF Steady, SteadyAt
    <3>2. PICK p \in Id : /\ Opens(r, p)
                          /\ \/ <<call[r].user, p>> \in assoc
                             \/ \E g \in mine[r] : <<call[r].user, g>> \in assoc /\ <<g, p>> \in assoc
      BY <3>1 DEF ThroughMine
    <3>3. ASSUME NEW g \in mine[r], <<call[r].user, g>> \in assoc, <<g, p>> \in assoc
          PROVE  <<g, p>> \in assoc'
      BY <2>1, <3>3
    <3> QED BY <1>1, <2>1, <2>2, <3>2, <3>3 DEF ThroughMine
  <2>4. ASSUME pc[r] = "direct" PROVE FoundOrOwn(r)'
    <3>1. FoundOrOwn(r)
      BY <1>4, <2>1, <2>4 DEF Steady, SteadyAt
    <3> QED BY <1>1, <1>3, <2>1, <2>2, <3>1 DEF FoundOrOwn
  <2> QED BY <1>1, <1>2, <2>1, <2>3, <2>4 DEF SteadyAt
<1> QED BY <1>2, <1>3, <1>4 DEF SteadyAt

\* The step of the call itself.
LEMMA SteadyOwn ==
  ASSUME IInv, Steady, NEW r \in Request, StepOf(r)
  PROVE  SteadyAt(r)'
<1>1. Watch /\ outcome[r] = None /\ seen[r] \subseteq seen'[r]
  BY Alone, Notices
<1>2. Clear(r)' => Clear(r)
  BY <1>1 DEF Clear
<1>3. Deciding(r)' /\ Clear(r)' => Holds(r)'
  BY <1>1, Notices DEF Clear, Noted
<1>4. CASE \E c \in Call[r] : Arrive(r, c)
  <2>1. pc'[r] \in {"select", "groups"} /\ outcome'[r] = None
    BY <1>1, <1>4 DEF IInv, TypeOK, Arrive, Goto
  <2> QED BY <1>3, <2>1, ConstantsAssumption DEF SteadyAt
<1>5. CASE ~\E c \in Call[r] : Arrive(r, c)
  <2>1. pc[r] # "new" /\ call' = call
    <3>1. pc[r] # "new"
      BY <1>5 DEF StepOf, LoadStep, LoadGroups, LoadGroupPermissions, LoadDirect, RouteStep, List,
         Retrieve, Create, Refresh, Update, Delete, Leave, Acting, Handling, SeedStep, SeedSelect,
         SeedInsert, SeedCommit, Die
    <3> QED BY <3>1, Alone
  <2>2. Needs(r)' = Needs(r)
    BY <2>1 DEF Needs
  <2>3. CASE LoadGroups(r)
    <3>1. /\ pc[r] = "groups" /\ pc'[r] = "grouped" /\ outcome'[r] = None
          /\ assoc' = assoc /\ rows' = rows
          /\ mine'[r] = {g \in Id : <<call[r].user, g>> \in assoc /\ Is(g, "group")}
      BY <1>1, <2>3 DEF IInv, TypeOK, LoadGroups, Goto, Handling
    <3>2. ASSUME Deciding(r)', Clear(r)' PROVE ThroughMine(r)'
      <4>1. PICK p \in Id :
              /\ Is(p, "permission")' /\ rows'[p].key = Needs(r)'
              /\ \/ <<call'[r].user, p>> \in assoc'
                 \/ \E g \in Id : <<call'[r].user, g>> \in assoc' /\ <<g, p>> \in assoc'
        BY <1>3, <3>2 DEF Holds
      <4>2. ASSUME NEW g \in Id, <<call[r].user, g>> \in assoc, <<g, p>> \in assoc
            PROVE  g \in mine'[r]
        <5>1. Is(g, "group")
          BY <4>2, ConstantsAssumption DEF IInv, TypeOK, Linked
        <5> QED BY <3>1, <4>2, <5>1
      <4> QED BY <2>1, <3>1, <4>1, <4>2 DEF ThroughMine, Opens
    <3> QED BY <1>3, <3>1, <3>2, ConstantsAssumption DEF SteadyAt
  <2>4. CASE LoadGroupPermissions(r)
    <3>1. /\ pc[r] = "grouped" /\ pc'[r] = "direct" /\ outcome'[r] = None
          /\ assoc' = assoc /\ rows' = rows
          /\ granted'[r] = {<<p, rows[p].key>> : p \in GroupPermissions(r)}
      BY <1>1, <2>4 DEF IInv, TypeOK, LoadGroupPermissions, Goto, Handling
    <3>2. ASSUME Deciding(r)', Clear(r)' PROVE FoundOrOwn(r)'
      <4>1. Deciding(r)
        BY <1>1, <2>1, <3>1, <3>2 DEF Deciding
      <4>2. PICK p \in Id : /\ Opens(r, p)
                            /\ \/ <<call[r].user, p>> \in assoc
                               \/ \E g \in mine[r] : <<call[r].user, g>> \in assoc /\ <<g, p>> \in assoc
        BY <1>2, <3>1, <3>2, <4>1 DEF Steady, SteadyAt, ThroughMine
      <4>3. CASE p \in GroupPermissions(r)
        <5> DEFINE x == <<p, rows[p].key>>
        <5>1. x \in granted'[r] /\ x[2] = Needs(r)'
          BY <2>2, <3>1, <4>2, <4>3 DEF Opens
        <5> QED BY <5>1 DEF FoundOrOwn
      <4>4. CASE p \notin GroupPermissions(r)
        <5>1. <<call'[r].user, p>> \in assoc'
          BY <2>1, <3>1, <4>2, <4>4 DEF GroupPermissions
        <5>2. p \notin Loaded(r)'
          BY <3>1, <4>4 DEF Loaded
        <5>3. Opens(r, p)'
          BY <2>2, <3>1, <4>2 DEF Opens, Is
        <5> QED BY <5>1, <5>2, <5>3 DEF FoundOrOwn
      <4> QED BY <4>3, <4>4
    <3> QED BY <1>3, <3>1, <3>2, ConstantsAssumption DEF SteadyAt
  <2>5. CASE LoadDirect(r)
    <3>1. pc[r] = "direct" /\ pc'[r] \in {"act", "done"}
      BY <2>5 DEF IInv, TypeOK, LoadDirect, Goto, Answer, Handling
    <3>2. ASSUME outcome'[r] = "forbidden" PROVE ~Clear(r)
      <4>1. call[r].kind # "leave" /\ ~HasPermission(r)
        BY <1>1, <2>5, <3>2, ConstantsAssumption DEF LoadDirect, Goto
      <4>2. call[r].kind \in DOMAIN Verb /\ call[r].user \notin Super
        BY <2>1, <3>1, <4>1, ConstantsAssumption
        DEF IInv, Equipped, Loading, Kinds, HasPermission
      <4>3. Deciding(r)
        BY <1>1, <3>1, <4>2 DEF Deciding
      <4>4. ~FoundOrOwn(r)
        <5>1. ~\E x \in granted[r] : x[2] = Needs(r)
          BY <4>1 DEF HasPermission, Found
        <5>2. ASSUME NEW p \in Id, Opens(r, p), <<call[r].user, p>> \in assoc, p \notin Loaded(r)
              PROVE  FALSE
          <6> DEFINE x == <<p, rows[p].key>>
          <6>1. x \in Found(r) /\ x[2] = Needs(r)
            BY <5>2 DEF Opens, Found, Own
          <6> QED BY <4>1, <6>1 DEF HasPermission
        <5> QED BY <5>1, <5>2 DEF FoundOrOwn
      <4> QED BY <3>1, <4>3, <4>4 DEF Steady, SteadyAt
    <3> QED BY <1>2, <3>1, <3>2 DEF SteadyAt, Deciding
  <2>6. CASE RouteStep(r) \/ SeedStep(r) \/ Die(r)
    <3>1. pc'[r] \notin {"groups", "grouped", "direct"} /\ outcome'[r] # "forbidden"
      BY <1>1, <2>6, ConstantsAssumption
      DEF IInv, TypeOK, RouteStep, List, Retrieve, Create, Refresh, Update, Delete, Leave, Acting,
          Handling, Goto, Respond, Answer, Raise, SeedStep, SeedSelect, SeedInsert, SeedCommit,
          Advance, Die
    <3> QED BY <3>1 DEF SteadyAt, Deciding
  <2> QED BY <1>5, <2>3, <2>4, <2>5, <2>6 DEF StepOf, LoadStep
<1> QED BY <1>4, <1>5

\* A call is refused only if its caller lacked the permission at some moment since
\* the call arrived, or lost an association meanwhile (has_permission).
THEOREM Refused == Spec => []RefusedLacked
<1>1. Init => Steady
  BY ConstantsAssumption DEF Init, Steady, SteadyAt, Deciding
<1>2. ASSUME IInv, Steady, [Next]_vars PROVE Steady'
  <2> SUFFICES ASSUME NEW r \in Request PROVE SteadyAt(r)'
    BY DEF Steady
  <2>1. CASE UNCHANGED vars
    BY <1>2, <2>1
    DEF Steady, SteadyAt, Deciding, Clear, Holds, ThroughMine, FoundOrOwn, Opens, Loaded, Needs, Is,
        vars
  <2> QED BY <1>2, <2>1, SteadyOwn, SteadyOthers, Steps
<1>3. Steady => RefusedLacked
  BY DEF Steady, SteadyAt, Clear, RefusedLacked
<1> QED BY <1>1, <1>2, <1>3, Invariance, PTL DEF Spec
=============================================================================
