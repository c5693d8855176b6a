---------------------- MODULE AuthSessionsIndex_proofs ----------------------
(***************************************************************************)
(* Proofs about the index of sessions and the revoke-all marker: when the  *)
(* index expires, why a session is missing from it, and who may set the    *)
(* marker back.                                                            *)
(***************************************************************************)
EXTENDS AuthSessions_proofs

-----------------------------------------------------------------------------
(***************************************************************************)
(* What any step does, whichever request takes it.                         *)
(***************************************************************************)
Acts(r) == Arrival(r) \/ Step(r) \/ Fail(r)

\* A step is one of a request, or a tick, or leaves requests and keys alone.
LEMMA Steps ==
  ASSUME [Next]_vars
  PROVE  \/ \E r \in Request : Acts(r)
         \/ Tick
         \/ UNCHANGED <<now, keys, access, pc, inputs, locals, outcome>>
BY DEF Next, Acts, Disable, Quiescent, vars

\* A request acts before it is answered, and on what is its own only.
LEMMA Alone ==
  ASSUME TypeOK, WellFormed, NEW r \in Request, Acts(r)
  PROVE  /\ outcome[r] = None /\ pc'[r] # "new" /\ now' = now
         /\ pc[r] # "new" => UNCHANGED inputs
         /\ pc[r] = "new" => UNCHANGED <<keys, access, jtis, ts, outcome>>
                             /\ pc'[r] \in {"authenticate", "get", "decode"}
         /\ \A s \in Request \ {r} :
              /\ pc'[s] = pc[s] /\ outcome'[s] = outcome[s] /\ kind'[s] = kind[s]
              /\ rt'[s] = rt[s] /\ at'[s] = at[s] /\ before'[s] = before[s]
              /\ user'[s] = user[s] /\ jtis'[s] = jtis[s] /\ ts'[s] = ts[s]
              /\ access'[s] = access[s]
<1> USE DEF TypeOK, Handling, Goto, Answer, inputs, locals, keys
<1>1. CASE Arrival(r)
  BY <1>1 DEF WellFormed, WellFormedAt, Arrival, ArriveLogin, ArriveRefresh, ArriveMe, ArriveLogout, Arrive
<1>2. CASE Authenticate(r)
  BY <1>2 DEF Authenticate
<1>3. CASE CreateStep(r)
  BY <1>3 DEF CreateStep, SetToken, AddToIndex, ExpireIndex, Mint
<1>4. CASE RotateStep(r)
  BY <1>4 DEF RotateStep, GetToken, LoadUser, DeleteToken, RemoveFromIndex, SetUsed, GetUsed
<1>5. CASE RevokeAllStep(r)
  BY <1>5 DEF RevokeAllStep, ReadIndex, DeleteTokens, DeleteIndex, Stamp, SetMark
<1>6. CASE BearerStep(r)
  BY <1>6 DEF BearerStep, Decode, CheckBlacklist, CheckMark, CheckActive
<1>7. CASE LogoutStep(r)
  BY <1>7 DEF LogoutStep, DecodeAgain, LookUp, LogoutRemove, LogoutDelete, Blacklist
<1>8. CASE Fail(r)
  BY <1>8 DEF Fail
<1> QED BY <1>1, <1>2, <1>3, <1>4, <1>5, <1>6, <1>7, <1>8 DEF Acts, Step

\* Five commands write an index, four a refresh token, one reads an index and one
\* stores a marker.
LEMMA IndexWriters ==
  ASSUME NEW r \in Request, Acts(r), sessions' # sessions
  PROVE  AddToIndex(r) \/ ExpireIndex(r) \/ RemoveFromIndex(r) \/ DeleteIndex(r) \/ LogoutRemove(r)
<1> USE DEF Handling, keys
<1>1. CASE Arrival(r)
  BY <1>1 DEF Arrival, ArriveLogin, ArriveRefresh, ArriveMe, ArriveLogout, Arrive
<1>2. CASE Authenticate(r) \/ CreateStep(r)
  BY <1>2 DEF Authenticate, CreateStep, SetToken, Mint
<1>3. CASE RotateStep(r)
  BY <1>3 DEF RotateStep, GetToken, LoadUser, DeleteToken, SetUsed, GetUsed
<1>4. CASE RevokeAllStep(r)
  BY <1>4 DEF RevokeAllStep, ReadIndex, DeleteTokens, Stamp, SetMark
<1>5. CASE BearerStep(r)
  BY <1>5 DEF BearerStep, Decode, CheckBlacklist, CheckMark, CheckActive
<1>6. CASE LogoutStep(r)
  BY <1>6 DEF LogoutStep, DecodeAgain, LookUp, LogoutDelete, Blacklist
<1>7. CASE Fail(r)
  BY <1>7 DEF Fail
<1> QED BY <1>1, <1>2, <1>3, <1>4, <1>5, <1>6, <1>7 DEF Acts, Step

LEMMA TokenWriters ==
  ASSUME NEW r \in Request, Acts(r), refresh' # refresh
  PROVE  SetToken(r) \/ DeleteToken(r) \/ DeleteTokens(r) \/ LogoutDelete(r)
<1> USE DEF Handling, keys
<1>1. CASE Arrival(r)
  BY <1>1 DEF Arrival, ArriveLogin, ArriveRefresh, ArriveMe, ArriveLogout, Arrive
<1>2. CASE Authenticate(r) \/ CreateStep(r)
  BY <1>2 DEF Authenticate, CreateStep, AddToIndex, ExpireIndex, Mint
<1>3. CASE RotateStep(r)
  BY <1>3 DEF RotateStep, GetToken, LoadUser, RemoveFromIndex, SetUsed, GetUsed
<1>4. CASE RevokeAllStep(r)
  BY <1>4 DEF RevokeAllStep, ReadIndex, DeleteIndex, Stamp, SetMark
<1>5. CASE BearerStep(r)
  BY <1>5 DEF BearerStep, Decode, CheckBlacklist, CheckMark, CheckActive
<1>6. CASE LogoutStep(r)
  BY <1>6 DEF LogoutStep, DecodeAgain, LookUp, LogoutRemove, Blacklist
<1>7. CASE Fail(r)
  BY <1>7 DEF Fail
<1> QED BY <1>1, <1>2, <1>3, <1>4, <1>5, <1>6, <1>7 DEF Acts, Step

LEMMA MarkWriters ==
  ASSUME TypeOK, NEW r \in Request, Acts(r), ~SetMark(r)
  PROVE  mark' = mark /\ (outcome'[r] = "revoked" => outcome[r] = "revoked")
<1> None # "revoked"
  BY ConstantTypes DEF Outcomes
<1> USE DEF TypeOK, Handling, keys, Goto, Answer
<1>1. CASE Arrival(r)
  BY <1>1 DEF Arrival, ArriveLogin, ArriveRefresh, ArriveMe, ArriveLogout, Arrive
<1>2. CASE Authenticate(r) \/ CreateStep(r)
  BY <1>2 DEF Authenticate, CreateStep, SetToken, AddToIndex, ExpireIndex, Mint
<1>3. CASE RotateStep(r)
  BY <1>3 DEF RotateStep, GetToken, LoadUser, DeleteToken, RemoveFromIndex, SetUsed, GetUsed
<1>4. CASE RevokeAllStep(r)
  BY <1>4 DEF RevokeAllStep, ReadIndex, DeleteTokens, DeleteIndex, Stamp
<1>5. CASE BearerStep(r)
  BY <1>5 DEF BearerStep, Decode, CheckBlacklist, CheckMark, CheckActive
<1>6. CASE LogoutStep(r)
  BY <1>6 DEF LogoutStep, DecodeAgain, LookUp, LogoutRemove, LogoutDelete, Blacklist
<1>7. CASE Fail(r)
  BY <1>7 DEF Fail
<1> QED BY <1>1, <1>2, <1>3, <1>4, <1>5, <1>6, <1>7 DEF Acts, Step

-----------------------------------------------------------------------------
(***************************************************************************)
(* How an index changes.                                                   *)
(***************************************************************************)
\* A token is in an index after a step only if it was before it, or is added; the
\* expiry of an index that keeps a member is kept, or counted anew by EXPIRE.
LEMMA IndexShrinks ==
  ASSUME TypeOK, WellFormed, NEW r \in Request, Acts(r), NEW u \in User, NEW t \in Request,
         ~(AddToIndex(r) /\ r = t), t \in sessions'[u].members
  PROVE  /\ t \in sessions[u].members
         /\ t \in Members(u) \/ sessions'[u] = sessions[u]
         /\ \/ sessions'[u].exp = sessions[u].exp
            \/ sessions'[u].exp = now + RefreshTTL
<1>1. CASE sessions' = sessions
  BY <1>1
<1>2. CASE AddToIndex(r)
  <2>1. sessions' = [sessions EXCEPT ![user[r]] = SAdd(user[r], r)] /\ r # t
    BY <1>2 DEF AddToIndex
  <2>2. SAdd(u, r).members = Members(u) \cup {r}
        /\ (Members(u) # {} => SAdd(u, r).exp = sessions[u].exp)
    BY DEF SAdd
  <2>3. Members(u) \subseteq sessions[u].members
    BY MembersType
  <2> QED BY <2>1, <2>2, <2>3 DEF TypeOK
<1>3. CASE ExpireIndex(r)
  <2>1. sessions' = [sessions EXCEPT ![user[r]] = Expire(user[r], RefreshTTL)]
    BY <1>3 DEF ExpireIndex
  <2>2. Expire(u, RefreshTTL).members = Members(u)
        /\ (Members(u) # {} => Expire(u, RefreshTTL).exp = now + RefreshTTL)
    BY DEF Expire
  <2>3. Members(u) \subseteq sessions[u].members
    BY MembersType
  <2> QED BY <2>1, <2>2, <2>3 DEF TypeOK
<1>4. CASE RemoveFromIndex(r) \/ LogoutRemove(r)
  <2>1. sessions' = [sessions EXCEPT ![user[r]] = SRem(user[r], rt[r])]
    BY <1>4 DEF RemoveFromIndex, LogoutRemove
  <2>2. t \in SRem(u, rt[r]).members => t \in Members(u) /\ SRem(u, rt[r]).exp = sessions[u].exp
    BY DEF SRem
  <2>3. Members(u) \subseteq sessions[u].members
    BY MembersType
  <2> QED BY <2>1, <2>2, <2>3 DEF TypeOK
<1>5. CASE DeleteIndex(r)
  BY <1>5 DEF DeleteIndex, TypeOK
<1> QED BY <1>1, <1>2, <1>3, <1>4, <1>5, IndexWriters

\* A token leaves an index only by SREM, or by the DEL of revoke-all.
LEMMA MembersKept ==
  ASSUME TypeOK, WellFormed, NEW r \in Request, Acts(r), NEW u \in User,
         NEW t \in Members(u), t \notin Members(u)'
  PROVE  \/ DeleteIndex(r) /\ user[r] = u
         \/ (RemoveFromIndex(r) \/ LogoutRemove(r)) /\ rt[r] = t
<1>0. now' = now /\ now \in Nat /\ now < now + RefreshTTL
  BY Alone, ConstantTypes DEF TypeOK
<1>1. CASE sessions' = sessions
  BY <1>0, <1>1 DEF Members
<1>2. CASE AddToIndex(r)
  <2>1. sessions' = [sessions EXCEPT ![user[r]] = SAdd(user[r], r)]
    BY <1>2 DEF AddToIndex
  <2>2. t \in SAdd(u, r).members /\ SAdd(u, r).exp = sessions[u].exp
    BY DEF SAdd
  <2> QED BY <1>0, <2>1, <2>2 DEF TypeOK, Members
<1>3. CASE ExpireIndex(r)
  <2>1. sessions' = [sessions EXCEPT ![user[r]] = Expire(user[r], RefreshTTL)]
    BY <1>3 DEF ExpireIndex
  <2>2. t \in Expire(u, RefreshTTL).members /\ Expire(u, RefreshTTL).exp = now + RefreshTTL
    BY DEF Expire
  <2> QED BY <1>0, <2>1, <2>2 DEF TypeOK, Members
<1>4. CASE RemoveFromIndex(r) \/ LogoutRemove(r)
  <2>1. sessions' = [sessions EXCEPT ![user[r]] = SRem(user[r], rt[r])]
    BY <1>4 DEF RemoveFromIndex, LogoutRemove
  <2>2. t # rt[r] => t \in SRem(u, rt[r]).members /\ SRem(u, rt[r]).exp = sessions[u].exp
    BY DEF SRem
  <2> QED BY <1>0, <1>4, <2>1, <2>2 DEF TypeOK, Members
<1>5. CASE DeleteIndex(r)
  BY <1>0, <1>5 DEF DeleteIndex, TypeOK, Members
<1> QED BY <1>1, <1>2, <1>3, <1>4, <1>5, IndexWriters

\* SADD puts the token of its request into the index of its user.
LEMMA Added ==
  ASSUME TypeOK, WellFormed, NEW t \in Request, AddToIndex(t)
  PROVE  t \in Members(user[t])'
<1>1. user[t] \in User /\ user' = user /\ now' = now
  BY DEF AddToIndex, Handling, WellFormed, WellFormedAt, UserKnown, Creating, locals
<1>2. sessions'[user[t]] = SAdd(user[t], t)
  BY <1>1 DEF AddToIndex, TypeOK
<1>3. t \in SAdd(user[t], t).members
      /\ (SAdd(user[t], t).exp = None \/ now < SAdd(user[t], t).exp)
  BY DEF SAdd, Members
<1> QED BY <1>1, <1>2, <1>3 DEF Members

\* Once it is in the index, a token is deleted or stays as it is.
LEMMA TokenKept ==
  ASSUME TypeOK, WellFormed, TokensOfRequest, NEW r \in Request, Acts(r), NEW t \in Request, Filed(t)
  PROVE  refresh'[t] \in {refresh[t], None}
<1>1. ~(SetToken(r) /\ r = t)
  BY ConstantTypes DEF SetToken, Handling, Filed, TokensOfRequest, TokensOfRequestAt
<1> QED BY <1>1, TokenWriters DEF SetToken, DeleteToken, DeleteTokens, LogoutDelete, TypeOK

-----------------------------------------------------------------------------
(***************************************************************************)
(* Each part of IndexInv is preserved by every step.                       *)
(***************************************************************************)
\* A token that has been through EXPIRE got there by EXPIRE, and is delivered after.
LEMMA MintedBy ==
  ASSUME TypeOK, WellFormed, TokensOfRequest, NEW r \in Request, Acts(r), NEW t \in Request,
         pc'[t] = "mint" \/ Delivered(t)'
  PROVE  \/ pc[t] = "mint" \/ Delivered(t)
         \/ ExpireIndex(t) /\ r = t
<1> SUFFICES ASSUME pc[t] # "mint", ~Delivered(t) PROVE ExpireIndex(t) /\ r = t
  OBVIOUS
<1>1. r = t
  BY Alone DEF Delivered
<1> USE DEF TypeOK, Delivered, Handling, Goto, Answer, keys
<1>2. CASE Arrival(r)
  BY <1>1, <1>2 DEF Arrival, ArriveLogin, ArriveRefresh, ArriveMe, ArriveLogout, Arrive
<1>3. CASE Authenticate(r) \/ CreateStep(r)
  BY <1>1, <1>3 DEF Authenticate, CreateStep, SetToken, AddToIndex, Mint
<1>4. CASE RotateStep(r)
  BY <1>1, <1>4 DEF RotateStep, GetToken, LoadUser, DeleteToken, RemoveFromIndex, SetUsed, GetUsed
<1>5. CASE RevokeAllStep(r)
  BY <1>1, <1>5 DEF RevokeAllStep, ReadIndex, DeleteTokens, DeleteIndex, Stamp, SetMark
<1>6. CASE BearerStep(r)
  BY <1>1, <1>6 DEF BearerStep, Decode, CheckBlacklist, CheckMark, CheckActive
<1>7. CASE LogoutStep(r)
  BY <1>1, <1>7 DEF LogoutStep, DecodeAgain, LookUp, LogoutRemove, LogoutDelete, Blacklist
<1>8. CASE Fail(r)
  BY <1>1, <1>8 DEF Fail
<1> QED BY <1>1, <1>2, <1>3, <1>4, <1>5, <1>6, <1>7, <1>8 DEF Acts, Step

LEMMA IndexLastsStep ==
  ASSUME IInv, IndexLasts, [Next]_vars
  PROVE  IndexLasts'
<1> USE DEF IInv
<1>0. now \in Nat /\ RefreshTTL \in Nat /\ now <= now' /\ now' \in Nat
  <2>1. now' = now \/ now' = now + 1
    BY Alone, Steps DEF Tick
  <2> QED BY <2>1, ConstantTypes DEF TypeOK
<1>1. CASE Tick \/ UNCHANGED <<now, keys, access, pc, inputs, locals, outcome>>
  <2>1. UNCHANGED <<refresh, sessions, pc, access, user>>
    BY <1>1 DEF Tick, keys, locals
  <2>2. \A t \in Request : refresh[t] # None => refresh[t].exp \in Nat
    BY DEF TypeOK, Key
  <2> QED BY <1>0, <2>1, <2>2 DEF IndexLasts, Delivered
<1>2. ASSUME NEW r \in Request, Acts(r) PROVE IndexLasts'
  <2>0. now' = now
    BY <1>2, Alone
  <2>1. ASSUME NEW t \in Request, refresh'[t] # None PROVE refresh'[t].exp <= now + RefreshTTL
    <3>1. CASE refresh'[t] = refresh[t]
      BY <2>1, <3>1 DEF IndexLasts
    <3>2. CASE refresh'[t] # refresh[t]
      <4>1. SetToken(t) /\ user[t] \in User
        BY <1>2, <2>1, <3>2, TokenWriters
        DEF SetToken, DeleteToken, DeleteTokens, LogoutDelete, TypeOK, Handling, WellFormed,
            WellFormedAt, UserKnown, Creating
      <4>2. refresh'[t].exp = now + RefreshTTL
        BY <4>1 DEF SetToken, TypeOK
      <4> QED BY <1>0, <4>2
    <3> QED BY <3>1, <3>2
  <2>2. ASSUME NEW t \in Request, pc'[t] = "mint" \/ Delivered(t)', refresh'[t] # None,
               t \in sessions'[user'[t]].members
        PROVE  sessions'[user'[t]].exp = None \/ sessions'[user'[t]].exp >= refresh'[t].exp
    <3>1. \/ pc[t] = "mint" \/ Delivered(t)
          \/ ExpireIndex(t) /\ r = t
      BY <1>2, <2>2, MintedBy
    <3>2. Filed(t) /\ ~(AddToIndex(r) /\ r = t)
      BY <3>1 DEF Filed, ExpireIndex, AddToIndex, Handling, TokensOfRequest, TokensOfRequestAt
    <3>3. user'[t] = user[t] /\ user[t] \in User
      <4>1. user'[t] = user[t]
        BY <3>2, FiledIsStable
      <4>2. user[t] \in User
        BY <3>2 DEF Filed, Delivered, TypeOK, Jwt, WellFormed, WellFormedAt, UserKnown, Creating,
                    TokensOfRequest, TokensOfRequestAt
      <4> QED BY <4>1, <4>2
    <3>4. refresh'[t] = refresh[t]
      BY <1>2, <2>2, <3>2, TokenKept
    <3>5. CASE ExpireIndex(t) /\ r = t
      <4>1. sessions'[user[t]] = Expire(user[t], RefreshTTL)
        BY <3>3, <3>5 DEF ExpireIndex, TypeOK
      <4>2. sessions'[user[t]].exp = None \/ sessions'[user[t]].exp = now + RefreshTTL
        BY <4>1 DEF Expire
      <4> QED BY <2>0, <2>1, <2>2, <3>3, <4>2
    <3>6. CASE pc[t] = "mint" \/ Delivered(t)
      <4>1. /\ t \in sessions[user[t]].members
            /\ \/ sessions'[user[t]].exp = sessions[user[t]].exp
               \/ sessions'[user[t]].exp = now + RefreshTTL
        BY <1>2, <2>2, <3>2, <3>3, IndexShrinks
      <4> QED BY <2>1, <2>2, <3>3, <3>4, <3>6, <4>1 DEF IndexLasts
    <3> QED BY <3>1, <3>5, <3>6
  <2> QED BY <2>0, <2>1, <2>2 DEF IndexLasts
<1> QED BY <1>1, <1>2, Steps

\* Who was answered before another request arrived was answered.
LEMMA BeforeAnswered ==
  ASSUME BeforeStable, NEW v \in Request, NEW w \in Request, v \in before[w]
  PROVE  outcome[v] # None
BY DEF BeforeStable, Answered

\* revoke_all_sessions reads the clock just before it stores the marker.
LEMMA StampedBy ==
  ASSUME TypeOK, WellFormed, NEW w \in Request, Acts(w), pc'[w] = "set_mark" \/ outcome'[w] = "revoked"
  PROVE  Stamp(w) \/ (pc[w] = "set_mark" /\ ts' = ts)
<1>0. outcome[w] = None /\ None # "revoked"
  BY Alone, ConstantTypes DEF Outcomes
<1>1. CASE outcome'[w] = "revoked"
  <2>1. SetMark(w)
    BY <1>0, <1>1, MarkWriters
  <2> QED BY <2>1 DEF SetMark, Handling, locals
<1>2. CASE pc'[w] = "set_mark"
  <2> USE DEF TypeOK, Handling, Goto, Answer, keys
  <2>1. CASE Arrival(w)
    BY <1>2, <2>1 DEF Arrival, ArriveLogin, ArriveRefresh, ArriveMe, ArriveLogout, Arrive
  <2>2. CASE Authenticate(w) \/ CreateStep(w)
    BY <1>2, <2>2 DEF Authenticate, CreateStep, SetToken, AddToIndex, ExpireIndex, Mint
  <2>3. CASE RotateStep(w)
    BY <1>2, <2>3 DEF RotateStep, GetToken, LoadUser, DeleteToken, RemoveFromIndex, SetUsed, GetUsed
  <2>4. CASE RevokeAllStep(w)
    BY <1>2, <2>4 DEF RevokeAllStep, ReadIndex, DeleteTokens, DeleteIndex, SetMark
  <2>5. CASE BearerStep(w)
    BY <1>2, <2>5 DEF BearerStep, Decode, CheckBlacklist, CheckMark, CheckActive
  <2>6. CASE LogoutStep(w)
    BY <1>2, <2>6 DEF LogoutStep, DecodeAgain, LookUp, LogoutRemove, LogoutDelete, Blacklist
  <2>7. CASE Fail(w)
    BY <1>2, <2>7 DEF Fail, locals
  <2> QED BY <2>1, <2>2, <2>3, <2>4, <2>5, <2>6, <2>7 DEF Acts, Step
<1> QED BY <1>1, <1>2

LEMMA RevokedInOrderStep ==
  ASSUME IInv, RevokedInOrder, [Next]_vars
  PROVE  RevokedInOrder'
<1> USE DEF IInv
<1> SUFFICES ASSUME NEW v \in Request, NEW w \in Request, v \in before'[w],
                    Is(v, "refresh", "revoked")', pc'[w] = "set_mark" \/ outcome'[w] = "revoked"
             PROVE  ts'[v] <= ts'[w]
  BY DEF RevokedInOrder
<1>1. CASE Tick \/ UNCHANGED <<now, keys, access, pc, inputs, locals, outcome>>
  BY <1>1 DEF Tick, inputs, locals, RevokedInOrder, Is
<1>2. ASSUME NEW r \in Request, Acts(r) PROVE ts'[v] <= ts'[w]
  <2>1. v \in before[w]
    <3>1. CASE r = w /\ pc[w] = "new"
      <4>1. UNCHANGED outcome /\ outcome[w] = None /\ pc'[w] # "set_mark" /\ None # "revoked"
        BY <1>2, <3>1, Alone, ConstantTypes DEF Outcomes
      <4> QED BY <4>1
    <3>2. CASE ~(r = w /\ pc[w] = "new")
      BY <1>2, <3>2, Alone DEF inputs
    <3> QED BY <3>1, <3>2
  <2>2. v # r
    BY <1>2, <2>1, BeforeAnswered, Alone
  <2>3. Is(v, "refresh", "revoked") /\ ts'[v] = ts[v]
    BY <1>2, <2>2, Alone DEF Is
  <2>4. CASE r # w
    BY <1>2, <2>1, <2>3, <2>4, Alone DEF RevokedInOrder
  <2>5. CASE r = w
    <3>1. CASE Stamp(w)
      <4>1. ts'[w] = now
        BY <3>1 DEF Stamp, TypeOK
      <4> QED BY <2>3, <4>1 DEF MarkLasts
    <3>2. CASE pc[w] = "set_mark" /\ ts' = ts
      BY <2>1, <2>3, <3>2 DEF RevokedInOrder
    <3> QED BY <1>2, <2>5, <3>1, <3>2, StampedBy
  <2> QED BY <2>4, <2>5
<1> QED BY <1>1, <1>2, Steps

\* Revocation w, which overlaps v, stored the marker of their user.
StoredBy(v, w) ==
  /\ Is(w, "refresh", "revoked") /\ user[w] = user[v]
  /\ ts[w] = mark[user[v]].ts /\ Overlap(v, w)

\* A marker that is older than an answered revocation was stored by a request that
\* overlaps it.
LEMMA MarkOfOverlapStep ==
  ASSUME IInv, RevokedInOrder, MarkOfOverlap, [Next]_vars
  PROVE  MarkOfOverlap'
<1> USE DEF IInv
<1> SUFFICES ASSUME NEW v \in Request, Is(v, "refresh", "revoked")',
                    mark'[user'[v]] # None, mark'[user'[v]].ts < ts'[v]
             PROVE  \E w \in Request : StoredBy(v, w)'
  BY DEF MarkOfOverlap, StoredBy
<1>1. CASE Tick \/ UNCHANGED <<now, keys, access, pc, inputs, locals, outcome>>
  <2>1. UNCHANGED <<mark, kind, before, user, ts, outcome>>
    BY <1>1 DEF Tick, keys, inputs, locals
  <2>2. \E w \in Request : StoredBy(v, w)
    BY <2>1 DEF MarkOfOverlap, StoredBy, Is
  <2> QED BY <2>1, <2>2 DEF StoredBy, Is, Overlap
<1>2. ASSUME NEW r \in Request, Acts(r) PROVE \E w \in Request : StoredBy(v, w)'
  <2>0. outcome[r] = None /\ None # "revoked"
    BY <1>2, Alone, ConstantTypes DEF Outcomes
  \* A revocation answered before keeps what it did.
  <2>1. ASSUME v # r, mark'[user[v]] = mark[user[v]]
        PROVE  \E w \in Request : StoredBy(v, w)'
    <3>1. Is(v, "refresh", "revoked") /\ user'[v] = user[v] /\ ts'[v] = ts[v] /\ before'[v] = before[v]
      BY <1>2, <2>1, Alone DEF Is
    <3>2. PICK w \in Request : StoredBy(v, w)
      BY <2>1, <3>1 DEF MarkOfOverlap, StoredBy
    <3>3. w # r
      BY <2>0, <3>2 DEF StoredBy, Is
    <3>4. /\ kind'[w] = kind[w] /\ outcome'[w] = outcome[w] /\ user'[w] = user[w]
          /\ ts'[w] = ts[w] /\ before'[w] = before[w]
      BY <1>2, <3>3, Alone
    <3> QED BY <2>1, <3>1, <3>2, <3>4 DEF StoredBy, Is, Overlap
  <2>2. CASE SetMark(r)
    <3>1. /\ user[r] \in User /\ kind[r] = "refresh" /\ pc[r] = "set_mark"
          /\ UNCHANGED <<inputs, user, ts>>
          /\ mark' = [mark EXCEPT ![user[r]] = [ts |-> ts[r], exp |-> now + MarkTTL]]
          /\ outcome'[r] = "revoked"
      BY <2>2
      DEF SetMark, Handling, Answer, locals, WellFormed, WellFormedAt, UserKnown, Revoking, TypeOK
    <3>2. CASE user[v] = user[r]
      <4>1. mark'[user[v]].ts = ts[r] /\ ts[r] < ts[v]
        BY <3>1, <3>2 DEF TypeOK
      <4>2. v # r /\ ts[v] \in Nat /\ ts[r] \in Nat
        BY <4>1 DEF TypeOK
      <4>3. Is(v, "refresh", "revoked")
        BY <1>2, <4>2, Alone DEF Is
      <4>4. v \notin before[r]
        BY <3>1, <4>1, <4>2, <4>3 DEF RevokedInOrder
      <4>5. r \notin before[v]
        BY <2>0, BeforeAnswered
      <4>6. StoredBy(v, r)'
        BY <3>1, <3>2, <4>1, <4>4, <4>5 DEF StoredBy, Is, Overlap, inputs
      <4> QED BY <4>6
    <3>3. CASE user[v] # user[r]
      BY <2>1, <3>1, <3>3 DEF TypeOK
    <3> QED BY <3>2, <3>3
  <2>3. CASE ~SetMark(r)
    <3>1. mark' = mark
      BY <1>2, <2>3, MarkWriters
    <3>2. v # r
      BY <1>2, <2>0, <2>3, MarkWriters DEF Is
    <3> QED BY <2>1, <3>1, <3>2
  <2> QED BY <2>2, <2>3
<1> QED BY <1>1, <1>2, Steps

\* Only SMEMBERS collects tokens, and the DEL of what was collected follows it.
LEMMA CollectedBy ==
  ASSUME TypeOK, WellFormed, NEW r \in Request, Acts(r)
  PROVE  /\ ~ReadIndex(r) => jtis' = jtis
         /\ pc[r] = "del_keys" => DeleteTokens(r) \/ Fail(r)
         /\ pc'[r] \in {"del_keys", "del_index"} => ReadIndex(r) \/ DeleteTokens(r) \/ Fail(r)
<1> USE DEF TypeOK, Handling, Goto, Answer, locals
<1>1. CASE Arrival(r)
  BY <1>1 DEF Arrival, ArriveLogin, ArriveRefresh, ArriveMe, ArriveLogout, Arrive
<1>2. CASE Authenticate(r) \/ CreateStep(r)
  BY <1>2 DEF Authenticate, CreateStep, SetToken, AddToIndex, ExpireIndex, Mint
<1>3. CASE RotateStep(r)
  BY <1>3 DEF RotateStep, GetToken, LoadUser, DeleteToken, RemoveFromIndex, SetUsed, GetUsed
<1>4. CASE RevokeAllStep(r)
  BY <1>4 DEF RevokeAllStep, ReadIndex, DeleteTokens, DeleteIndex, Stamp, SetMark
<1>5. CASE BearerStep(r)
  BY <1>5 DEF BearerStep, Decode, CheckBlacklist, CheckMark, CheckActive
<1>6. CASE LogoutStep(r)
  BY <1>6 DEF LogoutStep, DecodeAgain, LookUp, LogoutRemove, LogoutDelete, Blacklist
<1>7. CASE Fail(r)
  BY <1>7 DEF Fail
<1> QED BY <1>1, <1>2, <1>3, <1>4, <1>5, <1>6, <1>7 DEF Acts, Step

\* A token that is answered for is not added again.
LEMMA MembersOld ==
  ASSUME IInv, NEW r \in Request, Acts(r), NEW u \in User, NEW t \in Members(u)', outcome[t] # None
  PROVE  t \in Members(u)
<1> USE DEF IInv
<1>1. t \in sessions'[u].members /\ t \in Request
  <2>1. sessions' \in [User -> Index]
    BY TypeStep DEF TypeOK, Next, Acts
  <2> QED BY <2>1 DEF Members, Index
<1>2. ~(AddToIndex(r) /\ r = t) /\ now' = now
  BY Alone
<1>3. t \in sessions[u].members /\ (t \in Members(u) \/ sessions'[u] = sessions[u])
  BY <1>1, <1>2, IndexShrinks
<1> QED BY <1>2, <1>3 DEF Members

LEMMA CollectedStep ==
  ASSUME IInv, Collected, [Next]_vars
  PROVE  Collected'
<1> USE DEF IInv
<1> SUFFICES ASSUME NEW v \in Request
             PROVE  /\ pc'[v] # "del_keys" => \A t \in jtis'[v] : ~Live(refresh[t])'
                    /\ pc'[v] \in {"del_keys", "del_index"} =>
                         \A t \in before'[v] \cap Members(user[v])' : t \in jtis'[v]
  BY DEF Collected
<1>0. pc[v] \in {"del_keys", "del_index"} => user[v] \in User
  BY DEF WellFormed, WellFormedAt, UserKnown, Revoking
<1>1. CASE Tick \/ UNCHANGED <<now, keys, access, pc, inputs, locals, outcome>>
  <2>1. UNCHANGED <<refresh, sessions, pc, before, jtis, user>> /\ (now' = now \/ now' = now + 1)
    BY <1>1 DEF Tick, keys, inputs, locals
  <2>2. ASSUME NEW t \in jtis[v], ~Live(refresh[t]) PROVE ~Live(refresh[t])'
    <3>1. refresh[t] # None => refresh[t].exp \in Nat
      BY DEF TypeOK, Key
    <3> QED BY <2>1, <2>2, <3>1 DEF Live, TypeOK
  <2>3. ASSUME NEW u \in User PROVE Members(u)' \subseteq Members(u)
    <3>1. sessions[u].exp \in Nat \cup {None}
      BY MembersType
    <3> QED BY <2>1, <3>1, ConstantTypes DEF Members, TypeOK
  <2> QED BY <1>0, <2>1, <2>2, <2>3 DEF Collected
<1>2. ASSUME NEW r \in Request, Acts(r), r # v
      PROVE  /\ pc'[v] # "del_keys" => \A t \in jtis'[v] : ~Live(refresh[t])'
             /\ pc'[v] \in {"del_keys", "del_index"} =>
                  \A t \in before'[v] \cap Members(user[v])' : t \in jtis'[v]
  <2>1. /\ pc'[v] = pc[v] /\ jtis'[v] = jtis[v] /\ before'[v] = before[v] /\ user'[v] = user[v]
        /\ now' = now
    BY <1>2, Alone
  <2>2. ASSUME NEW t \in jtis[v], ~Live(refresh[t]) PROVE ~Live(refresh[t])'
    <3>1. t \in Request /\ Filed(t)
      BY DEF IndexOfUser, TypeOK
    <3> QED BY <1>2, <2>1, <2>2, <3>1, TokenKept DEF Live
  <2>3. ASSUME NEW u \in User, NEW t \in before[v] \cap Members(u)' PROVE t \in Members(u)
    <3>1. t \in Request
      <4>1. sessions' \in [User -> Index]
        BY TypeStep DEF TypeOK
      <4> QED BY <4>1 DEF Members, Index
    <3>2. outcome[t] # None
      BY <3>1, BeforeAnswered
    <3> QED BY <1>2, <3>2, MembersOld
  <2> QED BY <1>0, <2>1, <2>2, <2>3 DEF Collected
<1>3. ASSUME Acts(v)
      PROVE  /\ pc'[v] # "del_keys" => \A t \in jtis'[v] : ~Live(refresh[t])'
             /\ pc'[v] \in {"del_keys", "del_index"} =>
                  \A t \in before'[v] \cap Members(user[v])' : t \in jtis'[v]
  <2>1. ASSUME NEW t \in jtis[v], ~Live(refresh[t]) PROVE ~Live(refresh[t])'
    <3>1. t \in Request /\ Filed(t) /\ now' = now
      BY <1>3, Alone DEF IndexOfUser, TypeOK
    <3> QED BY <1>3, <2>1, <3>1, TokenKept DEF Live
  <2>2. CASE ReadIndex(v)
    <3>1. jtis'[v] = Members(user[v]) /\ pc'[v] = IF Members(user[v]) = {} THEN "del_index" ELSE "del_keys"
      BY <2>2 DEF ReadIndex, Goto, TypeOK
    <3>2. Members(user[v])' = Members(user[v])
      BY <2>2 DEF ReadIndex, Handling, keys, Members
    <3> QED BY <3>1, <3>2
  <2>3. CASE DeleteTokens(v)
    <3>1. \A t \in jtis'[v] : refresh'[t] = None
      BY <2>3 DEF DeleteTokens, locals, TypeOK
    <3>2. pc[v] = "del_keys" /\ before' = before /\ jtis' = jtis /\ Members(user[v])' = Members(user[v])
      BY <2>3 DEF DeleteTokens, Handling, locals, inputs, Members
    <3> QED BY <3>1, <3>2 DEF Collected, Live
  <2>4. CASE Fail(v)
    <3>1. UNCHANGED <<pc, before, jtis, Members(user[v])>>
      BY <2>4 DEF Fail, inputs, locals, keys, Members
    <3> QED BY <2>1, <3>1 DEF Collected
  <2>5. CASE ~ReadIndex(v) /\ ~DeleteTokens(v) /\ ~Fail(v)
    <3>1. pc[v] # "del_keys" /\ jtis' = jtis /\ pc'[v] \notin {"del_keys", "del_index"}
      BY <1>3, <2>5, CollectedBy
    <3> QED BY <2>1, <3>1 DEF Collected
  <2> QED BY <2>2, <2>3, <2>4, <2>5
<1> QED BY <1>1, <1>2, <1>3, Steps

\* The initial state satisfies each part.
LEMMA IndexInit == Init => IndexInv /\ OrphansKnown
<1> SUFFICES ASSUME Init PROVE IndexInv /\ OrphansKnown
  OBVIOUS
<1>1. IndexLasts
  BY DEF Init, IndexLasts
<1>2. RevokedInOrder /\ MarkOfOverlap
  BY ConstantTypes DEF Init, RevokedInOrder, MarkOfOverlap, Is, Outcomes
<1>3. Collected
  BY DEF Init, Collected
<1>4. OrphansKnown
  BY DEF Init, OrphansKnown, Live
<1> QED BY <1>1, <1>2, <1>3, <1>4 DEF IndexInv

\* IndexInv holds throughout.
THEOREM IndexInvariance == Spec => []IndexInv
<1>1. IInv /\ IndexInv /\ [Next]_vars => IndexInv'
  BY IndexLastsStep, RevokedInOrderStep, MarkOfOverlapStep, CollectedStep DEF IndexInv
<1>2. Init => IndexInv
  BY IndexInit
<1> QED BY <1>1, <1>2, Invariance, PTL DEF Spec

\* The index does not expire before a delivered token it lists, for any lifetime of
\* tokens, so that revoke-all finds the token (create_session).
THEOREM IndexOutlives == Spec => []IndexOutlivesTokens
<1>1. IInv /\ IndexInv => IndexOutlivesTokens
  <2> SUFFICES ASSUME IInv, IndexInv, NEW t \in Request,
                      Delivered(t), Live(refresh[t]), t \in Members(refresh[t].user)
               PROVE  \/ sessions[refresh[t].user].exp = None
                      \/ sessions[refresh[t].user].exp >= refresh[t].exp
    BY DEF IndexOutlivesTokens
  <2>1. refresh[t] # None /\ refresh[t].user = user[t]
    BY DEF Live, IInv, TokensOfRequest, TokensOfRequestAt
  <2>2. t \in sessions[user[t]].members
    BY <2>1 DEF Members
  <2> QED BY <2>1, <2>2 DEF IndexInv, IndexLasts
<1> QED BY <1>1, Invariance, IndexInvariance, PTL

\* Revocations that follow one another never set the marker of their user back: an
\* older marker was stored by a revocation that overlaps (revoke_all_sessions).
THEOREM MarkGoesBack == Spec => []MarkGoesBackByOverlap
<1>1. IndexInv => MarkGoesBackByOverlap
  BY DEF IndexInv, MarkOfOverlap, MarkGoesBackByOverlap, Live
<1> QED BY <1>1, IndexInvariance, PTL

-----------------------------------------------------------------------------
(***************************************************************************)
(* Why a live session may be missing from the index of its user.           *)
(***************************************************************************)
\* A token that may still be delivered has been added to the index.
LEMMA KeptBy ==
  ASSUME TypeOK, WellFormed, TokensOfRequest, NEW r \in Request, Acts(r), NEW t \in Request, Promised(t)'
  PROVE  Promised(t) \/ (AddToIndex(t) /\ r = t)
<1>1. CASE r # t
  BY <1>1, Alone DEF Promised, Delivered
<1>2. CASE r = t /\ ~AddToIndex(t)
  <2>0. outcome[t] = None
    BY <1>2, Alone
  <2>1. CASE pc'[t] = "expire"
    <3> USE DEF TypeOK, Handling, Goto, Answer, keys
    <3>1. CASE Arrival(t)
      BY <2>1, <3>1 DEF Arrival, ArriveLogin, ArriveRefresh, ArriveMe, ArriveLogout, Arrive
    <3>2. CASE Authenticate(t) \/ CreateStep(t)
      BY <1>2, <2>1, <3>2 DEF Authenticate, CreateStep, SetToken, ExpireIndex, Mint
    <3>3. CASE RotateStep(t)
      BY <2>1, <3>3 DEF RotateStep, GetToken, LoadUser, DeleteToken, RemoveFromIndex, SetUsed, GetUsed
    <3>4. CASE RevokeAllStep(t)
      BY <2>1, <3>4 DEF RevokeAllStep, ReadIndex, DeleteTokens, DeleteIndex, Stamp, SetMark
    <3>5. CASE BearerStep(t)
      BY <2>1, <3>5 DEF BearerStep, Decode, CheckBlacklist, CheckMark, CheckActive
    <3>6. CASE LogoutStep(t)
      BY <2>1, <3>6 DEF LogoutStep, DecodeAgain, LookUp, LogoutRemove, LogoutDelete, Blacklist
    <3>7. CASE Fail(t)
      BY <2>0, <2>1, <3>7 DEF Fail, Promised
    <3> QED BY <1>2, <3>1, <3>2, <3>3, <3>4, <3>5, <3>6, <3>7 DEF Acts, Step
  <2>2. CASE pc'[t] = "mint" \/ Delivered(t)'
    BY <1>2, <2>0, <2>2, MintedBy DEF Promised, ExpireIndex, Handling
  <2> QED BY <2>1, <2>2 DEF Promised
<1> QED BY <1>1, <1>2

\* The steps left to revoke-all once the index is deleted, and to a logout between
\* its two deletes.
LEMMA LastSteps ==
  ASSUME TypeOK, WellFormed, NEW r \in Request, Acts(r)
  PROVE  /\ pc[r] \in {"stamp", "set_mark"} => Stamp(r) \/ SetMark(r) \/ Fail(r)
         /\ pc[r] = "lo_del" => LogoutDelete(r) \/ Fail(r)
<1> USE DEF Handling
<1>1. CASE Arrival(r)
  BY <1>1 DEF Arrival, ArriveLogin, ArriveRefresh, ArriveMe, ArriveLogout, Arrive
<1>2. CASE Authenticate(r) \/ CreateStep(r)
  BY <1>2 DEF Authenticate, CreateStep, SetToken, AddToIndex, ExpireIndex, Mint
<1>3. CASE RotateStep(r)
  BY <1>3 DEF RotateStep, GetToken, LoadUser, DeleteToken, RemoveFromIndex, SetUsed, GetUsed
<1>4. CASE RevokeAllStep(r)
  <2>1. CASE ReadIndex(r) \/ DeleteTokens(r) \/ DeleteIndex(r)
    BY <2>1 DEF ReadIndex, DeleteTokens, DeleteIndex
  <2>2. CASE Stamp(r) \/ SetMark(r)
    <3>1. pc[r] # "lo_del"
      BY <2>2 DEF Stamp, SetMark
    <3> QED BY <2>2, <3>1
  <2> QED BY <1>4, <2>1, <2>2 DEF RevokeAllStep
<1>5. CASE BearerStep(r)
  BY <1>5 DEF BearerStep, Decode, CheckBlacklist, CheckMark, CheckActive
<1>6. CASE LogoutStep(r)
  <2>1. CASE DecodeAgain(r) \/ LookUp(r) \/ LogoutRemove(r) \/ Blacklist(r)
    BY <2>1 DEF DecodeAgain, LookUp, LogoutRemove, Blacklist
  <2>2. CASE LogoutDelete(r)
    <3>1. pc[r] = "lo_del"
      BY <2>2 DEF LogoutDelete
    <3> QED BY <2>2, <3>1
  <2> QED BY <1>6, <2>1, <2>2 DEF LogoutStep
<1>7. CASE Fail(r)
  BY <1>7
<1> QED BY <1>1, <1>2, <1>3, <1>4, <1>5, <1>6, <1>7 DEF Acts, Step

\* Revoke-all v deleted the index that t should be in.
LostTo(t, v) ==
  /\ kind[v] = "refresh" /\ user[v] = refresh[t].user
  /\ pc[v] \in {"stamp", "set_mark"} \/ outcome[v] = "revoked"
  /\ t \notin jtis[v] /\ Overlap(t, v)

\* What explains a missing token explains it as long as the token lives.
LEMMA ExplainedStays ==
  ASSUME IInv, NEW r \in Request, Acts(r), NEW t \in Request, Filed(t), Explained(t), Live(refresh[t])'
  PROVE  Explained(t)'
<1> USE DEF IInv
<1>1. refresh'[t] = refresh[t]
  BY TokenKept DEF Live
<1>2. pc[t] # "new" /\ outcome[r] = None /\ None # "revoked"
  BY Alone, ConstantTypes DEF Filed, TokensOfRequest, TokensOfRequestAt, Outcomes
<1>3. ASSUME NEW v \in Request, LostTo(t, v) PROVE LostTo(t, v)'
  <2>1. pc[v] # "new"
    BY <1>2, <1>3 DEF LostTo, WellFormed, WellFormedAt
  <2>2. before'[t] = before[t] /\ before'[v] = before[v]
    BY <1>2, <2>1, Alone DEF inputs
  <2>3. CASE v # r
    BY <1>1, <1>3, <2>2, <2>3, Alone DEF LostTo, Overlap
  <2>4. CASE v = r
    <3>1. pc[r] \in {"stamp", "set_mark"}
      BY <1>2, <1>3, <2>4 DEF LostTo
    <3>2. CASE Stamp(r) \/ SetMark(r)
      <4>1. user' = user /\ jtis' = jtis /\ kind' = kind
        BY <3>2 DEF Stamp, SetMark, Handling, locals, inputs
      <4>2. pc'[r] = "set_mark" \/ outcome'[r] = "revoked"
        BY <3>2 DEF Stamp, SetMark, Goto, Answer, TypeOK
      <4> QED BY <1>1, <1>3, <2>2, <2>4, <4>1, <4>2 DEF LostTo, Overlap
    <3>3. CASE Fail(r)
      BY <1>1, <1>3, <2>2, <2>4, <3>1, <3>3 DEF LostTo, Overlap, Fail, locals, inputs
    <3> QED BY <3>1, <3>2, <3>3, LastSteps
  <2> QED BY <2>3, <2>4
<1>4. ASSUME NEW l \in Request, rt[l] = t, pc[l] = "lo_del" PROVE rt'[l] = t /\ pc'[l] = "lo_del"
  <2>1. CASE l # r
    BY <1>4, <2>1, Alone
  <2>2. CASE l = r
    <3>1. ~LogoutDelete(r)
      BY <1>4, <2>2 DEF LogoutDelete, Live, TypeOK
    <3>2. Fail(r)
      BY <1>4, <2>2, <3>1, LastSteps
    <3> QED BY <1>4, <2>2, <3>2 DEF Fail, inputs
  <2> QED BY <2>1, <2>2
<1> QED BY <1>3, <1>4 DEF Explained, LostToRevokeAll, LostTo

LEMMA OrphansStep ==
  ASSUME IInv, IndexInv, OrphansKnown, IndexInTime', [Next]_vars
  PROVE  OrphansKnown'
<1> USE DEF IInv
<1> SUFFICES ASSUME NEW t \in Request, Promised(t)', Live(refresh[t])', t \notin Members(user[t])'
             PROVE  Explained(t)'
  BY DEF OrphansKnown
<1>1. CASE Tick \/ UNCHANGED <<now, keys, access, pc, inputs, locals, outcome>>
  <2>1. /\ UNCHANGED <<refresh, sessions, pc, outcome, access, kind, rt, before, user, jtis>>
        /\ now' = now \/ now' = now + 1
    BY <1>1 DEF Tick, keys, inputs, locals
  <2>2. Promised(t) /\ Filed(t) /\ refresh[t] # None /\ refresh[t].exp \in Nat
    BY <2>1 DEF Promised, Filed, Delivered, Live, TypeOK, Key
  <2>3. Live(refresh[t])
    BY <2>1, <2>2 DEF Live, TypeOK
  <2>4. t \notin Members(user[t])
    <3> SUFFICES ASSUME t \in Members(user[t]) PROVE FALSE
      OBVIOUS
    <3>1. t \in sessions[user[t]].members /\ t \notin Members(user[t])'
      BY <2>1 DEF Members
    <3>2. sessions[user[t]].exp # None /\ ~(now' < sessions[user[t]].exp)
      BY <2>1, <3>1 DEF Members
    <3>3. ~(pc[t] = "expire" /\ outcome[t] = None)
      BY <2>1, <3>1, <3>2 DEF IndexInTime
    <3>4. pc[t] = "mint" \/ Delivered(t)
      BY <2>2, <3>3 DEF Promised
    <3>5. sessions[user[t]].exp >= refresh[t].exp /\ sessions[user[t]].exp \in Nat
      <4>1. user[t] \in User
        BY <3>4 DEF Delivered, WellFormed, WellFormedAt, UserKnown, Creating, TokensOfRequest,
                    TokensOfRequestAt, TypeOK, Jwt
      <4> QED BY <2>2, <3>1, <3>2, <3>4, <4>1, MembersType DEF IndexInv, IndexLasts
    <3> QED BY <2>1, <2>2, <3>2, <3>5 DEF Live, TypeOK
  <2>5. Explained(t)
    BY <2>2, <2>3, <2>4 DEF OrphansKnown
  <2> QED BY <2>1, <2>5 DEF Explained, LostToRevokeAll, Overlap
<1>2. ASSUME NEW r \in Request, Acts(r) PROVE Explained(t)'
  <2>1. Promised(t) /\ Filed(t) /\ user'[t] = user[t]
    <3>1. CASE AddToIndex(t)
      <4>1. user' = user
        BY <3>1 DEF AddToIndex, locals
      <4> QED BY <3>1, <4>1, Added
    <3>2. CASE Promised(t)
      BY <3>2, FiledIsStable DEF Promised, Filed
    <3> QED BY <1>2, <3>1, <3>2, KeptBy
  <2>2. refresh'[t] = refresh[t] /\ Live(refresh[t]) /\ now' = now
    BY <1>2, <2>1, TokenKept, Alone DEF Live
  <2>3. refresh[t].user = user[t] /\ user[t] \in User
    BY <2>2 DEF Live, TokensOfRequest, TokensOfRequestAt, TypeOK, Key
  <2>4. CASE t \notin Members(user[t])
    BY <1>2, <2>1, <2>2, <2>4, ExplainedStays DEF OrphansKnown
  <2>5. CASE t \in Members(user[t])
    <3>1. CASE DeleteIndex(r) /\ user[r] = user[t]
      <4>1. /\ pc[r] = "del_index" /\ outcome[r] = None /\ pc'[r] = "stamp" /\ kind[r] = "refresh"
            /\ UNCHANGED <<kind, user, jtis, before>>
        BY <3>1 DEF DeleteIndex, Handling, Goto, locals, inputs, TypeOK, WellFormed, WellFormedAt, Revoking
      <4>2. t \notin jtis[r]
        BY <2>2, <4>1 DEF IndexInv, Collected
      <4>3. t \notin before[r]
        BY <2>5, <3>1, <4>1, <4>2 DEF IndexInv, Collected
      <4>4. r \notin before[t]
        BY <4>1, BeforeAnswered
      <4>5. LostTo(t, r)'
        BY <2>2, <2>3, <3>1, <4>1, <4>2, <4>3, <4>4 DEF LostTo, Overlap
      <4> QED BY <4>5 DEF LostTo, LostToRevokeAll, Explained
    <3>2. CASE RemoveFromIndex(r) /\ rt[r] = t
      BY <2>2, <3>2 DEF RemoveFromIndex, Handling, WellFormed, WellFormedAt, Rotating, Rotated,
                        SpentIsDead, SpentIsDeadAt
    <3>3. CASE LogoutRemove(r) /\ rt[r] = t
      <4>1. pc'[r] = "lo_del" /\ rt'[r] = t
        BY <3>3 DEF LogoutRemove, Handling, Goto, inputs, TypeOK
      <4> QED BY <4>1 DEF Explained
    <3>4. t \notin Members(user[t])' /\ (user[t] \in User)
      BY <2>3
    <3>5. ASSUME NEW u \in User, u = user[t] PROVE t \notin Members(u)'
      BY <2>1, <3>4, <3>5 DEF Members
    <3> QED BY <1>2, <2>3, <2>5, <3>1, <3>2, <3>3, <3>5, MembersKept
  <2> QED BY <2>4, <2>5
<1> QED BY <1>1, <1>2, Steps

\* A delivered live token is missing from the index of its user only because a
\* revoke-all that overlapped its request deleted the index, or a logout is, or
\* failed, between its two deletes, unless an index expired between the SADD and the
\* EXPIRE of a token (create_session, revoke_all_sessions, revoke_session).
THEOREM OrphansInTime == Spec /\ []IndexInTime => []OrphansExplained
<1>1. OrphansKnown /\ IInv => OrphansExplained
  <2> SUFFICES ASSUME OrphansKnown, IInv, NEW t \in Request,
                      Delivered(t), Live(refresh[t]), t \notin Members(refresh[t].user)
               PROVE  Explained(t)
    BY DEF OrphansExplained, Explained
  <2>1. refresh[t].user = user[t]
    BY DEF Live, IInv, TokensOfRequest, TokensOfRequestAt
  <2> QED BY <2>1 DEF OrphansKnown, Promised
<1>2. IInv /\ IndexInv /\ OrphansKnown /\ IndexInTime' /\ [Next]_vars => OrphansKnown'
  BY OrphansStep
<1>3. Init => OrphansKnown
  BY IndexInit
<1> QED BY <1>1, <1>2, <1>3, Invariance, IndexInvariance, PTL DEF Spec

\* In a stretch of time shorter than the lifetime of a refresh token no index
\* expires, so nothing else makes an orphan.
THEOREM Orphans == ASSUME MaxTime < RefreshTTL PROVE Spec => []OrphansExplained
<1> DEFINE Young == now <= MaxTime /\ \A u \in User : sessions[u].exp = None \/ sessions[u].exp >= RefreshTTL
<1>1. Init => Young
  BY ConstantTypes DEF Init
<1>2. IInv /\ Young /\ [Next]_vars => Young'
  <2> SUFFICES ASSUME IInv, Young, [Next]_vars PROVE Young'
    OBVIOUS
  <2>0. TypeOK /\ WellFormed /\ now \in Nat /\ MaxTime \in Nat /\ RefreshTTL \in Nat
    BY ConstantTypes DEF IInv, TypeOK
  <2>1. CASE Tick \/ UNCHANGED <<now, keys, access, pc, inputs, locals, outcome>>
    BY <2>0, <2>1 DEF Tick, keys
  <2>2. ASSUME NEW r \in Request, Acts(r) PROVE Young'
    <3>1. now' = now
      BY <2>0, <2>2, Alone
    <3>2. ASSUME NEW u \in User PROVE sessions'[u].exp \in {sessions[u].exp, None, now + RefreshTTL}
      <4>1. SAdd(u, r).exp \in {sessions[u].exp, None}
        BY DEF SAdd
      <4>2. SRem(u, rt[r]).exp \in {sessions[u].exp, None}
        BY DEF SRem
      <4>3. Expire(u, RefreshTTL).exp \in {None, now + RefreshTTL}
        BY DEF Expire
      <4>4. u \in DOMAIN sessions
        BY <2>0 DEF TypeOK
      <4>5. CASE sessions' = sessions
        BY <4>5
      <4>6. CASE AddToIndex(r)
        BY <4>1, <4>4, <4>6 DEF AddToIndex
      <4>7. CASE ExpireIndex(r)
        BY <4>3, <4>4, <4>7 DEF ExpireIndex
      <4>8. CASE RemoveFromIndex(r) \/ LogoutRemove(r)
        BY <4>2, <4>4, <4>8 DEF RemoveFromIndex, LogoutRemove
      <4>9. CASE DeleteIndex(r)
        BY <4>4, <4>9 DEF DeleteIndex
      <4> QED BY <2>2, <4>5, <4>6, <4>7, <4>8, <4>9, IndexWriters
    <3>3. ASSUME NEW u \in User PROVE sessions'[u].exp = None \/ sessions'[u].exp >= RefreshTTL
      BY <2>0, <3>2
    <3> QED BY <3>1, <3>3
  <2> QED BY <2>1, <2>2, Steps
<1>3. IInv /\ Young => IndexInTime
  <2> SUFFICES ASSUME IInv, Young, NEW t \in Request, pc[t] = "expire"
               PROVE  sessions[user[t]].exp = None \/ now < sessions[user[t]].exp
    BY DEF IndexInTime
  <2>1. user[t] \in User /\ sessions[user[t]].exp \in Nat \cup {None} /\ now \in Nat
    BY MembersType DEF IInv, TypeOK, WellFormed, WellFormedAt, UserKnown, Creating
  <2> QED BY <2>1, ConstantTypes
<1> QED BY <1>1, <1>2, <1>3, Invariance, OrphansInTime, PTL DEF Spec
=============================================================================
