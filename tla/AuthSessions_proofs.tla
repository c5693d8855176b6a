------------------------ MODULE AuthSessions_proofs ------------------------
(***************************************************************************)
(* Proofs about AuthSessions, for every set of users and requests, every   *)
(* lifetime and every bound on the clock.                                  *)
(***************************************************************************)
EXTENDS AuthSessionsInv, TLAPS

-----------------------------------------------------------------------------
(***************************************************************************)
(* Constants, and the operators the actions are built from.                *)
(***************************************************************************)
\* The assumption on the constants, one constant at a time.
LEMMA ConstantTypes ==
  /\ AccessTTL \in Nat /\ RefreshTTL \in Nat /\ RefreshTTL > 0 /\ UsedTTL \in Nat
  /\ MarkTTL \in Nat /\ MaxTime \in Nat /\ Second \in Nat /\ Second > 0
  /\ User \cap Request = {}
  /\ None \notin User /\ None \notin Request /\ None \notin Nat
  /\ None \notin Key /\ None \notin Mark /\ None \notin Jwt
  /\ None \notin Endpoints /\ None \notin Outcomes
  /\ Kinds \subseteq Endpoints /\ Admin \subseteq {"inactive", "deleted"}
BY ConstantsAssumption DEF ConstantsAssumption

\* The expiry of an access token is rounded down by less than a second.
LEMMA WholeSecondBounds ==
  ASSUME NEW n \in Nat
  PROVE  /\ WholeSecond(n) \in Nat
         /\ WholeSecond(n) <= n
         /\ n < WholeSecond(n) + Second
<1>1. Second \in Nat /\ Second > 0
  BY ConstantTypes
<1>2. n % Second \in 0 .. Second - 1
  BY <1>1
<1>3. n % Second <= n
  BY <1>1
<1> QED
  BY <1>1, <1>2, <1>3 DEF WholeSecond

\* The access token that Mint signs.
LEMMA MintType ==
  ASSUME TypeOK, NEW u \in User
  PROVE  [sub |-> u, iat |-> now, exp |-> WholeSecond(now + AccessTTL)] \in Jwt
<1>1. now + AccessTTL \in Nat
  BY ConstantTypes DEF TypeOK
<1> QED
  BY <1>1, WholeSecondBounds DEF TypeOK, Jwt

\* A step of control keeps the types of pc and outcome.
LEMMA GotoType ==
  ASSUME TypeOK, NEW r, NEW l \in Labels, Goto(r, l)
  PROVE  pc' \in [Request -> Labels] /\ outcome' \in [Request -> Outcomes \cup {None}]
BY DEF TypeOK, Goto

LEMMA AnswerType ==
  ASSUME TypeOK, NEW r, NEW o \in Outcomes, Answer(r, o)
  PROVE  pc' \in [Request -> Labels] /\ outcome' \in [Request -> Outcomes \cup {None}]
BY DEF TypeOK, Answer, Labels

\* What Redis answers to GET and SMEMBERS.
LEMMA GetType ==
  ASSUME NEW k \in Key \cup {None}
  PROVE  Get(k) \in User \cup {None}
BY DEF Get, Live, Key

LEMMA MembersType ==
  ASSUME TypeOK, NEW u \in User
  PROVE  /\ Members(u) \subseteq sessions[u].members
         /\ Members(u) \in SUBSET Request
         /\ sessions[u].exp \in Nat \cup {None}
BY DEF TypeOK, Members, Index

\* What SADD, SREM and EXPIRE leave in a set.
LEMMA IndexType ==
  ASSUME TypeOK, NEW u \in User, NEW t \in Request
  PROVE  /\ SAdd(u, t) \in Index
         /\ SAdd(u, t).members \subseteq sessions[u].members \cup {t}
         /\ SRem(u, t) \in Index
         /\ SRem(u, t).members \subseteq sessions[u].members
         /\ Expire(u, RefreshTTL) \in Index
         /\ Expire(u, RefreshTTL).members \subseteq sessions[u].members
<1>1. now \in Nat /\ now + RefreshTTL \in Nat
  BY ConstantTypes DEF TypeOK
<1>2. SAdd(u, t) \in Index /\ SAdd(u, t).members \subseteq sessions[u].members \cup {t}
  BY MembersType DEF SAdd, Index
<1>3. SRem(u, t) \in Index /\ SRem(u, t).members \subseteq sessions[u].members
  BY MembersType DEF SRem, Index
<1>4. /\ Expire(u, RefreshTTL) \in Index
      /\ Expire(u, RefreshTTL).members \subseteq sessions[u].members
  BY <1>1, MembersType DEF Expire, Index
<1> QED
  BY <1>2, <1>3, <1>4

-----------------------------------------------------------------------------
(***************************************************************************)
(* Each part of the invariant is preserved by every step.                  *)
(***************************************************************************)
\* Types are preserved by every step.
LEMMA TypeStep == TypeOK /\ WellFormed /\ [Next]_vars => TypeOK'
<1> SUFFICES ASSUME TypeOK, WellFormed, [Next]_vars PROVE TypeOK'
  OBVIOUS
<1> USE TypeOK DEF TypeOK, Handling, keys, inputs, locals, Labels, Outcomes
<1>1. ASSUME NEW r \in Request, NEW u \in User, ArriveLogin(r, u) PROVE TypeOK'
  BY <1>1, GotoType DEF ArriveLogin, Arrive, Answered
<1>2. ASSUME NEW r \in Request, NEW t \in Request, ArriveRefresh(r, t) PROVE TypeOK'
  BY <1>2, GotoType DEF ArriveRefresh, Arrive, Answered
<1>3. ASSUME NEW r \in Request, NEW a \in Request, ArriveMe(r, a) PROVE TypeOK'
  BY <1>3, GotoType DEF ArriveMe, Arrive, Answered
<1>4. ASSUME NEW r \in Request, NEW a \in Request, NEW t \in Request,
             ArriveLogout(r, a, t)
      PROVE  TypeOK'
  BY <1>4, GotoType DEF ArriveLogout, Arrive, Answered
<1>5. ASSUME NEW r \in Request, Authenticate(r) PROVE TypeOK'
  BY <1>5, GotoType, AnswerType DEF Authenticate
<1>6. ASSUME NEW r \in Request, SetToken(r) PROVE TypeOK'
  <2>1. [user |-> user[r], exp |-> now + RefreshTTL] \in Key
    BY <1>6, ConstantTypes DEF SetToken, WellFormed, WellFormedAt, UserKnown,
       Creating, Key
  <2> QED
    BY <1>6, <2>1, GotoType DEF SetToken
<1>7. ASSUME NEW r \in Request, AddToIndex(r) PROVE TypeOK'
  <2>1. user[r] \in User
    BY <1>7 DEF AddToIndex, WellFormed, WellFormedAt, UserKnown, Creating
  <2> QED
    BY <1>7, <2>1, IndexType, GotoType DEF AddToIndex
<1>8. ASSUME NEW r \in Request, ExpireIndex(r) PROVE TypeOK'
  <2>1. user[r] \in User
    BY <1>8 DEF ExpireIndex, WellFormed, WellFormedAt, UserKnown, Creating
  <2> QED
    BY <1>8, <2>1, IndexType, GotoType DEF ExpireIndex
<1>9. ASSUME NEW r \in Request, RemoveFromIndex(r) PROVE TypeOK'
  <2>1. user[r] \in User /\ rt[r] \in Request
    BY <1>9 DEF RemoveFromIndex, WellFormed, WellFormedAt, UserKnown, Rotating,
       LoggingOut
  <2> QED
    BY <1>9, <2>1, IndexType, GotoType DEF RemoveFromIndex
<1>10. ASSUME NEW r \in Request, LogoutRemove(r) PROVE TypeOK'
  <2>1. user[r] \in User /\ rt[r] \in Request
    BY <1>10 DEF LogoutRemove, WellFormed, WellFormedAt, UserKnown, Rotating,
       LoggingOut
  <2> QED
    BY <1>10, <2>1, IndexType, GotoType DEF LogoutRemove
<1>11. ASSUME NEW r \in Request, Mint(r) PROVE TypeOK'
  <2>1. user[r] \in User
    BY <1>11 DEF Mint, WellFormed, WellFormedAt, UserKnown, Creating
  <2> QED
    BY <1>11, <2>1, MintType, AnswerType DEF Mint
<1>12. ASSUME NEW r \in Request, GetToken(r) PROVE TypeOK'
  <2>1. rt[r] \in Request
    BY <1>12 DEF GetToken, WellFormed, WellFormedAt, Rotating, LoggingOut
  <2>2. Get(refresh[rt[r]]) \in User \cup {None}
    BY <2>1, GetType
  <2> QED
    BY <1>12, <2>2, GotoType, AnswerType DEF GetToken
<1>13. ASSUME NEW r \in Request, GetUsed(r) PROVE TypeOK'
  <2>1. rt[r] \in Request
    BY <1>13 DEF GetUsed, WellFormed, WellFormedAt, Rotating, LoggingOut
  <2>2. Get(used[rt[r]]) \in User \cup {None}
    BY <2>1, GetType
  <2> QED
    BY <1>13, <2>2, GotoType, AnswerType DEF GetUsed
<1>14. ASSUME NEW r \in Request, LookUp(r) PROVE TypeOK'
  <2>1. rt[r] \in Request
    BY <1>14 DEF LookUp, WellFormed, WellFormedAt, Rotating, LoggingOut
  <2>2. Get(refresh[rt[r]]) \in User \cup {None}
    BY <2>1, GetType
  <2> QED
    BY <1>14, <2>2, GotoType, AnswerType DEF LookUp
<1>15. ASSUME NEW r \in Request, LoadUser(r) PROVE TypeOK'
  BY <1>15, GotoType, AnswerType DEF LoadUser
<1>16. ASSUME NEW r \in Request, DeleteToken(r) PROVE TypeOK'
  BY <1>16, GotoType, AnswerType DEF DeleteToken
<1>17. ASSUME NEW r \in Request, DeleteTokens(r) PROVE TypeOK'
  BY <1>17, GotoType, AnswerType DEF DeleteTokens
<1>18. ASSUME NEW r \in Request, DeleteIndex(r) PROVE TypeOK'
  BY <1>18, GotoType, AnswerType DEF DeleteIndex, Index
<1>19. ASSUME NEW r \in Request, Stamp(r) PROVE TypeOK'
  BY <1>19, GotoType, AnswerType DEF Stamp
<1>20. ASSUME NEW r \in Request, Decode(r) PROVE TypeOK'
  BY <1>20, GotoType, AnswerType DEF Decode
<1>21. ASSUME NEW r \in Request, CheckBlacklist(r) PROVE TypeOK'
  BY <1>21, GotoType, AnswerType DEF CheckBlacklist
<1>22. ASSUME NEW r \in Request, CheckMark(r) PROVE TypeOK'
  BY <1>22, GotoType, AnswerType DEF CheckMark
<1>23. ASSUME NEW r \in Request, CheckActive(r) PROVE TypeOK'
  BY <1>23, GotoType, AnswerType DEF CheckActive
<1>24. ASSUME NEW r \in Request, LogoutDelete(r) PROVE TypeOK'
  BY <1>24, GotoType, AnswerType DEF LogoutDelete
<1>25. ASSUME NEW r \in Request, SetUsed(r) PROVE TypeOK'
  <2>1. [user |-> user[r], exp |-> now + UsedTTL] \in Key
    BY <1>25, ConstantTypes DEF SetUsed, WellFormed, WellFormedAt, UserKnown, Key
  <2> QED
    BY <1>25, <2>1, GotoType DEF SetUsed
<1>26. ASSUME NEW r \in Request, ReadIndex(r) PROVE TypeOK'
  <2>1. Members(user[r]) \in SUBSET Request
    BY <1>26, MembersType DEF ReadIndex, WellFormed, WellFormedAt, UserKnown, Revoking
  <2> QED
    BY <1>26, <2>1, GotoType DEF ReadIndex
<1>27. ASSUME NEW r \in Request, SetMark(r) PROVE TypeOK'
  <2>1. [ts |-> ts[r], exp |-> now + MarkTTL] \in Mark
    BY <1>27, ConstantTypes DEF Mark
  <2> QED
    BY <1>27, <2>1, AnswerType DEF SetMark
<1>28. ASSUME NEW r \in Request, DecodeAgain(r) PROVE TypeOK'
  <2>1. at[r] \in Request /\ access[at[r]] \in Jwt
    BY <1>28 DEF DecodeAgain, WellFormed, WellFormedAt, LoggingOut, Delivered
  <2>2. access[at[r]].exp \in Nat /\ now \in Nat
    BY <2>1 DEF Jwt
  <2>3. now < access[at[r]].exp => access[at[r]].exp - now \in Nat
    BY <2>2
  <2>4. now < access[at[r]].exp => WholeSecond(access[at[r]].exp - now) \in Nat
    BY <2>3, WholeSecondBounds
  <2> QED
    BY <1>28, <2>4, GotoType DEF DecodeAgain
<1>29. ASSUME NEW r \in Request, Blacklist(r) PROVE TypeOK'
  <2>1. now + ttl[r] \in Nat
    OBVIOUS
  <2> QED
    BY <1>29, <2>1, AnswerType DEF Blacklist
<1>30. ASSUME NEW r \in Request, Fail(r) PROVE TypeOK'
  BY <1>30 DEF Fail
<1>31. ASSUME NEW u \in User, NEW status \in Admin, Disable(u, status) PROVE TypeOK'
  BY <1>31, ConstantsAssumption DEF Disable, ConstantsAssumption
<1>32. CASE Tick
  BY <1>32 DEF Tick
<1>33. CASE UNCHANGED vars
  BY <1>33 DEF vars
<1> QED
  BY <1>1, <1>2, <1>3, <1>4, <1>5, <1>6, <1>7, <1>8, <1>9, <1>10, <1>11, <1>12, <1>13,
      <1>14, <1>15, <1>16, <1>17, <1>18, <1>19, <1>20, <1>21, <1>22, <1>23, <1>24,
      <1>25, <1>26, <1>27, <1>28, <1>29, <1>30, <1>31, <1>32, <1>33
  DEF Next, Arrival, Step, CreateStep, RotateStep, RevokeAllStep, BearerStep,
      LogoutStep, Quiescent

\* Requests stay at labels of their endpoint, with its inputs.
LEMMA WellFormedStep == TypeOK /\ WellFormed /\ [Next]_vars => WellFormed'
<1> SUFFICES ASSUME TypeOK, WellFormed, [Next]_vars PROVE WellFormed'
  OBVIOUS
<1> USE TypeOK, WellFormed DEF Endpoints, Outcomes, TypeOK, WellFormed, WellFormedAt,
      UserKnown, Creating, Rotating, Revoking, Bearing, LoggingOut, Delivered,
      Handling, Goto, Answer, keys, inputs, locals
<1>1. ASSUME NEW r \in Request, NEW u \in User, ArriveLogin(r, u)
      PROVE  WellFormed'
  <2>1. SUFFICES ASSUME NEW q \in Request PROVE WellFormedAt(q)'
    OBVIOUS
  <2>2. CASE q = r
    BY <1>1, <2>2, ConstantTypes DEF ArriveLogin, Arrive
  <2>3. CASE q # r
    BY <1>1, <2>3, ConstantTypes DEF ArriveLogin, Arrive
  <2> QED
    BY <2>2, <2>3
<1>2. ASSUME NEW r \in Request, NEW t \in Request, ArriveRefresh(r, t)
      PROVE  WellFormed'
  <2>1. SUFFICES ASSUME NEW q \in Request PROVE WellFormedAt(q)'
    OBVIOUS
  <2>2. CASE q = r
    BY <1>2, <2>2, ConstantTypes DEF ArriveRefresh, Arrive
  <2>3. CASE q # r
    BY <1>2, <2>3, ConstantTypes DEF ArriveRefresh, Arrive
  <2> QED
    BY <2>2, <2>3
<1>3. ASSUME NEW r \in Request, NEW a \in Request, ArriveMe(r, a)
      PROVE  WellFormed'
  <2>1. SUFFICES ASSUME NEW q \in Request PROVE WellFormedAt(q)'
    OBVIOUS
  <2>2. CASE q = r
    BY <1>3, <2>2, ConstantTypes DEF ArriveMe, Arrive
  <2>3. CASE q # r
    BY <1>3, <2>3, ConstantTypes DEF ArriveMe, Arrive
  <2> QED
    BY <2>2, <2>3
<1>4. ASSUME NEW r \in Request, NEW a \in Request, NEW t \in Request,
             ArriveLogout(r, a, t)
      PROVE  WellFormed'
  <2>1. SUFFICES ASSUME NEW q \in Request PROVE WellFormedAt(q)'
    OBVIOUS
  <2>2. CASE q = r
    BY <1>4, <2>2, ConstantTypes DEF ArriveLogout, Arrive
  <2>3. CASE q # r
    BY <1>4, <2>3, ConstantTypes DEF ArriveLogout, Arrive
  <2> QED
    BY <2>2, <2>3
<1>5. ASSUME NEW r \in Request, Authenticate(r) PROVE WellFormed'
  BY <1>5 DEF Authenticate
<1>6. ASSUME NEW r \in Request, SetToken(r) PROVE WellFormed'
  BY <1>6 DEF SetToken
<1>7. ASSUME NEW r \in Request, AddToIndex(r) PROVE WellFormed'
  BY <1>7 DEF AddToIndex
<1>8. ASSUME NEW r \in Request, ExpireIndex(r) PROVE WellFormed'
  BY <1>8 DEF ExpireIndex
<1>9. ASSUME NEW r \in Request, Mint(r) PROVE WellFormed'
  <2>1. SUFFICES ASSUME NEW q \in Request PROVE WellFormedAt(q)'
    OBVIOUS
  <2>2. user[r] \in User
    BY <1>9 DEF Mint
  <2>3. \A t \in Request : Delivered(t) => Delivered(t)'
    BY <1>9, <2>2, MintType, ConstantTypes DEF Mint
  <2> QED
    BY <1>9, <2>2, <2>3 DEF Mint
<1>10. ASSUME NEW r \in Request, GetToken(r) PROVE WellFormed'
  <2>1. SUFFICES ASSUME NEW q \in Request PROVE WellFormedAt(q)'
    OBVIOUS
  <2>2. CASE q # r
    BY <1>10, <2>2 DEF GetToken
  <2>3. rt[r] \in Request
    BY <1>10 DEF GetToken
  <2>4. Get(refresh[rt[r]]) \in User \cup {None}
    BY <2>3, GetType
  <2>5. CASE q = r
    BY <1>10, <2>4, <2>5, ConstantTypes DEF GetToken
  <2> QED
    BY <2>2, <2>5
<1>11. ASSUME NEW r \in Request, LoadUser(r) PROVE WellFormed'
  BY <1>11 DEF LoadUser
<1>12. ASSUME NEW r \in Request, DeleteToken(r) PROVE WellFormed'
  BY <1>12 DEF DeleteToken
<1>13. ASSUME NEW r \in Request, RemoveFromIndex(r) PROVE WellFormed'
  BY <1>13 DEF RemoveFromIndex
<1>14. ASSUME NEW r \in Request, SetUsed(r) PROVE WellFormed'
  BY <1>14 DEF SetUsed
<1>15. ASSUME NEW r \in Request, GetUsed(r) PROVE WellFormed'
  <2>1. SUFFICES ASSUME NEW q \in Request PROVE WellFormedAt(q)'
    OBVIOUS
  <2>2. CASE q # r
    BY <1>15, <2>2 DEF GetUsed
  <2>3. rt[r] \in Request
    BY <1>15 DEF GetUsed
  <2>4. Get(used[rt[r]]) \in User \cup {None}
    BY <2>3, GetType
  <2>5. CASE q = r
    BY <1>15, <2>4, <2>5, ConstantTypes DEF GetUsed
  <2> QED
    BY <2>2, <2>5
<1>16. ASSUME NEW r \in Request, ReadIndex(r) PROVE WellFormed'
  BY <1>16 DEF ReadIndex
<1>17. ASSUME NEW r \in Request, DeleteTokens(r) PROVE WellFormed'
  BY <1>17 DEF DeleteTokens
<1>18. ASSUME NEW r \in Request, DeleteIndex(r) PROVE WellFormed'
  BY <1>18 DEF DeleteIndex
<1>19. ASSUME NEW r \in Request, Stamp(r) PROVE WellFormed'
  BY <1>19 DEF Stamp
<1>20. ASSUME NEW r \in Request, SetMark(r) PROVE WellFormed'
  BY <1>20 DEF SetMark
<1>21. ASSUME NEW r \in Request, Decode(r) PROVE WellFormed'
  BY <1>21 DEF Decode
<1>22. ASSUME NEW r \in Request, CheckBlacklist(r) PROVE WellFormed'
  BY <1>22 DEF CheckBlacklist
<1>23. ASSUME NEW r \in Request, CheckMark(r) PROVE WellFormed'
  BY <1>23 DEF CheckMark
<1>24. ASSUME NEW r \in Request, CheckActive(r) PROVE WellFormed'
  BY <1>24 DEF CheckActive
<1>25. ASSUME NEW r \in Request, DecodeAgain(r) PROVE WellFormed'
  BY <1>25 DEF DecodeAgain
<1>26. ASSUME NEW r \in Request, LookUp(r) PROVE WellFormed'
  <2>1. SUFFICES ASSUME NEW q \in Request PROVE WellFormedAt(q)'
    OBVIOUS
  <2>2. CASE q # r
    BY <1>26, <2>2 DEF LookUp
  <2>3. rt[r] \in Request
    BY <1>26 DEF LookUp
  <2>4. Get(refresh[rt[r]]) \in User \cup {None}
    BY <2>3, GetType
  <2>5. CASE q = r
    BY <1>26, <2>4, <2>5, ConstantTypes DEF LookUp
  <2> QED
    BY <2>2, <2>5
<1>27. ASSUME NEW r \in Request, LogoutRemove(r) PROVE WellFormed'
  BY <1>27 DEF LogoutRemove
<1>28. ASSUME NEW r \in Request, LogoutDelete(r) PROVE WellFormed'
  BY <1>28 DEF LogoutDelete
<1>29. ASSUME NEW r \in Request, Blacklist(r) PROVE WellFormed'
  BY <1>29 DEF Blacklist
<1>30. ASSUME NEW r \in Request, Fail(r) PROVE WellFormed'
  BY <1>30 DEF Fail
<1>31. ASSUME NEW u \in User, NEW status \in Admin, Disable(u, status)
      PROVE  WellFormed'
  BY <1>31 DEF Disable
<1>32. CASE Tick
  BY <1>32 DEF Tick
<1>33. CASE UNCHANGED vars
  BY <1>33 DEF vars
<1> QED
  BY <1>1, <1>2, <1>3, <1>4, <1>5, <1>6, <1>7, <1>8, <1>9, <1>10, <1>11, <1>12, <1>13,
      <1>14, <1>15, <1>16, <1>17, <1>18, <1>19, <1>20, <1>21, <1>22, <1>23, <1>24,
      <1>25, <1>26, <1>27, <1>28, <1>29, <1>30, <1>31, <1>32, <1>33
  DEF Next, Arrival, Step, CreateStep, RotateStep, RevokeAllStep, BearerStep,
      LogoutStep, Quiescent

\* Tokens keep belonging to the request that created them.
LEMMA TokensStep ==
  TypeOK /\ WellFormed /\ TokensOfRequest /\ [Next]_vars => TokensOfRequest'
<1> SUFFICES ASSUME TypeOK, WellFormed, TokensOfRequest, [Next]_vars
             PROVE  TokensOfRequest'
  OBVIOUS
<1> USE TypeOK, WellFormed, TokensOfRequest, ConstantTypes DEF TokensOfRequest,
      TokensOfRequestAt, Rotated, Get, Endpoints, Outcomes, TypeOK, WellFormed,
      WellFormedAt, UserKnown, Creating, Rotating, Revoking, Bearing, LoggingOut,
      Delivered, Handling, Goto, Answer, keys, inputs, locals
<1>1. ASSUME NEW r \in Request, NEW u \in User, ArriveLogin(r, u)
      PROVE  TokensOfRequest'
  BY <1>1 DEF ArriveLogin, Arrive
<1>2. ASSUME NEW r \in Request, NEW t \in Request, ArriveRefresh(r, t)
      PROVE  TokensOfRequest'
  BY <1>2 DEF ArriveRefresh, Arrive
<1>3. ASSUME NEW r \in Request, NEW a \in Request, ArriveMe(r, a)
      PROVE  TokensOfRequest'
  BY <1>3 DEF ArriveMe, Arrive
<1>4. ASSUME NEW r \in Request, NEW a \in Request, NEW t \in Request,
             ArriveLogout(r, a, t)
      PROVE  TokensOfRequest'
  BY <1>4 DEF ArriveLogout, Arrive
<1>5. ASSUME NEW r \in Request, Authenticate(r) PROVE TokensOfRequest'
  BY <1>5 DEF Authenticate
<1>6. ASSUME NEW r \in Request, SetToken(r) PROVE TokensOfRequest'
  BY <1>6 DEF SetToken
<1>7. ASSUME NEW r \in Request, AddToIndex(r) PROVE TokensOfRequest'
  BY <1>7 DEF AddToIndex
<1>8. ASSUME NEW r \in Request, ExpireIndex(r) PROVE TokensOfRequest'
  BY <1>8 DEF ExpireIndex
<1>9. ASSUME NEW r \in Request, Mint(r) PROVE TokensOfRequest'
  <2>1. SUFFICES ASSUME NEW t \in Request PROVE TokensOfRequestAt(t)'
    OBVIOUS
  <2>2. user[r] \in User
    BY <1>9 DEF Mint
  <2>3. Delivered(r)' /\ access'[r].sub = user[r]
    BY <1>9, <2>2, MintType DEF Mint
  <2>4. CASE t = r
    BY <1>9, <2>3, <2>4 DEF Mint
  <2>5. CASE t # r
    <3>1. access'[t] = access[t] /\ pc'[t] = pc[t] /\ outcome'[t] = outcome[t]
      BY <1>9, <2>5 DEF Mint
    <3> QED
      BY <1>9, <3>1 DEF Mint
  <2> QED
    BY <2>4, <2>5
<1>10. ASSUME NEW r \in Request, GetToken(r) PROVE TokensOfRequest'
  <2>1. SUFFICES ASSUME NEW t \in Request PROVE TokensOfRequestAt(t)'
    OBVIOUS
  <2>2. rt[r] \in Request /\ Delivered(rt[r])
    BY <1>10 DEF GetToken
  <2>3. rt[r] # r /\ user'[rt[r]] = user[rt[r]]
    BY <1>10, <2>2 DEF GetToken
  <2>4. Get(refresh[rt[r]]) # None => Get(refresh[rt[r]]) = user[rt[r]]
    BY <2>2 DEF Live
  <2>5. CASE t = r
    BY <1>10, <2>2, <2>3, <2>4, <2>5 DEF GetToken
  <2>6. CASE t # r
    BY <1>10, <2>6 DEF GetToken
  <2> QED
    BY <2>5, <2>6
<1>11. ASSUME NEW r \in Request, LoadUser(r) PROVE TokensOfRequest'
  BY <1>11 DEF LoadUser
<1>12. ASSUME NEW r \in Request, DeleteToken(r) PROVE TokensOfRequest'
  BY <1>12 DEF DeleteToken
<1>13. ASSUME NEW r \in Request, RemoveFromIndex(r) PROVE TokensOfRequest'
  BY <1>13 DEF RemoveFromIndex
<1>14. ASSUME NEW r \in Request, SetUsed(r) PROVE TokensOfRequest'
  BY <1>14 DEF SetUsed
<1>15. ASSUME NEW r \in Request, GetUsed(r) PROVE TokensOfRequest'
  BY <1>15 DEF GetUsed
<1>16. ASSUME NEW r \in Request, ReadIndex(r) PROVE TokensOfRequest'
  BY <1>16 DEF ReadIndex
<1>17. ASSUME NEW r \in Request, DeleteTokens(r) PROVE TokensOfRequest'
  BY <1>17 DEF DeleteTokens
<1>18. ASSUME NEW r \in Request, DeleteIndex(r) PROVE TokensOfRequest'
  BY <1>18 DEF DeleteIndex
<1>19. ASSUME NEW r \in Request, Stamp(r) PROVE TokensOfRequest'
  BY <1>19 DEF Stamp
<1>20. ASSUME NEW r \in Request, SetMark(r) PROVE TokensOfRequest'
  BY <1>20 DEF SetMark
<1>21. ASSUME NEW r \in Request, Decode(r) PROVE TokensOfRequest'
  BY <1>21 DEF Decode
<1>22. ASSUME NEW r \in Request, CheckBlacklist(r) PROVE TokensOfRequest'
  BY <1>22 DEF CheckBlacklist
<1>23. ASSUME NEW r \in Request, CheckMark(r) PROVE TokensOfRequest'
  BY <1>23 DEF CheckMark
<1>24. ASSUME NEW r \in Request, CheckActive(r) PROVE TokensOfRequest'
  BY <1>24 DEF CheckActive
<1>25. ASSUME NEW r \in Request, DecodeAgain(r) PROVE TokensOfRequest'
  BY <1>25 DEF DecodeAgain
<1>26. ASSUME NEW r \in Request, LookUp(r) PROVE TokensOfRequest'
  <2>1. SUFFICES ASSUME NEW t \in Request PROVE TokensOfRequestAt(t)'
    OBVIOUS
  <2>2. rt[r] \in Request /\ Delivered(rt[r])
    BY <1>26 DEF LookUp
  <2>3. rt[r] # r /\ user'[rt[r]] = user[rt[r]]
    BY <1>26, <2>2 DEF LookUp
  <2>4. Get(refresh[rt[r]]) # None => Get(refresh[rt[r]]) = user[rt[r]]
    BY <2>2 DEF Live
  <2>5. CASE t = r
    BY <1>26, <2>2, <2>3, <2>4, <2>5 DEF LookUp
  <2>6. CASE t # r
    BY <1>26, <2>6 DEF LookUp
  <2> QED
    BY <2>5, <2>6
<1>27. ASSUME NEW r \in Request, LogoutRemove(r) PROVE TokensOfRequest'
  BY <1>27 DEF LogoutRemove
<1>28. ASSUME NEW r \in Request, LogoutDelete(r) PROVE TokensOfRequest'
  BY <1>28 DEF LogoutDelete
<1>29. ASSUME NEW r \in Request, Blacklist(r) PROVE TokensOfRequest'
  BY <1>29 DEF Blacklist
<1>30. ASSUME NEW r \in Request, Fail(r) PROVE TokensOfRequest'
  BY <1>30 DEF Fail
<1>31. ASSUME NEW u \in User, NEW status \in Admin, Disable(u, status)
      PROVE  TokensOfRequest'
  BY <1>31 DEF Disable
<1>32. CASE Tick
  BY <1>32 DEF Tick
<1>33. CASE UNCHANGED vars
  BY <1>33 DEF vars
<1> QED
  BY <1>1, <1>2, <1>3, <1>4, <1>5, <1>6, <1>7, <1>8, <1>9, <1>10, <1>11, <1>12, <1>13,
      <1>14, <1>15, <1>16, <1>17, <1>18, <1>19, <1>20, <1>21, <1>22, <1>23, <1>24,
      <1>25, <1>26, <1>27, <1>28, <1>29, <1>30, <1>31, <1>32, <1>33
  DEF Next, Arrival, Step, CreateStep, RotateStep, RevokeAllStep, BearerStep,
      LogoutStep, Quiescent

\* Nothing changes for a request once it has been answered or has failed.
LEMMA AnsweredIsFinal ==
  ASSUME TypeOK, WellFormed, [Next]_vars, NEW q \in Request, outcome[q] # None
  PROVE  /\ pc'[q] = pc[q] /\ outcome'[q] = outcome[q] /\ kind'[q] = kind[q]
         /\ rt'[q] = rt[q] /\ at'[q] = at[q] /\ before'[q] = before[q]
         /\ user'[q] = user[q] /\ jtis'[q] = jtis[q] /\ ts'[q] = ts[q] /\ ttl'[q] = ttl[q]
         /\ access'[q] = access[q]
<1> DEFINE Kept ==
         /\ pc'[q] = pc[q] /\ outcome'[q] = outcome[q] /\ kind'[q] = kind[q]
         /\ rt'[q] = rt[q] /\ at'[q] = at[q] /\ before'[q] = before[q]
         /\ user'[q] = user[q] /\ jtis'[q] = jtis[q] /\ ts'[q] = ts[q] /\ ttl'[q] = ttl[q]
         /\ access'[q] = access[q]
<1> SUFFICES Kept OBVIOUS
<1> USE TypeOK, WellFormed DEF TypeOK, WellFormed, WellFormedAt, Handling, Goto,
      Answer, keys,
      inputs, locals
<1>1. ASSUME NEW r \in Request, NEW u \in User, ArriveLogin(r, u)
      PROVE  Kept
  BY <1>1 DEF ArriveLogin, Arrive
<1>2. ASSUME NEW r \in Request, NEW t \in Request, ArriveRefresh(r, t)
      PROVE  Kept
  BY <1>2 DEF ArriveRefresh, Arrive
<1>3. ASSUME NEW r \in Request, NEW a \in Request, ArriveMe(r, a)
      PROVE  Kept
  BY <1>3 DEF ArriveMe, Arrive
<1>4. ASSUME NEW r \in Request, NEW a \in Request, NEW t \in Request,
             ArriveLogout(r, a, t)
      PROVE  Kept
  BY <1>4 DEF ArriveLogout, Arrive
<1>5. ASSUME NEW r \in Request, Authenticate(r) PROVE Kept
  BY <1>5 DEF Authenticate
<1>6. ASSUME NEW r \in Request, SetToken(r) PROVE Kept
  BY <1>6 DEF SetToken
<1>7. ASSUME NEW r \in Request, AddToIndex(r) PROVE Kept
  BY <1>7 DEF AddToIndex
<1>8. ASSUME NEW r \in Request, ExpireIndex(r) PROVE Kept
  BY <1>8 DEF ExpireIndex
<1>9. ASSUME NEW r \in Request, Mint(r) PROVE Kept
  BY <1>9 DEF Mint
<1>10. ASSUME NEW r \in Request, GetToken(r) PROVE Kept
  BY <1>10 DEF GetToken
<1>11. ASSUME NEW r \in Request, LoadUser(r) PROVE Kept
  BY <1>11 DEF LoadUser
<1>12. ASSUME NEW r \in Request, DeleteToken(r) PROVE Kept
  BY <1>12 DEF DeleteToken
<1>13. ASSUME NEW r \in Request, RemoveFromIndex(r) PROVE Kept
  BY <1>13 DEF RemoveFromIndex
<1>14. ASSUME NEW r \in Request, SetUsed(r) PROVE Kept
  BY <1>14 DEF SetUsed
<1>15. ASSUME NEW r \in Request, GetUsed(r) PROVE Kept
  BY <1>15 DEF GetUsed
<1>16. ASSUME NEW r \in Request, ReadIndex(r) PROVE Kept
  BY <1>16 DEF ReadIndex
<1>17. ASSUME NEW r \in Request, DeleteTokens(r) PROVE Kept
  BY <1>17 DEF DeleteTokens
<1>18. ASSUME NEW r \in Request, DeleteIndex(r) PROVE Kept
  BY <1>18 DEF DeleteIndex
<1>19. ASSUME NEW r \in Request, Stamp(r) PROVE Kept
  BY <1>19 DEF Stamp
<1>20. ASSUME NEW r \in Request, SetMark(r) PROVE Kept
  BY <1>20 DEF SetMark
<1>21. ASSUME NEW r \in Request, Decode(r) PROVE Kept
  BY <1>21 DEF Decode
<1>22. ASSUME NEW r \in Request, CheckBlacklist(r) PROVE Kept
  BY <1>22 DEF CheckBlacklist
<1>23. ASSUME NEW r \in Request, CheckMark(r) PROVE Kept
  BY <1>23 DEF CheckMark
<1>24. ASSUME NEW r \in Request, CheckActive(r) PROVE Kept
  BY <1>24 DEF CheckActive
<1>25. ASSUME NEW r \in Request, DecodeAgain(r) PROVE Kept
  BY <1>25 DEF DecodeAgain
<1>26. ASSUME NEW r \in Request, LookUp(r) PROVE Kept
  BY <1>26 DEF LookUp
<1>27. ASSUME NEW r \in Request, LogoutRemove(r) PROVE Kept
  BY <1>27 DEF LogoutRemove
<1>28. ASSUME NEW r \in Request, LogoutDelete(r) PROVE Kept
  BY <1>28 DEF LogoutDelete
<1>29. ASSUME NEW r \in Request, Blacklist(r) PROVE Kept
  BY <1>29 DEF Blacklist
<1>30. ASSUME NEW r \in Request, Fail(r) PROVE Kept
  BY <1>30 DEF Fail
<1>31. ASSUME NEW u \in User, NEW status \in Admin, Disable(u, status)
      PROVE  Kept
  BY <1>31 DEF Disable
<1>32. CASE Tick
  BY <1>32 DEF Tick
<1>33. CASE UNCHANGED vars
  BY <1>33 DEF vars
<1> QED
  BY <1>1, <1>2, <1>3, <1>4, <1>5, <1>6, <1>7, <1>8, <1>9, <1>10, <1>11, <1>12, <1>13,
      <1>14, <1>15, <1>16, <1>17, <1>18, <1>19, <1>20, <1>21, <1>22, <1>23, <1>24,
      <1>25, <1>26, <1>27, <1>28, <1>29, <1>30, <1>31, <1>32, <1>33
  DEF Next, Arrival, Step, CreateStep, RotateStep, RevokeAllStep, BearerStep,
      LogoutStep, Quiescent

\* A delivered refresh token that is dead stays dead, and a replay marker is
\* never removed: only SetToken writes a token, and only before delivery.
LEMMA NotRevived ==
  ASSUME TypeOK, WellFormed, TokensOfRequest, [Next]_vars, NEW t \in Request, Delivered(t)
  PROVE  /\ ~Live(refresh[t]) => ~Live(refresh[t])'
         /\ used[t] # None => used'[t] # None
<1> DEFINE Kept == (refresh'[t] = refresh[t] \/ refresh'[t] = None)
                   /\ (used[t] # None => used'[t] # None) /\ now' \in Nat /\ now <= now'
<1> SUFFICES Kept 
  BY DEF Live, TypeOK, Key
<1> USE TypeOK, TokensOfRequest DEF TypeOK, TokensOfRequest, TokensOfRequestAt,
      Delivered,
      keys, Handling
<1>1. ASSUME NEW r \in Request, NEW u \in User, ArriveLogin(r, u)
      PROVE  Kept
  BY <1>1 DEF ArriveLogin, Arrive
<1>2. ASSUME NEW r \in Request, NEW b \in Request, ArriveRefresh(r, b)
      PROVE  Kept
  BY <1>2 DEF ArriveRefresh, Arrive
<1>3. ASSUME NEW r \in Request, NEW a \in Request, ArriveMe(r, a)
      PROVE  Kept
  BY <1>3 DEF ArriveMe, Arrive
<1>4. ASSUME NEW r \in Request, NEW a \in Request, NEW b \in Request,
             ArriveLogout(r, a, b)
      PROVE  Kept
  BY <1>4 DEF ArriveLogout, Arrive
<1>5. ASSUME NEW r \in Request, Authenticate(r) PROVE Kept
  BY <1>5 DEF Authenticate
<1>6. ASSUME NEW r \in Request, SetToken(r) PROVE Kept
  BY <1>6 DEF SetToken
<1>7. ASSUME NEW r \in Request, AddToIndex(r) PROVE Kept
  BY <1>7 DEF AddToIndex
<1>8. ASSUME NEW r \in Request, ExpireIndex(r) PROVE Kept
  BY <1>8 DEF ExpireIndex
<1>9. ASSUME NEW r \in Request, Mint(r) PROVE Kept
  BY <1>9 DEF Mint
<1>10. ASSUME NEW r \in Request, GetToken(r) PROVE Kept
  BY <1>10 DEF GetToken
<1>11. ASSUME NEW r \in Request, LoadUser(r) PROVE Kept
  BY <1>11 DEF LoadUser
<1>12. ASSUME NEW r \in Request, DeleteToken(r) PROVE Kept
  BY <1>12 DEF DeleteToken
<1>13. ASSUME NEW r \in Request, RemoveFromIndex(r) PROVE Kept
  BY <1>13 DEF RemoveFromIndex
<1>14. ASSUME NEW r \in Request, SetUsed(r) PROVE Kept
  <2>1. [user |-> user[r], exp |-> now + UsedTTL] \in Key
    BY <1>14, ConstantTypes DEF SetUsed, WellFormed, WellFormedAt, UserKnown, Key
  <2> QED
    BY <1>14, <2>1, ConstantTypes DEF SetUsed
<1>15. ASSUME NEW r \in Request, GetUsed(r) PROVE Kept
  BY <1>15 DEF GetUsed
<1>16. ASSUME NEW r \in Request, ReadIndex(r) PROVE Kept
  BY <1>16 DEF ReadIndex
<1>17. ASSUME NEW r \in Request, DeleteTokens(r) PROVE Kept
  BY <1>17 DEF DeleteTokens
<1>18. ASSUME NEW r \in Request, DeleteIndex(r) PROVE Kept
  BY <1>18 DEF DeleteIndex
<1>19. ASSUME NEW r \in Request, Stamp(r) PROVE Kept
  BY <1>19 DEF Stamp
<1>20. ASSUME NEW r \in Request, SetMark(r) PROVE Kept
  BY <1>20 DEF SetMark
<1>21. ASSUME NEW r \in Request, Decode(r) PROVE Kept
  BY <1>21 DEF Decode
<1>22. ASSUME NEW r \in Request, CheckBlacklist(r) PROVE Kept
  BY <1>22 DEF CheckBlacklist
<1>23. ASSUME NEW r \in Request, CheckMark(r) PROVE Kept
  BY <1>23 DEF CheckMark
<1>24. ASSUME NEW r \in Request, CheckActive(r) PROVE Kept
  BY <1>24 DEF CheckActive
<1>25. ASSUME NEW r \in Request, DecodeAgain(r) PROVE Kept
  BY <1>25 DEF DecodeAgain
<1>26. ASSUME NEW r \in Request, LookUp(r) PROVE Kept
  BY <1>26 DEF LookUp
<1>27. ASSUME NEW r \in Request, LogoutRemove(r) PROVE Kept
  BY <1>27 DEF LogoutRemove
<1>28. ASSUME NEW r \in Request, LogoutDelete(r) PROVE Kept
  BY <1>28 DEF LogoutDelete
<1>29. ASSUME NEW r \in Request, Blacklist(r) PROVE Kept
  BY <1>29 DEF Blacklist
<1>30. ASSUME NEW r \in Request, Fail(r) PROVE Kept
  BY <1>30 DEF Fail
<1>31. ASSUME NEW u \in User, NEW status \in Admin, Disable(u, status)
      PROVE  Kept
  BY <1>31 DEF Disable
<1>32. CASE Tick
  BY <1>32 DEF Tick
<1>33. CASE UNCHANGED vars
  BY <1>33 DEF vars
<1> QED
  BY <1>1, <1>2, <1>3, <1>4, <1>5, <1>6, <1>7, <1>8, <1>9, <1>10, <1>11, <1>12, <1>13,
      <1>14, <1>15, <1>16, <1>17, <1>18, <1>19, <1>20, <1>21, <1>22, <1>23, <1>24,
      <1>25, <1>26, <1>27, <1>28, <1>29, <1>30, <1>31, <1>32, <1>33
  DEF Next, Arrival, Step, CreateStep, RotateStep, RevokeAllStep, BearerStep,
      LogoutStep, Quiescent

\* What was before a request stays answered, or disabled.
LEMMA BeforeStep == TypeOK /\ WellFormed /\ BeforeStable /\ [Next]_vars => BeforeStable'
<1> SUFFICES ASSUME TypeOK, WellFormed, BeforeStable, [Next]_vars PROVE BeforeStable'
  OBVIOUS
<1> USE TypeOK, BeforeStable, ConstantTypes DEF TypeOK, BeforeStable, Answered,
      Outcomes,
      Handling, Goto, Answer, keys, inputs, locals
<1>1. ASSUME NEW r \in Request, NEW u \in User, ArriveLogin(r, u)
      PROVE  BeforeStable'
  BY <1>1 DEF ArriveLogin, Arrive
<1>2. ASSUME NEW r \in Request, NEW t \in Request, ArriveRefresh(r, t)
      PROVE  BeforeStable'
  BY <1>2 DEF ArriveRefresh, Arrive
<1>3. ASSUME NEW r \in Request, NEW a \in Request, ArriveMe(r, a)
      PROVE  BeforeStable'
  BY <1>3 DEF ArriveMe, Arrive
<1>4. ASSUME NEW r \in Request, NEW a \in Request, NEW t \in Request,
             ArriveLogout(r, a, t)
      PROVE  BeforeStable'
  BY <1>4 DEF ArriveLogout, Arrive
<1>5. ASSUME NEW r \in Request, Authenticate(r) PROVE BeforeStable'
  BY <1>5 DEF Authenticate
<1>6. ASSUME NEW r \in Request, SetToken(r) PROVE BeforeStable'
  BY <1>6 DEF SetToken
<1>7. ASSUME NEW r \in Request, AddToIndex(r) PROVE BeforeStable'
  BY <1>7 DEF AddToIndex
<1>8. ASSUME NEW r \in Request, ExpireIndex(r) PROVE BeforeStable'
  BY <1>8 DEF ExpireIndex
<1>9. ASSUME NEW r \in Request, Mint(r) PROVE BeforeStable'
  BY <1>9 DEF Mint
<1>10. ASSUME NEW r \in Request, GetToken(r) PROVE BeforeStable'
  BY <1>10 DEF GetToken
<1>11. ASSUME NEW r \in Request, LoadUser(r) PROVE BeforeStable'
  BY <1>11 DEF LoadUser
<1>12. ASSUME NEW r \in Request, DeleteToken(r) PROVE BeforeStable'
  BY <1>12 DEF DeleteToken
<1>13. ASSUME NEW r \in Request, RemoveFromIndex(r) PROVE BeforeStable'
  BY <1>13 DEF RemoveFromIndex
<1>14. ASSUME NEW r \in Request, SetUsed(r) PROVE BeforeStable'
  BY <1>14 DEF SetUsed
<1>15. ASSUME NEW r \in Request, GetUsed(r) PROVE BeforeStable'
  BY <1>15 DEF GetUsed
<1>16. ASSUME NEW r \in Request, ReadIndex(r) PROVE BeforeStable'
  BY <1>16 DEF ReadIndex
<1>17. ASSUME NEW r \in Request, DeleteTokens(r) PROVE BeforeStable'
  BY <1>17 DEF DeleteTokens
<1>18. ASSUME NEW r \in Request, DeleteIndex(r) PROVE BeforeStable'
  BY <1>18 DEF DeleteIndex
<1>19. ASSUME NEW r \in Request, Stamp(r) PROVE BeforeStable'
  BY <1>19 DEF Stamp
<1>20. ASSUME NEW r \in Request, SetMark(r) PROVE BeforeStable'
  BY <1>20 DEF SetMark
<1>21. ASSUME NEW r \in Request, Decode(r) PROVE BeforeStable'
  BY <1>21 DEF Decode
<1>22. ASSUME NEW r \in Request, CheckBlacklist(r) PROVE BeforeStable'
  BY <1>22 DEF CheckBlacklist
<1>23. ASSUME NEW r \in Request, CheckMark(r) PROVE BeforeStable'
  BY <1>23 DEF CheckMark
<1>24. ASSUME NEW r \in Request, CheckActive(r) PROVE BeforeStable'
  BY <1>24 DEF CheckActive
<1>25. ASSUME NEW r \in Request, DecodeAgain(r) PROVE BeforeStable'
  BY <1>25 DEF DecodeAgain
<1>26. ASSUME NEW r \in Request, LookUp(r) PROVE BeforeStable'
  BY <1>26 DEF LookUp
<1>27. ASSUME NEW r \in Request, LogoutRemove(r) PROVE BeforeStable'
  BY <1>27 DEF LogoutRemove
<1>28. ASSUME NEW r \in Request, LogoutDelete(r) PROVE BeforeStable'
  BY <1>28 DEF LogoutDelete
<1>29. ASSUME NEW r \in Request, Blacklist(r) PROVE BeforeStable'
  BY <1>29 DEF Blacklist
<1>30. ASSUME NEW r \in Request, Fail(r) PROVE BeforeStable'
  BY <1>30 DEF Fail
<1>31. ASSUME NEW u \in User, NEW status \in Admin, Disable(u, status)
      PROVE  BeforeStable'
  BY <1>31 DEF Disable
<1>32. CASE Tick
  BY <1>32 DEF Tick
<1>33. CASE UNCHANGED vars
  BY <1>33 DEF vars
<1> QED
  BY <1>1, <1>2, <1>3, <1>4, <1>5, <1>6, <1>7, <1>8, <1>9, <1>10, <1>11, <1>12, <1>13,
      <1>14, <1>15, <1>16, <1>17, <1>18, <1>19, <1>20, <1>21, <1>22, <1>23, <1>24,
      <1>25, <1>26, <1>27, <1>28, <1>29, <1>30, <1>31, <1>32, <1>33
  DEF Next, Arrival, Step, CreateStep, RotateStep, RevokeAllStep, BearerStep,
      LogoutStep, Quiescent

\* Rotation and logout leave the token they used up dead.
LEMMA SpentIsDeadStep ==
  TypeOK /\ WellFormed /\ TokensOfRequest /\ SpentIsDead /\ [Next]_vars => SpentIsDead'
<1> SUFFICES ASSUME TypeOK, WellFormed, TokensOfRequest, SpentIsDead, [Next]_vars,
                    NEW q \in Request
             PROVE  SpentIsDeadAt(q)'
  BY DEF SpentIsDead
<1>0. \A t \in Request :
        Delivered(t) => /\ ~Live(refresh[t]) => ~Live(refresh[t])'
                        /\ used[t] # None => used'[t] # None
  BY NotRevived
<1> USE <1>0, TypeOK, WellFormed, SpentIsDead, ConstantTypes DEF TypeOK, SpentIsDead,
      SpentIsDeadAt, Rotated, WellFormed, WellFormedAt, UserKnown, Creating, Rotating,
      Revoking, Bearing, LoggingOut, Handling, Goto, Answer, keys, inputs, locals,
      Outcomes
<1>1. ASSUME NEW r \in Request, NEW u \in User, ArriveLogin(r, u)
      PROVE  SpentIsDeadAt(q)'
  BY <1>1 DEF ArriveLogin, Arrive
<1>2. ASSUME NEW r \in Request, NEW t \in Request, ArriveRefresh(r, t)
      PROVE  SpentIsDeadAt(q)'
  <2>1. CASE q = r
    BY <1>2, <2>1 DEF ArriveRefresh, Arrive
  <2>2. CASE q # r
    BY <1>2, <2>2 DEF ArriveRefresh, Arrive
  <2> QED
    BY <2>1, <2>2
<1>3. ASSUME NEW r \in Request, NEW a \in Request, ArriveMe(r, a)
      PROVE  SpentIsDeadAt(q)'
  BY <1>3 DEF ArriveMe, Arrive
<1>4. ASSUME NEW r \in Request, NEW a \in Request, NEW t \in Request,
             ArriveLogout(r, a, t)
      PROVE  SpentIsDeadAt(q)'
  <2>1. CASE q = r
    BY <1>4, <2>1 DEF ArriveLogout, Arrive
  <2>2. CASE q # r
    BY <1>4, <2>2 DEF ArriveLogout, Arrive
  <2> QED
    BY <2>1, <2>2
<1>5. ASSUME NEW r \in Request, Authenticate(r) PROVE SpentIsDeadAt(q)'
  BY <1>5 DEF Authenticate
<1>6. ASSUME NEW r \in Request, SetToken(r) PROVE SpentIsDeadAt(q)'
  BY <1>6 DEF SetToken
<1>7. ASSUME NEW r \in Request, AddToIndex(r) PROVE SpentIsDeadAt(q)'
  BY <1>7 DEF AddToIndex
<1>8. ASSUME NEW r \in Request, ExpireIndex(r) PROVE SpentIsDeadAt(q)'
  BY <1>8 DEF ExpireIndex
<1>9. ASSUME NEW r \in Request, Mint(r) PROVE SpentIsDeadAt(q)'
  BY <1>9 DEF Mint
<1>10. ASSUME NEW r \in Request, GetToken(r) PROVE SpentIsDeadAt(q)'
  <2>1. CASE q = r
    BY <1>10, <2>1 DEF GetToken, Get
  <2>2. CASE q # r
    BY <1>10, <2>2 DEF GetToken
  <2> QED
    BY <2>1, <2>2
<1>11. ASSUME NEW r \in Request, LoadUser(r) PROVE SpentIsDeadAt(q)'
  BY <1>11 DEF LoadUser
<1>12. ASSUME NEW r \in Request, DeleteToken(r) PROVE SpentIsDeadAt(q)'
  <2>1. CASE q = r
    BY <1>12, <2>1 DEF DeleteToken, Live
  <2>2. CASE q # r
    BY <1>12, <2>2 DEF DeleteToken
  <2> QED
    BY <2>1, <2>2
<1>13. ASSUME NEW r \in Request, RemoveFromIndex(r) PROVE SpentIsDeadAt(q)'
  BY <1>13 DEF RemoveFromIndex
<1>14. ASSUME NEW r \in Request, SetUsed(r) PROVE SpentIsDeadAt(q)'
  <2>1. CASE q = r
    BY <1>14, <2>1 DEF SetUsed, Key
  <2>2. CASE q # r
    BY <1>14, <2>2 DEF SetUsed
  <2> QED
    BY <2>1, <2>2
<1>15. ASSUME NEW r \in Request, GetUsed(r) PROVE SpentIsDeadAt(q)'
  BY <1>15 DEF GetUsed
<1>16. ASSUME NEW r \in Request, ReadIndex(r) PROVE SpentIsDeadAt(q)'
  BY <1>16 DEF ReadIndex
<1>17. ASSUME NEW r \in Request, DeleteTokens(r) PROVE SpentIsDeadAt(q)'
  BY <1>17 DEF DeleteTokens
<1>18. ASSUME NEW r \in Request, DeleteIndex(r) PROVE SpentIsDeadAt(q)'
  BY <1>18 DEF DeleteIndex
<1>19. ASSUME NEW r \in Request, Stamp(r) PROVE SpentIsDeadAt(q)'
  BY <1>19 DEF Stamp
<1>20. ASSUME NEW r \in Request, SetMark(r) PROVE SpentIsDeadAt(q)'
  BY <1>20 DEF SetMark
<1>21. ASSUME NEW r \in Request, Decode(r) PROVE SpentIsDeadAt(q)'
  BY <1>21 DEF Decode
<1>22. ASSUME NEW r \in Request, CheckBlacklist(r) PROVE SpentIsDeadAt(q)'
  BY <1>22 DEF CheckBlacklist
<1>23. ASSUME NEW r \in Request, CheckMark(r) PROVE SpentIsDeadAt(q)'
  BY <1>23 DEF CheckMark
<1>24. ASSUME NEW r \in Request, CheckActive(r) PROVE SpentIsDeadAt(q)'
  BY <1>24 DEF CheckActive
<1>25. ASSUME NEW r \in Request, DecodeAgain(r) PROVE SpentIsDeadAt(q)'
  BY <1>25 DEF DecodeAgain
<1>26. ASSUME NEW r \in Request, LookUp(r) PROVE SpentIsDeadAt(q)'
  <2>1. CASE q = r
    BY <1>26, <2>1 DEF LookUp, Get, Live, Key
  <2>2. CASE q # r
    BY <1>26, <2>2 DEF LookUp
  <2> QED
    BY <2>1, <2>2
<1>27. ASSUME NEW r \in Request, LogoutRemove(r) PROVE SpentIsDeadAt(q)'
  BY <1>27 DEF LogoutRemove
<1>28. ASSUME NEW r \in Request, LogoutDelete(r) PROVE SpentIsDeadAt(q)'
  <2>1. CASE q = r
    BY <1>28, <2>1 DEF LogoutDelete, Live
  <2>2. CASE q # r
    BY <1>28, <2>2 DEF LogoutDelete
  <2> QED
    BY <2>1, <2>2
<1>29. ASSUME NEW r \in Request, Blacklist(r) PROVE SpentIsDeadAt(q)'
  BY <1>29 DEF Blacklist
<1>30. ASSUME NEW r \in Request, Fail(r) PROVE SpentIsDeadAt(q)'
  BY <1>30 DEF Fail
<1>31. ASSUME NEW u \in User, NEW status \in Admin, Disable(u, status)
      PROVE  SpentIsDeadAt(q)'
  BY <1>31 DEF Disable
<1>32. CASE Tick
  BY <1>32 DEF Tick
<1>33. CASE UNCHANGED vars
  BY <1>33 DEF vars
<1> QED
  BY <1>1, <1>2, <1>3, <1>4, <1>5, <1>6, <1>7, <1>8, <1>9, <1>10, <1>11, <1>12, <1>13,
      <1>14, <1>15, <1>16, <1>17, <1>18, <1>19, <1>20, <1>21, <1>22, <1>23, <1>24,
      <1>25, <1>26, <1>27, <1>28, <1>29, <1>30, <1>31, <1>32, <1>33
  DEF Next, Arrival, Step, CreateStep, RotateStep, RevokeAllStep, BearerStep,
      LogoutStep, Quiescent

\* A request that presents a spent token is stopped at its first GET.
LEMMA SpentIsStoppedStep ==
  TypeOK /\ WellFormed /\ TokensOfRequest /\ BeforeStable /\ SpentIsDead /\ SpentIsStopped
    /\ [Next]_vars => SpentIsStopped'
<1> DEFINE Stopped(s) == /\ pc[s] \notin {"get_user", "del"} \cup Rotated
                         /\ ~Is(s, "refresh", "ok")
<1> SUFFICES ASSUME TypeOK, WellFormed, TokensOfRequest, BeforeStable, SpentIsDead,
                    SpentIsStopped, [Next]_vars, NEW q \in Request, NEW s \in Request,
                    (q \in before[s])', Spent(q, rt[s])'
             PROVE  Stopped(s)'
  BY DEF SpentIsStopped
<1> USE TypeOK, WellFormed, BeforeStable, SpentIsDead, SpentIsStopped, ConstantTypes
      DEF
      TypeOK, BeforeStable, Answered, Spent, Is, SpentIsDead, SpentIsDeadAt,
      SpentIsStopped, Rotated, WellFormed, WellFormedAt, UserKnown, Creating,
      Rotating, Revoking, Bearing, LoggingOut, Handling, Goto, Answer, keys, inputs,
      locals
<1>1. ASSUME NEW r \in Request, NEW u \in User, ArriveLogin(r, u)
      PROVE  Stopped(s)'
  BY <1>1 DEF ArriveLogin, Arrive
<1>2. ASSUME NEW r \in Request, NEW t \in Request, ArriveRefresh(r, t)
      PROVE  Stopped(s)'
  BY <1>2 DEF ArriveRefresh, Arrive
<1>3. ASSUME NEW r \in Request, NEW a \in Request, ArriveMe(r, a)
      PROVE  Stopped(s)'
  BY <1>3 DEF ArriveMe, Arrive
<1>4. ASSUME NEW r \in Request, NEW a \in Request, NEW t \in Request,
             ArriveLogout(r, a, t)
      PROVE  Stopped(s)'
  BY <1>4 DEF ArriveLogout, Arrive
<1>5. ASSUME NEW r \in Request, Authenticate(r) PROVE Stopped(s)'
  BY <1>5 DEF Authenticate
<1>6. ASSUME NEW r \in Request, SetToken(r) PROVE Stopped(s)'
  BY <1>6 DEF SetToken
<1>7. ASSUME NEW r \in Request, AddToIndex(r) PROVE Stopped(s)'
  BY <1>7 DEF AddToIndex
<1>8. ASSUME NEW r \in Request, ExpireIndex(r) PROVE Stopped(s)'
  BY <1>8 DEF ExpireIndex
<1>9. ASSUME NEW r \in Request, Mint(r) PROVE Stopped(s)'
  BY <1>9 DEF Mint
<1>10. ASSUME NEW r \in Request, GetToken(r) PROVE Stopped(s)'
  <2>1. CASE s = r
    <3>1. q # r /\ rt'[s] = rt[s] /\ before'[s] = before[s]
      BY <1>10, <2>1 DEF GetToken
    <3>2. Spent(q, rt[s]) /\ ~Live(refresh[rt[s]])
      BY <1>10, <3>1 DEF GetToken
    <3> QED
      BY <1>10, <2>1, <3>1, <3>2 DEF GetToken, Get
  <2>2. CASE s # r
    BY <1>10, <2>2 DEF GetToken
  <2> QED
    BY <2>1, <2>2
<1>11. ASSUME NEW r \in Request, LoadUser(r) PROVE Stopped(s)'
  BY <1>11 DEF LoadUser
<1>12. ASSUME NEW r \in Request, DeleteToken(r) PROVE Stopped(s)'
  BY <1>12 DEF DeleteToken
<1>13. ASSUME NEW r \in Request, RemoveFromIndex(r) PROVE Stopped(s)'
  BY <1>13 DEF RemoveFromIndex
<1>14. ASSUME NEW r \in Request, SetUsed(r) PROVE Stopped(s)'
  BY <1>14 DEF SetUsed
<1>15. ASSUME NEW r \in Request, GetUsed(r) PROVE Stopped(s)'
  BY <1>15 DEF GetUsed
<1>16. ASSUME NEW r \in Request, ReadIndex(r) PROVE Stopped(s)'
  BY <1>16 DEF ReadIndex
<1>17. ASSUME NEW r \in Request, DeleteTokens(r) PROVE Stopped(s)'
  BY <1>17 DEF DeleteTokens
<1>18. ASSUME NEW r \in Request, DeleteIndex(r) PROVE Stopped(s)'
  BY <1>18 DEF DeleteIndex
<1>19. ASSUME NEW r \in Request, Stamp(r) PROVE Stopped(s)'
  BY <1>19 DEF Stamp
<1>20. ASSUME NEW r \in Request, SetMark(r) PROVE Stopped(s)'
  BY <1>20 DEF SetMark
<1>21. ASSUME NEW r \in Request, Decode(r) PROVE Stopped(s)'
  BY <1>21 DEF Decode
<1>22. ASSUME NEW r \in Request, CheckBlacklist(r) PROVE Stopped(s)'
  BY <1>22 DEF CheckBlacklist
<1>23. ASSUME NEW r \in Request, CheckMark(r) PROVE Stopped(s)'
  BY <1>23 DEF CheckMark
<1>24. ASSUME NEW r \in Request, CheckActive(r) PROVE Stopped(s)'
  BY <1>24 DEF CheckActive
<1>25. ASSUME NEW r \in Request, DecodeAgain(r) PROVE Stopped(s)'
  BY <1>25 DEF DecodeAgain
<1>26. ASSUME NEW r \in Request, LookUp(r) PROVE Stopped(s)'
  BY <1>26 DEF LookUp
<1>27. ASSUME NEW r \in Request, LogoutRemove(r) PROVE Stopped(s)'
  BY <1>27 DEF LogoutRemove
<1>28. ASSUME NEW r \in Request, LogoutDelete(r) PROVE Stopped(s)'
  BY <1>28 DEF LogoutDelete
<1>29. ASSUME NEW r \in Request, Blacklist(r) PROVE Stopped(s)'
  BY <1>29 DEF Blacklist
<1>30. ASSUME NEW r \in Request, Fail(r) PROVE Stopped(s)'
  BY <1>30 DEF Fail
<1>31. ASSUME NEW u \in User, NEW status \in Admin, Disable(u, status)
      PROVE  Stopped(s)'
  BY <1>31 DEF Disable
<1>32. CASE Tick
  BY <1>32 DEF Tick
<1>33. CASE UNCHANGED vars
  BY <1>33 DEF vars
<1> QED
  BY <1>1, <1>2, <1>3, <1>4, <1>5, <1>6, <1>7, <1>8, <1>9, <1>10, <1>11, <1>12, <1>13,
      <1>14, <1>15, <1>16, <1>17, <1>18, <1>19, <1>20, <1>21, <1>22, <1>23, <1>24,
      <1>25, <1>26, <1>27, <1>28, <1>29, <1>30, <1>31, <1>32, <1>33
  DEF Next, Arrival, Step, CreateStep, RotateStep, RevokeAllStep, BearerStep,
      LogoutStep, Quiescent

\* A later revocation never shortens the life of the marker.
LEMMA MarkLastsStep ==
  TypeOK /\ WellFormed /\ TokensOfRequest /\ MarkLasts /\ [Next]_vars => MarkLasts'
<1> SUFFICES ASSUME TypeOK, WellFormed, TokensOfRequest, MarkLasts, [Next]_vars
             PROVE  MarkLasts'
  OBVIOUS
<1> USE TypeOK, WellFormed, MarkLasts, ConstantTypes DEF TypeOK, MarkLasts, Is,
      Delivered,
      Mark, Jwt, WellFormed, WellFormedAt, UserKnown, Creating, Rotating, Revoking,
      Bearing, LoggingOut, Handling, Goto, Answer, keys, inputs, locals, Outcomes
<1>1. ASSUME NEW r \in Request, NEW u \in User, ArriveLogin(r, u)
      PROVE  MarkLasts'
  BY <1>1 DEF ArriveLogin, Arrive
<1>2. ASSUME NEW r \in Request, NEW t \in Request, ArriveRefresh(r, t)
      PROVE  MarkLasts'
  BY <1>2 DEF ArriveRefresh, Arrive
<1>3. ASSUME NEW r \in Request, NEW a \in Request, ArriveMe(r, a)
      PROVE  MarkLasts'
  BY <1>3 DEF ArriveMe, Arrive
<1>4. ASSUME NEW r \in Request, NEW a \in Request, NEW t \in Request,
             ArriveLogout(r, a, t)
      PROVE  MarkLasts'
  BY <1>4 DEF ArriveLogout, Arrive
<1>5. ASSUME NEW r \in Request, Authenticate(r) PROVE MarkLasts'
  BY <1>5 DEF Authenticate
<1>6. ASSUME NEW r \in Request, SetToken(r) PROVE MarkLasts'
  BY <1>6 DEF SetToken
<1>7. ASSUME NEW r \in Request, AddToIndex(r) PROVE MarkLasts'
  BY <1>7 DEF AddToIndex
<1>8. ASSUME NEW r \in Request, ExpireIndex(r) PROVE MarkLasts'
  BY <1>8 DEF ExpireIndex
<1>9. ASSUME NEW r \in Request, Mint(r) PROVE MarkLasts'
  <2>1. user[r] \in User /\ now + AccessTTL \in Nat
    BY <1>9 DEF Mint
  <2>2. /\ access'[r].iat = now
        /\ access'[r].exp <= now + AccessTTL
    BY <1>9, <2>1, WholeSecondBounds DEF Mint
  <2>3. \A a \in Request \ {r} : access'[a] = access[a]
    BY <1>9 DEF Mint
  <2>4. \A a \in Request : Delivered(a)' => access'[a].exp <= access'[a].iat + AccessTTL
    BY <2>2, <2>3
  <2>5. \A v \in Request : Is(v, "refresh", "revoked")' => Is(v, "refresh", "revoked")
    BY <1>9 DEF Mint
  <2> QED
    BY <1>9, <2>4, <2>5 DEF Mint
<1>10. ASSUME NEW r \in Request, GetToken(r) PROVE MarkLasts'
  BY <1>10 DEF GetToken
<1>11. ASSUME NEW r \in Request, LoadUser(r) PROVE MarkLasts'
  BY <1>11 DEF LoadUser
<1>12. ASSUME NEW r \in Request, DeleteToken(r) PROVE MarkLasts'
  BY <1>12 DEF DeleteToken
<1>13. ASSUME NEW r \in Request, RemoveFromIndex(r) PROVE MarkLasts'
  BY <1>13 DEF RemoveFromIndex
<1>14. ASSUME NEW r \in Request, SetUsed(r) PROVE MarkLasts'
  BY <1>14 DEF SetUsed
<1>15. ASSUME NEW r \in Request, GetUsed(r) PROVE MarkLasts'
  BY <1>15 DEF GetUsed
<1>16. ASSUME NEW r \in Request, ReadIndex(r) PROVE MarkLasts'
  BY <1>16 DEF ReadIndex
<1>17. ASSUME NEW r \in Request, DeleteTokens(r) PROVE MarkLasts'
  BY <1>17 DEF DeleteTokens
<1>18. ASSUME NEW r \in Request, DeleteIndex(r) PROVE MarkLasts'
  BY <1>18 DEF DeleteIndex
<1>19. ASSUME NEW r \in Request, Stamp(r) PROVE MarkLasts'
  BY <1>19 DEF Stamp
<1>20. ASSUME NEW r \in Request, SetMark(r) PROVE MarkLasts'
  BY <1>20 DEF SetMark
<1>21. ASSUME NEW r \in Request, Decode(r) PROVE MarkLasts'
  BY <1>21 DEF Decode
<1>22. ASSUME NEW r \in Request, CheckBlacklist(r) PROVE MarkLasts'
  BY <1>22 DEF CheckBlacklist
<1>23. ASSUME NEW r \in Request, CheckMark(r) PROVE MarkLasts'
  BY <1>23 DEF CheckMark
<1>24. ASSUME NEW r \in Request, CheckActive(r) PROVE MarkLasts'
  BY <1>24 DEF CheckActive
<1>25. ASSUME NEW r \in Request, DecodeAgain(r) PROVE MarkLasts'
  BY <1>25 DEF DecodeAgain
<1>26. ASSUME NEW r \in Request, LookUp(r) PROVE MarkLasts'
  BY <1>26 DEF LookUp
<1>27. ASSUME NEW r \in Request, LogoutRemove(r) PROVE MarkLasts'
  BY <1>27 DEF LogoutRemove
<1>28. ASSUME NEW r \in Request, LogoutDelete(r) PROVE MarkLasts'
  BY <1>28 DEF LogoutDelete
<1>29. ASSUME NEW r \in Request, Blacklist(r) PROVE MarkLasts'
  BY <1>29 DEF Blacklist
<1>30. ASSUME NEW r \in Request, Fail(r) PROVE MarkLasts'
  BY <1>30 DEF Fail
<1>31. ASSUME NEW u \in User, NEW status \in Admin, Disable(u, status)
      PROVE  MarkLasts'
  BY <1>31 DEF Disable
<1>32. CASE Tick
  BY <1>32 DEF Tick
<1>33. CASE UNCHANGED vars
  BY <1>33 DEF vars
<1> QED
  BY <1>1, <1>2, <1>3, <1>4, <1>5, <1>6, <1>7, <1>8, <1>9, <1>10, <1>11, <1>12, <1>13,
      <1>14, <1>15, <1>16, <1>17, <1>18, <1>19, <1>20, <1>21, <1>22, <1>23, <1>24,
      <1>25, <1>26, <1>27, <1>28, <1>29, <1>30, <1>31, <1>32, <1>33
  DEF Next, Arrival, Step, CreateStep, RotateStep, RevokeAllStep, BearerStep,
      LogoutStep, Quiescent

\* The blacklist entry is at least as long as the rounded lifetime.
LEMMA BlacklistLastsStep ==
  TypeOK /\ WellFormed /\ TokensOfRequest /\ BlacklistLasts /\ [Next]_vars => BlacklistLasts'
<1> SUFFICES ASSUME TypeOK, WellFormed, TokensOfRequest, BlacklistLasts, [Next]_vars,
                    NEW q \in Request
             PROVE  BlacklistLastsAt(q)'
  BY DEF BlacklistLasts
<1>0. \A a \in Request : Delivered(a) => access'[a] = access[a] /\ access[a] \in Jwt
  BY AnsweredIsFinal, ConstantTypes DEF TokensOfRequest, TokensOfRequestAt, TypeOK,
     Delivered
<1> USE <1>0, TypeOK, WellFormed, BlacklistLasts, ConstantTypes DEF TypeOK,
      BlacklistLasts,
      BlacklistLastsAt, Is, Delivered, Jwt, WellFormed, WellFormedAt, UserKnown,
      Creating, Rotating, Revoking, Bearing, LoggingOut, Handling, Goto, Answer, keys,
      inputs, locals, Outcomes
<1>1. ASSUME NEW r \in Request, NEW u \in User, ArriveLogin(r, u)
      PROVE  BlacklistLastsAt(q)'
  BY <1>1 DEF ArriveLogin, Arrive
<1>2. ASSUME NEW r \in Request, NEW t \in Request, ArriveRefresh(r, t)
      PROVE  BlacklistLastsAt(q)'
  BY <1>2 DEF ArriveRefresh, Arrive
<1>3. ASSUME NEW r \in Request, NEW a \in Request, ArriveMe(r, a)
      PROVE  BlacklistLastsAt(q)'
  BY <1>3 DEF ArriveMe, Arrive
<1>4. ASSUME NEW r \in Request, NEW a \in Request, NEW t \in Request,
             ArriveLogout(r, a, t)
      PROVE  BlacklistLastsAt(q)'
  BY <1>4 DEF ArriveLogout, Arrive
<1>5. ASSUME NEW r \in Request, Authenticate(r) PROVE BlacklistLastsAt(q)'
  BY <1>5 DEF Authenticate
<1>6. ASSUME NEW r \in Request, SetToken(r) PROVE BlacklistLastsAt(q)'
  BY <1>6 DEF SetToken
<1>7. ASSUME NEW r \in Request, AddToIndex(r) PROVE BlacklistLastsAt(q)'
  BY <1>7 DEF AddToIndex
<1>8. ASSUME NEW r \in Request, ExpireIndex(r) PROVE BlacklistLastsAt(q)'
  BY <1>8 DEF ExpireIndex
<1>9. ASSUME NEW r \in Request, Mint(r) PROVE BlacklistLastsAt(q)'
  BY <1>9 DEF Mint
<1>10. ASSUME NEW r \in Request, GetToken(r) PROVE BlacklistLastsAt(q)'
  BY <1>10 DEF GetToken
<1>11. ASSUME NEW r \in Request, LoadUser(r) PROVE BlacklistLastsAt(q)'
  BY <1>11 DEF LoadUser
<1>12. ASSUME NEW r \in Request, DeleteToken(r) PROVE BlacklistLastsAt(q)'
  BY <1>12 DEF DeleteToken
<1>13. ASSUME NEW r \in Request, RemoveFromIndex(r) PROVE BlacklistLastsAt(q)'
  BY <1>13 DEF RemoveFromIndex
<1>14. ASSUME NEW r \in Request, SetUsed(r) PROVE BlacklistLastsAt(q)'
  BY <1>14 DEF SetUsed
<1>15. ASSUME NEW r \in Request, GetUsed(r) PROVE BlacklistLastsAt(q)'
  BY <1>15 DEF GetUsed
<1>16. ASSUME NEW r \in Request, ReadIndex(r) PROVE BlacklistLastsAt(q)'
  BY <1>16 DEF ReadIndex
<1>17. ASSUME NEW r \in Request, DeleteTokens(r) PROVE BlacklistLastsAt(q)'
  BY <1>17 DEF DeleteTokens
<1>18. ASSUME NEW r \in Request, DeleteIndex(r) PROVE BlacklistLastsAt(q)'
  BY <1>18 DEF DeleteIndex
<1>19. ASSUME NEW r \in Request, Stamp(r) PROVE BlacklistLastsAt(q)'
  BY <1>19 DEF Stamp
<1>20. ASSUME NEW r \in Request, SetMark(r) PROVE BlacklistLastsAt(q)'
  BY <1>20 DEF SetMark
<1>21. ASSUME NEW r \in Request, Decode(r) PROVE BlacklistLastsAt(q)'
  BY <1>21 DEF Decode
<1>22. ASSUME NEW r \in Request, CheckBlacklist(r) PROVE BlacklistLastsAt(q)'
  BY <1>22 DEF CheckBlacklist
<1>23. ASSUME NEW r \in Request, CheckMark(r) PROVE BlacklistLastsAt(q)'
  BY <1>23 DEF CheckMark
<1>24. ASSUME NEW r \in Request, CheckActive(r) PROVE BlacklistLastsAt(q)'
  BY <1>24 DEF CheckActive
<1>25. ASSUME NEW r \in Request, DecodeAgain(r) PROVE BlacklistLastsAt(q)'
  <2>1. at[r] \in Request /\ access[at[r]] \in Jwt
    BY <1>25 DEF DecodeAgain
  <2>2. access[at[r]].exp \in Nat /\ now \in Nat
    BY <2>1
  <2>3. now + ttl'[r] > access[at[r]].exp - Second
    <3>1. CASE now < access[at[r]].exp
      <4>1. access[at[r]].exp - now \in Nat
        BY <2>2, <3>1
      <4>2. access[at[r]].exp - now < ttl'[r] + Second /\ ttl'[r] \in Nat
        BY <1>25, <3>1, <4>1, WholeSecondBounds DEF DecodeAgain
      <4> QED
        BY <2>2, <4>2
    <3>2. CASE ~(now < access[at[r]].exp)
      <4>1. ttl'[r] = 0
        BY <1>25, <3>2 DEF DecodeAgain
      <4> QED
        BY <2>2, <3>2, <4>1
    <3> QED
      BY <3>1, <3>2
  <2>4. CASE q = r
    BY <1>25, <2>3, <2>4 DEF DecodeAgain
  <2>5. CASE q # r
    BY <1>25, <2>5 DEF DecodeAgain
  <2> QED
    BY <2>4, <2>5
<1>26. ASSUME NEW r \in Request, LookUp(r) PROVE BlacklistLastsAt(q)'
  BY <1>26 DEF LookUp
<1>27. ASSUME NEW r \in Request, LogoutRemove(r) PROVE BlacklistLastsAt(q)'
  BY <1>27 DEF LogoutRemove
<1>28. ASSUME NEW r \in Request, LogoutDelete(r) PROVE BlacklistLastsAt(q)'
  BY <1>28 DEF LogoutDelete
<1>29. ASSUME NEW r \in Request, Blacklist(r) PROVE BlacklistLastsAt(q)'
  <2>1. at[r] \in Request /\ access[at[r]] \in Jwt
    BY <1>29 DEF Blacklist
  <2>2. /\ now \in Nat /\ ttl[r] \in Nat /\ access[at[r]].exp \in Nat
        /\ now + ttl[r] > access[at[r]].exp - Second
    BY <1>29, <2>1 DEF Blacklist
  <2>3. \/ blacklist'[at[r]] > access[at[r]].exp - Second
        \/ now > access[at[r]].exp - Second
    BY <1>29, <2>1, <2>2 DEF Blacklist
  <2>4. \A a \in Request \ {at[r]} : blacklist'[a] = blacklist[a]
    BY <1>29 DEF Blacklist
  <2>5. CASE q = r
    BY <1>29, <2>1, <2>3, <2>5 DEF Blacklist, Labels
  <2>6. CASE q # r
    BY <1>29, <2>1, <2>3, <2>4, <2>6 DEF Blacklist
  <2> QED
    BY <2>5, <2>6
<1>30. ASSUME NEW r \in Request, Fail(r) PROVE BlacklistLastsAt(q)'
  BY <1>30 DEF Fail
<1>31. ASSUME NEW u \in User, NEW status \in Admin, Disable(u, status)
      PROVE  BlacklistLastsAt(q)'
  BY <1>31 DEF Disable
<1>32. CASE Tick
  BY <1>32 DEF Tick
<1>33. CASE UNCHANGED vars
  BY <1>33 DEF vars
<1> QED
  BY <1>1, <1>2, <1>3, <1>4, <1>5, <1>6, <1>7, <1>8, <1>9, <1>10, <1>11, <1>12, <1>13,
      <1>14, <1>15, <1>16, <1>17, <1>18, <1>19, <1>20, <1>21, <1>22, <1>23, <1>24,
      <1>25, <1>26, <1>27, <1>28, <1>29, <1>30, <1>31, <1>32, <1>33
  DEF Next, Arrival, Step, CreateStep, RotateStep, RevokeAllStep, BearerStep,
      LogoutStep, Quiescent

\* A request admitted with a logged-out token was admitted late.
LEMMA LoggedOutStep ==
  TypeOK /\ WellFormed /\ TokensOfRequest /\ BeforeStable /\ BlacklistLasts
    /\ LoggedOutRefused /\ [Next]_vars => LoggedOutRefused'
<1> DEFINE Late(g) == now > access[at[g]].exp - Second
<1> SUFFICES ASSUME TypeOK, WellFormed, TokensOfRequest, BeforeStable, BlacklistLasts,
                    LoggedOutRefused, [Next]_vars, NEW q \in Request, NEW g \in Request,
                    Is(q, "logout", "ok")', (q \in before[g])', (at[g] = at[q])',
                    PastBlacklist(g)'
             PROVE  Late(g)'
  BY DEF LoggedOutRefused
<1>0. \A a \in Request : Delivered(a) => access'[a] = access[a] /\ access[a] \in Jwt
  BY AnsweredIsFinal, ConstantTypes DEF TokensOfRequest, TokensOfRequestAt, TypeOK,
     Delivered
<1> USE <1>0, TypeOK, WellFormed, BeforeStable, LoggedOutRefused, ConstantTypes DEF
      TypeOK,
      BeforeStable, Answered, PastBlacklist, LoggedOutRefused, Is, Delivered, Jwt,
      WellFormed, WellFormedAt, UserKnown, Creating, Rotating, Revoking, Bearing,
      LoggingOut, Handling, Goto, Answer, keys, inputs, locals, Outcomes, Endpoints
<1>1. ASSUME NEW r \in Request, NEW u \in User, ArriveLogin(r, u)
      PROVE  Late(g)'
  BY <1>1 DEF ArriveLogin, Arrive
<1>2. ASSUME NEW r \in Request, NEW t \in Request, ArriveRefresh(r, t)
      PROVE  Late(g)'
  BY <1>2 DEF ArriveRefresh, Arrive
<1>3. ASSUME NEW r \in Request, NEW a \in Request, ArriveMe(r, a)
      PROVE  Late(g)'
  BY <1>3 DEF ArriveMe, Arrive
<1>4. ASSUME NEW r \in Request, NEW a \in Request, NEW t \in Request,
             ArriveLogout(r, a, t)
      PROVE  Late(g)'
  BY <1>4 DEF ArriveLogout, Arrive
<1>5. ASSUME NEW r \in Request, Authenticate(r) PROVE Late(g)'
  BY <1>5 DEF Authenticate
<1>6. ASSUME NEW r \in Request, SetToken(r) PROVE Late(g)'
  BY <1>6 DEF SetToken
<1>7. ASSUME NEW r \in Request, AddToIndex(r) PROVE Late(g)'
  BY <1>7 DEF AddToIndex
<1>8. ASSUME NEW r \in Request, ExpireIndex(r) PROVE Late(g)'
  BY <1>8 DEF ExpireIndex
<1>9. ASSUME NEW r \in Request, Mint(r) PROVE Late(g)'
  BY <1>9 DEF Mint
<1>10. ASSUME NEW r \in Request, GetToken(r) PROVE Late(g)'
  BY <1>10 DEF GetToken
<1>11. ASSUME NEW r \in Request, LoadUser(r) PROVE Late(g)'
  BY <1>11 DEF LoadUser
<1>12. ASSUME NEW r \in Request, DeleteToken(r) PROVE Late(g)'
  BY <1>12 DEF DeleteToken
<1>13. ASSUME NEW r \in Request, RemoveFromIndex(r) PROVE Late(g)'
  BY <1>13 DEF RemoveFromIndex
<1>14. ASSUME NEW r \in Request, SetUsed(r) PROVE Late(g)'
  BY <1>14 DEF SetUsed
<1>15. ASSUME NEW r \in Request, GetUsed(r) PROVE Late(g)'
  BY <1>15 DEF GetUsed
<1>16. ASSUME NEW r \in Request, ReadIndex(r) PROVE Late(g)'
  BY <1>16 DEF ReadIndex
<1>17. ASSUME NEW r \in Request, DeleteTokens(r) PROVE Late(g)'
  BY <1>17 DEF DeleteTokens
<1>18. ASSUME NEW r \in Request, DeleteIndex(r) PROVE Late(g)'
  BY <1>18 DEF DeleteIndex
<1>19. ASSUME NEW r \in Request, Stamp(r) PROVE Late(g)'
  BY <1>19 DEF Stamp
<1>20. ASSUME NEW r \in Request, SetMark(r) PROVE Late(g)'
  BY <1>20 DEF SetMark
<1>21. ASSUME NEW r \in Request, Decode(r) PROVE Late(g)'
  BY <1>21 DEF Decode
<1>22. ASSUME NEW r \in Request, CheckBlacklist(r) PROVE Late(g)'
  <2>1. Is(q, "logout", "ok") /\ q \in before[g] /\ at[g] = at[q]
    BY <1>22 DEF CheckBlacklist
  <2>2. at[g] \in Request /\ access[at[g]] \in Jwt /\ access'[at[g]] = access[at[g]]
        /\ at'[g] = at[g] /\ now' = now
    BY <1>22, <2>1 DEF CheckBlacklist
  <2>3. CASE g = r /\ now < blacklist[at[r]]
    BY <1>22, <2>3 DEF CheckBlacklist
  <2>4. CASE g = r /\ ~(now < blacklist[at[r]])
    BY <2>1, <2>2, <2>4, BlacklistLasts DEF BlacklistLasts, BlacklistLastsAt
  <2>5. CASE g # r
    <3>1. PastBlacklist(g)
      BY <1>22, <2>5 DEF CheckBlacklist
    <3> QED
      BY <2>1, <2>2, <3>1
  <2> QED
    BY <2>3, <2>4, <2>5
<1>23. ASSUME NEW r \in Request, CheckMark(r) PROVE Late(g)'
  BY <1>23 DEF CheckMark
<1>24. ASSUME NEW r \in Request, CheckActive(r) PROVE Late(g)'
  BY <1>24 DEF CheckActive
<1>25. ASSUME NEW r \in Request, DecodeAgain(r) PROVE Late(g)'
  BY <1>25 DEF DecodeAgain
<1>26. ASSUME NEW r \in Request, LookUp(r) PROVE Late(g)'
  BY <1>26 DEF LookUp
<1>27. ASSUME NEW r \in Request, LogoutRemove(r) PROVE Late(g)'
  BY <1>27 DEF LogoutRemove
<1>28. ASSUME NEW r \in Request, LogoutDelete(r) PROVE Late(g)'
  BY <1>28 DEF LogoutDelete
<1>29. ASSUME NEW r \in Request, Blacklist(r) PROVE Late(g)'
  BY <1>29 DEF Blacklist
<1>30. ASSUME NEW r \in Request, Fail(r) PROVE Late(g)'
  BY <1>30 DEF Fail
<1>31. ASSUME NEW u \in User, NEW status \in Admin, Disable(u, status)
      PROVE  Late(g)'
  BY <1>31 DEF Disable
<1>32. CASE Tick
  BY <1>32 DEF Tick
<1>33. CASE UNCHANGED vars
  BY <1>33 DEF vars
<1> QED
  BY <1>1, <1>2, <1>3, <1>4, <1>5, <1>6, <1>7, <1>8, <1>9, <1>10, <1>11, <1>12, <1>13,
      <1>14, <1>15, <1>16, <1>17, <1>18, <1>19, <1>20, <1>21, <1>22, <1>23, <1>24,
      <1>25, <1>26, <1>27, <1>28, <1>29, <1>30, <1>31, <1>32, <1>33
  DEF Next, Arrival, Step, CreateStep, RotateStep, RevokeAllStep, BearerStep,
      LogoutStep, Quiescent

\* A request for a disabled user does not pass a status check.
LEMMA DisabledStep ==
  TypeOK /\ WellFormed /\ TokensOfRequest /\ BeforeStable /\ DisabledIsStopped
    /\ [Next]_vars => DisabledIsStopped'
<1> DEFINE Stopped(q) == /\ pc[q] \notin {"del"} \cup Rotated \cup LoggingOut
                         /\ outcome[q] # "ok"
<1> SUFFICES ASSUME TypeOK, WellFormed, TokensOfRequest, BeforeStable, DisabledIsStopped,
                    [Next]_vars, NEW q \in Request,
                    (pc[q] # "new" /\ Subject(q) \in before[q])'
             PROVE  Stopped(q)'
  BY DEF DisabledIsStopped
<1>0. \A a \in Request : Delivered(a) => access'[a] = access[a] /\ access[a].sub = user[a]
                                        /\ access[a].sub \in User
  BY AnsweredIsFinal, ConstantTypes DEF TokensOfRequest, TokensOfRequestAt, TypeOK,
     Delivered, Jwt
<1> USE <1>0, TypeOK, WellFormed, BeforeStable, TokensOfRequest, DisabledIsStopped,
      ConstantTypes DEF TypeOK, BeforeStable, TokensOfRequest, TokensOfRequestAt,
      Subject, DisabledIsStopped, Rotated, WellFormed, WellFormedAt, UserKnown,
      Creating, Rotating, Revoking, Bearing, LoggingOut, Handling, Goto, Answer, keys,
      inputs, locals, Outcomes, Endpoints
<1>1. ASSUME NEW r \in Request, NEW u \in User, ArriveLogin(r, u)
      PROVE  Stopped(q)'
  BY <1>1 DEF ArriveLogin, Arrive
<1>2. ASSUME NEW r \in Request, NEW t \in Request, ArriveRefresh(r, t)
      PROVE  Stopped(q)'
  BY <1>2 DEF ArriveRefresh, Arrive
<1>3. ASSUME NEW r \in Request, NEW a \in Request, ArriveMe(r, a)
      PROVE  Stopped(q)'
  BY <1>3 DEF ArriveMe, Arrive
<1>4. ASSUME NEW r \in Request, NEW a \in Request, NEW t \in Request,
             ArriveLogout(r, a, t)
      PROVE  Stopped(q)'
  BY <1>4 DEF ArriveLogout, Arrive
<1>5. ASSUME NEW r \in Request, Authenticate(r) PROVE Stopped(q)'
  BY <1>5 DEF Authenticate
<1>6. ASSUME NEW r \in Request, SetToken(r) PROVE Stopped(q)'
  BY <1>6 DEF SetToken
<1>7. ASSUME NEW r \in Request, AddToIndex(r) PROVE Stopped(q)'
  BY <1>7 DEF AddToIndex
<1>8. ASSUME NEW r \in Request, ExpireIndex(r) PROVE Stopped(q)'
  BY <1>8 DEF ExpireIndex
<1>9. ASSUME NEW r \in Request, Mint(r) PROVE Stopped(q)'
  BY <1>9 DEF Mint
<1>10. ASSUME NEW r \in Request, GetToken(r) PROVE Stopped(q)'
  BY <1>10 DEF GetToken
<1>11. ASSUME NEW r \in Request, LoadUser(r) PROVE Stopped(q)'
  BY <1>11 DEF LoadUser
<1>12. ASSUME NEW r \in Request, DeleteToken(r) PROVE Stopped(q)'
  BY <1>12 DEF DeleteToken
<1>13. ASSUME NEW r \in Request, RemoveFromIndex(r) PROVE Stopped(q)'
  BY <1>13 DEF RemoveFromIndex
<1>14. ASSUME NEW r \in Request, SetUsed(r) PROVE Stopped(q)'
  BY <1>14 DEF SetUsed
<1>15. ASSUME NEW r \in Request, GetUsed(r) PROVE Stopped(q)'
  BY <1>15 DEF GetUsed
<1>16. ASSUME NEW r \in Request, ReadIndex(r) PROVE Stopped(q)'
  BY <1>16 DEF ReadIndex
<1>17. ASSUME NEW r \in Request, DeleteTokens(r) PROVE Stopped(q)'
  BY <1>17 DEF DeleteTokens
<1>18. ASSUME NEW r \in Request, DeleteIndex(r) PROVE Stopped(q)'
  BY <1>18 DEF DeleteIndex
<1>19. ASSUME NEW r \in Request, Stamp(r) PROVE Stopped(q)'
  BY <1>19 DEF Stamp
<1>20. ASSUME NEW r \in Request, SetMark(r) PROVE Stopped(q)'
  BY <1>20 DEF SetMark
<1>21. ASSUME NEW r \in Request, Decode(r) PROVE Stopped(q)'
  BY <1>21 DEF Decode
<1>22. ASSUME NEW r \in Request, CheckBlacklist(r) PROVE Stopped(q)'
  BY <1>22 DEF CheckBlacklist
<1>23. ASSUME NEW r \in Request, CheckMark(r) PROVE Stopped(q)'
  BY <1>23 DEF CheckMark
<1>24. ASSUME NEW r \in Request, CheckActive(r) PROVE Stopped(q)'
  BY <1>24 DEF CheckActive
<1>25. ASSUME NEW r \in Request, DecodeAgain(r) PROVE Stopped(q)'
  BY <1>25 DEF DecodeAgain
<1>26. ASSUME NEW r \in Request, LookUp(r) PROVE Stopped(q)'
  BY <1>26 DEF LookUp
<1>27. ASSUME NEW r \in Request, LogoutRemove(r) PROVE Stopped(q)'
  BY <1>27 DEF LogoutRemove
<1>28. ASSUME NEW r \in Request, LogoutDelete(r) PROVE Stopped(q)'
  BY <1>28 DEF LogoutDelete
<1>29. ASSUME NEW r \in Request, Blacklist(r) PROVE Stopped(q)'
  BY <1>29 DEF Blacklist
<1>30. ASSUME NEW r \in Request, Fail(r) PROVE Stopped(q)'
  BY <1>30 DEF Fail
<1>31. ASSUME NEW u \in User, NEW status \in Admin, Disable(u, status)
      PROVE  Stopped(q)'
  BY <1>31 DEF Disable
<1>32. CASE Tick
  BY <1>32 DEF Tick
<1>33. CASE UNCHANGED vars
  BY <1>33 DEF vars
<1> QED
  BY <1>1, <1>2, <1>3, <1>4, <1>5, <1>6, <1>7, <1>8, <1>9, <1>10, <1>11, <1>12, <1>13,
      <1>14, <1>15, <1>16, <1>17, <1>18, <1>19, <1>20, <1>21, <1>22, <1>23, <1>24,
      <1>25, <1>26, <1>27, <1>28, <1>29, <1>30, <1>31, <1>32, <1>33
  DEF Next, Arrival, Step, CreateStep, RotateStep, RevokeAllStep, BearerStep,
      LogoutStep, Quiescent

\* A token in the index keeps its user.
LEMMA FiledIsStable ==
  ASSUME TypeOK, WellFormed, TokensOfRequest, [Next]_vars, NEW t \in Request, Filed(t)
  PROVE  Filed(t)' /\ user'[t] = user[t]
<1> DEFINE Kept == Filed(t)' /\ user'[t] = user[t]
<1> SUFFICES Kept
  OBVIOUS
<1> USE TypeOK, WellFormed, TokensOfRequest DEF Filed, Delivered, TypeOK, WellFormed,
      WellFormedAt, TokensOfRequest, TokensOfRequestAt, Handling, Goto, Answer, keys,
      inputs, locals
<1>1. ASSUME NEW r \in Request, NEW u \in User, ArriveLogin(r, u)
      PROVE  Kept
  BY <1>1 DEF ArriveLogin, Arrive
<1>2. ASSUME NEW r \in Request, NEW b \in Request, ArriveRefresh(r, b)
      PROVE  Kept
  BY <1>2 DEF ArriveRefresh, Arrive
<1>3. ASSUME NEW r \in Request, NEW a \in Request, ArriveMe(r, a)
      PROVE  Kept
  BY <1>3 DEF ArriveMe, Arrive
<1>4. ASSUME NEW r \in Request, NEW a \in Request, NEW b \in Request,
             ArriveLogout(r, a, b)
      PROVE  Kept
  BY <1>4 DEF ArriveLogout, Arrive
<1>5. ASSUME NEW r \in Request, Authenticate(r) PROVE Kept
  BY <1>5 DEF Authenticate
<1>6. ASSUME NEW r \in Request, SetToken(r) PROVE Kept
  BY <1>6 DEF SetToken
<1>7. ASSUME NEW r \in Request, AddToIndex(r) PROVE Kept
  BY <1>7 DEF AddToIndex
<1>8. ASSUME NEW r \in Request, ExpireIndex(r) PROVE Kept
  BY <1>8 DEF ExpireIndex
<1>9. ASSUME NEW r \in Request, Mint(r) PROVE Kept
  <2>1. Delivered(r)'
    BY <1>9, MintType, ConstantTypes DEF Mint, UserKnown, Creating
  <2> QED
    BY <1>9, <2>1 DEF Mint
<1>10. ASSUME NEW r \in Request, GetToken(r) PROVE Kept
  BY <1>10 DEF GetToken
<1>11. ASSUME NEW r \in Request, LoadUser(r) PROVE Kept
  BY <1>11 DEF LoadUser
<1>12. ASSUME NEW r \in Request, DeleteToken(r) PROVE Kept
  BY <1>12 DEF DeleteToken
<1>13. ASSUME NEW r \in Request, RemoveFromIndex(r) PROVE Kept
  BY <1>13 DEF RemoveFromIndex
<1>14. ASSUME NEW r \in Request, SetUsed(r) PROVE Kept
  BY <1>14 DEF SetUsed
<1>15. ASSUME NEW r \in Request, GetUsed(r) PROVE Kept
  BY <1>15 DEF GetUsed
<1>16. ASSUME NEW r \in Request, ReadIndex(r) PROVE Kept
  BY <1>16 DEF ReadIndex
<1>17. ASSUME NEW r \in Request, DeleteTokens(r) PROVE Kept
  BY <1>17 DEF DeleteTokens
<1>18. ASSUME NEW r \in Request, DeleteIndex(r) PROVE Kept
  BY <1>18 DEF DeleteIndex
<1>19. ASSUME NEW r \in Request, Stamp(r) PROVE Kept
  BY <1>19 DEF Stamp
<1>20. ASSUME NEW r \in Request, SetMark(r) PROVE Kept
  BY <1>20 DEF SetMark
<1>21. ASSUME NEW r \in Request, Decode(r) PROVE Kept
  BY <1>21 DEF Decode
<1>22. ASSUME NEW r \in Request, CheckBlacklist(r) PROVE Kept
  BY <1>22 DEF CheckBlacklist
<1>23. ASSUME NEW r \in Request, CheckMark(r) PROVE Kept
  BY <1>23 DEF CheckMark
<1>24. ASSUME NEW r \in Request, CheckActive(r) PROVE Kept
  BY <1>24 DEF CheckActive
<1>25. ASSUME NEW r \in Request, DecodeAgain(r) PROVE Kept
  BY <1>25 DEF DecodeAgain
<1>26. ASSUME NEW r \in Request, LookUp(r) PROVE Kept
  BY <1>26 DEF LookUp
<1>27. ASSUME NEW r \in Request, LogoutRemove(r) PROVE Kept
  BY <1>27 DEF LogoutRemove
<1>28. ASSUME NEW r \in Request, LogoutDelete(r) PROVE Kept
  BY <1>28 DEF LogoutDelete
<1>29. ASSUME NEW r \in Request, Blacklist(r) PROVE Kept
  BY <1>29 DEF Blacklist
<1>30. ASSUME NEW r \in Request, Fail(r) PROVE Kept
  BY <1>30 DEF Fail
<1>31. ASSUME NEW u \in User, NEW status \in Admin, Disable(u, status)
      PROVE  Kept
  BY <1>31 DEF Disable
<1>32. CASE Tick
  BY <1>32 DEF Tick
<1>33. CASE UNCHANGED vars
  BY <1>33 DEF vars
<1> QED
  BY <1>1, <1>2, <1>3, <1>4, <1>5, <1>6, <1>7, <1>8, <1>9, <1>10, <1>11, <1>12, <1>13,
      <1>14, <1>15, <1>16, <1>17, <1>18, <1>19, <1>20, <1>21, <1>22, <1>23, <1>24,
      <1>25, <1>26, <1>27, <1>28, <1>29, <1>30, <1>31, <1>32, <1>33
  DEF Next, Arrival, Step, CreateStep, RotateStep, RevokeAllStep, BearerStep,
      LogoutStep, Quiescent

\* A step that leaves the index and what revoke-all read alone, and moves one
\* request that read nothing, keeps IndexOfUser.
LEMMA IndexKept ==
  ASSUME TypeOK, WellFormed, TokensOfRequest, IndexOfUser, [Next]_vars, NEW r \in Request,
         sessions' = sessions, jtis' = jtis, jtis[r] = {},
         \A v \in Request \ {r} : pc'[v] = pc[v] /\ user'[v] = user[v]
  PROVE  IndexOfUser'
<1>1. \A t \in Request : Filed(t) => Filed(t)' /\ user'[t] = user[t]
  BY FiledIsStable
<1>2. \A u \in User : \A t \in sessions'[u].members : user'[t] = u /\ Filed(t)'
  BY <1>1 DEF IndexOfUser, TypeOK, Index
<1>3. ASSUME NEW v \in Request
      PROVE  /\ \A t \in jtis'[v] : user'[t] = user'[v] /\ Filed(t)'
             /\ pc'[v] \notin {"del_keys", "del_index", "stamp", "set_mark", "done"}
                  => jtis'[v] = {}
  <2>1. CASE v = r
    BY <2>1
  <2>2. CASE v # r
    BY <1>1, <2>2 DEF IndexOfUser, TypeOK
  <2> QED
    BY <2>1, <2>2
<1> QED
  BY <1>2, <1>3 DEF IndexOfUser

\* An index lists tokens of its user only, and so does what revoke-all read.
LEMMA IndexOfUserStep ==
  TypeOK /\ WellFormed /\ TokensOfRequest /\ IndexOfUser /\ [Next]_vars => IndexOfUser'
<1> SUFFICES ASSUME TypeOK, WellFormed, TokensOfRequest, IndexOfUser, [Next]_vars
             PROVE  IndexOfUser'
  OBVIOUS
<1>0. \A t \in Request : Filed(t) => Filed(t)' /\ user'[t] = user[t]
  BY FiledIsStable
<1> USE <1>0, TypeOK, WellFormed, IndexOfUser, ConstantTypes DEF TypeOK, Index,
      IndexOfUser,
      Handling, Goto, Answer, keys, inputs, locals, WellFormed, WellFormedAt,
      UserKnown, Creating, Rotating, Revoking, Bearing, LoggingOut
<1>1. ASSUME NEW r \in Request, NEW u \in User, ArriveLogin(r, u)
      PROVE  IndexOfUser'
  BY <1>1 DEF ArriveLogin, Arrive
<1>2. ASSUME NEW r \in Request, NEW t \in Request, ArriveRefresh(r, t)
      PROVE  IndexOfUser'
  BY <1>2 DEF ArriveRefresh, Arrive
<1>3. ASSUME NEW r \in Request, NEW a \in Request, ArriveMe(r, a)
      PROVE  IndexOfUser'
  BY <1>3 DEF ArriveMe, Arrive
<1>4. ASSUME NEW r \in Request, NEW a \in Request, NEW t \in Request,
             ArriveLogout(r, a, t)
      PROVE  IndexOfUser'
  BY <1>4 DEF ArriveLogout, Arrive
<1>5. ASSUME NEW r \in Request, Authenticate(r) PROVE IndexOfUser'
  <2>1. jtis[r] = {}
    BY <1>5 DEF Authenticate
  <2>2. \A v \in Request \ {r} : pc'[v] = pc[v] /\ user'[v] = user[v]
    BY <1>5 DEF Authenticate
  <2> QED
    BY <1>5, <2>1, <2>2, TokensOfRequest, IndexKept DEF Authenticate
<1>6. ASSUME NEW r \in Request, SetToken(r) PROVE IndexOfUser'
  BY <1>6 DEF SetToken
<1>7. ASSUME NEW r \in Request, AddToIndex(r) PROVE IndexOfUser'
  BY <1>7, IndexType, MembersType DEF AddToIndex, Filed
<1>8. ASSUME NEW r \in Request, ExpireIndex(r) PROVE IndexOfUser'
  BY <1>8, IndexType, MembersType DEF ExpireIndex, Filed
<1>9. ASSUME NEW r \in Request, Mint(r) PROVE IndexOfUser'
  BY <1>9 DEF Mint
<1>10. ASSUME NEW r \in Request, GetToken(r) PROVE IndexOfUser'
  BY <1>10 DEF GetToken
<1>11. ASSUME NEW r \in Request, LoadUser(r) PROVE IndexOfUser'
  <2>1. jtis[r] = {}
    BY <1>11 DEF LoadUser
  <2>2. \A v \in Request \ {r} : pc'[v] = pc[v] /\ user'[v] = user[v]
    BY <1>11 DEF LoadUser
  <2> QED
    BY <1>11, <2>1, <2>2, TokensOfRequest, IndexKept DEF LoadUser
<1>12. ASSUME NEW r \in Request, DeleteToken(r) PROVE IndexOfUser'
  BY <1>12 DEF DeleteToken
<1>13. ASSUME NEW r \in Request, RemoveFromIndex(r) PROVE IndexOfUser'
  <2>1. user[r] \in User /\ rt[r] \in Request
    BY <1>13 DEF RemoveFromIndex
  <2>2. \A u \in User : sessions'[u].members \subseteq sessions[u].members
    BY <1>13, <2>1, IndexType DEF RemoveFromIndex
  <2>3. jtis' = jtis /\ user' = user /\ jtis[r] = {}
    BY <1>13 DEF RemoveFromIndex
  <2>4. \A v \in Request \ {r} : pc'[v] = pc[v]
    BY <1>13 DEF RemoveFromIndex
  <2> QED
    BY <2>2, <2>3, <2>4
<1>14. ASSUME NEW r \in Request, SetUsed(r) PROVE IndexOfUser'
  BY <1>14 DEF SetUsed
<1>15. ASSUME NEW r \in Request, GetUsed(r) PROVE IndexOfUser'
  <2>1. jtis[r] = {}
    BY <1>15 DEF GetUsed
  <2>2. \A v \in Request \ {r} : pc'[v] = pc[v] /\ user'[v] = user[v]
    BY <1>15 DEF GetUsed
  <2> QED
    BY <1>15, <2>1, <2>2, TokensOfRequest, IndexKept DEF GetUsed
<1>16. ASSUME NEW r \in Request, ReadIndex(r) PROVE IndexOfUser'
  BY <1>16, IndexType, MembersType DEF ReadIndex, Filed
<1>17. ASSUME NEW r \in Request, DeleteTokens(r) PROVE IndexOfUser'
  BY <1>17 DEF DeleteTokens
<1>18. ASSUME NEW r \in Request, DeleteIndex(r) PROVE IndexOfUser'
  BY <1>18 DEF DeleteIndex
<1>19. ASSUME NEW r \in Request, Stamp(r) PROVE IndexOfUser'
  BY <1>19 DEF Stamp
<1>20. ASSUME NEW r \in Request, SetMark(r) PROVE IndexOfUser'
  BY <1>20 DEF SetMark
<1>21. ASSUME NEW r \in Request, Decode(r) PROVE IndexOfUser'
  <2>1. jtis[r] = {}
    BY <1>21 DEF Decode
  <2>2. \A v \in Request \ {r} : pc'[v] = pc[v] /\ user'[v] = user[v]
    BY <1>21 DEF Decode
  <2> QED
    BY <1>21, <2>1, <2>2, TokensOfRequest, IndexKept DEF Decode
<1>22. ASSUME NEW r \in Request, CheckBlacklist(r) PROVE IndexOfUser'
  <2>1. jtis[r] = {}
    BY <1>22 DEF CheckBlacklist
  <2>2. \A v \in Request \ {r} : pc'[v] = pc[v] /\ user'[v] = user[v]
    BY <1>22 DEF CheckBlacklist
  <2> QED
    BY <1>22, <2>1, <2>2, TokensOfRequest, IndexKept DEF CheckBlacklist
<1>23. ASSUME NEW r \in Request, CheckMark(r) PROVE IndexOfUser'
  <2>1. jtis[r] = {}
    BY <1>23 DEF CheckMark
  <2>2. \A v \in Request \ {r} : pc'[v] = pc[v] /\ user'[v] = user[v]
    BY <1>23 DEF CheckMark
  <2> QED
    BY <1>23, <2>1, <2>2, TokensOfRequest, IndexKept DEF CheckMark
<1>24. ASSUME NEW r \in Request, CheckActive(r) PROVE IndexOfUser'
  <2>1. jtis[r] = {}
    BY <1>24 DEF CheckActive
  <2>2. \A v \in Request \ {r} : pc'[v] = pc[v] /\ user'[v] = user[v]
    BY <1>24 DEF CheckActive
  <2> QED
    BY <1>24, <2>1, <2>2, TokensOfRequest, IndexKept DEF CheckActive
<1>25. ASSUME NEW r \in Request, DecodeAgain(r) PROVE IndexOfUser'
  BY <1>25 DEF DecodeAgain
<1>26. ASSUME NEW r \in Request, LookUp(r) PROVE IndexOfUser'
  BY <1>26 DEF LookUp
<1>27. ASSUME NEW r \in Request, LogoutRemove(r) PROVE IndexOfUser'
  BY <1>27, IndexType, MembersType DEF LogoutRemove, Filed
<1>28. ASSUME NEW r \in Request, LogoutDelete(r) PROVE IndexOfUser'
  BY <1>28 DEF LogoutDelete
<1>29. ASSUME NEW r \in Request, Blacklist(r) PROVE IndexOfUser'
  BY <1>29 DEF Blacklist
<1>30. ASSUME NEW r \in Request, Fail(r) PROVE IndexOfUser'
  BY <1>30 DEF Fail
<1>31. ASSUME NEW u \in User, NEW status \in Admin, Disable(u, status)
      PROVE  IndexOfUser'
  BY <1>31 DEF Disable
<1>32. CASE Tick
  BY <1>32 DEF Tick
<1>33. CASE UNCHANGED vars
  BY <1>33 DEF vars
<1> QED
  BY <1>1, <1>2, <1>3, <1>4, <1>5, <1>6, <1>7, <1>8, <1>9, <1>10, <1>11, <1>12, <1>13,
      <1>14, <1>15, <1>16, <1>17, <1>18, <1>19, <1>20, <1>21, <1>22, <1>23, <1>24,
      <1>25, <1>26, <1>27, <1>28, <1>29, <1>30, <1>31, <1>32, <1>33
  DEF Next, Arrival, Step, CreateStep, RotateStep, RevokeAllStep, BearerStep,
      LogoutStep, Quiescent

\* Only create_session's SET issues a token, and its user never changes.
LEMMA IssuedIsStable ==
  ASSUME TypeOK, WellFormed, TokensOfRequest, [Next]_vars, NEW t \in Request,
         ~SetToken(t)
  PROVE  /\ Issued(t)' <=> Issued(t)
         /\ Issued(t) => user'[t] = user[t]
<1> DEFINE Kept == (Issued(t)' <=> Issued(t)) /\ (Issued(t) => user'[t] = user[t])
<1> SUFFICES Kept
  OBVIOUS
<1> USE TypeOK, WellFormed, TokensOfRequest, ConstantTypes DEF Issued, Delivered,
      TypeOK,
      WellFormed, WellFormedAt, TokensOfRequest, TokensOfRequestAt, Handling, Goto,
      Answer, keys, inputs, locals
<1>1. ASSUME NEW r \in Request, NEW u \in User, ArriveLogin(r, u)
      PROVE  Kept
  BY <1>1 DEF ArriveLogin, Arrive
<1>2. ASSUME NEW r \in Request, NEW b \in Request, ArriveRefresh(r, b)
      PROVE  Kept
  BY <1>2 DEF ArriveRefresh, Arrive
<1>3. ASSUME NEW r \in Request, NEW a \in Request, ArriveMe(r, a)
      PROVE  Kept
  BY <1>3 DEF ArriveMe, Arrive
<1>4. ASSUME NEW r \in Request, NEW a \in Request, NEW b \in Request,
             ArriveLogout(r, a, b)
      PROVE  Kept
  BY <1>4 DEF ArriveLogout, Arrive
<1>5. ASSUME NEW r \in Request, Authenticate(r) PROVE Kept
  BY <1>5 DEF Authenticate
<1>6. ASSUME NEW r \in Request, SetToken(r) PROVE Kept
  <2>1. t # r
    BY <1>6
  <2> QED
    BY <1>6, <2>1 DEF SetToken
<1>7. ASSUME NEW r \in Request, AddToIndex(r) PROVE Kept
  BY <1>7 DEF AddToIndex
<1>8. ASSUME NEW r \in Request, ExpireIndex(r) PROVE Kept
  BY <1>8 DEF ExpireIndex
<1>9. ASSUME NEW r \in Request, Mint(r) PROVE Kept
  <2>1. Delivered(r)'
    BY <1>9, MintType DEF Mint, UserKnown, Creating
  <2> QED
    BY <1>9, <2>1 DEF Mint
<1>10. ASSUME NEW r \in Request, GetToken(r) PROVE Kept
  BY <1>10 DEF GetToken
<1>11. ASSUME NEW r \in Request, LoadUser(r) PROVE Kept
  BY <1>11 DEF LoadUser
<1>12. ASSUME NEW r \in Request, DeleteToken(r) PROVE Kept
  BY <1>12 DEF DeleteToken
<1>13. ASSUME NEW r \in Request, RemoveFromIndex(r) PROVE Kept
  BY <1>13 DEF RemoveFromIndex
<1>14. ASSUME NEW r \in Request, SetUsed(r) PROVE Kept
  BY <1>14 DEF SetUsed
<1>15. ASSUME NEW r \in Request, GetUsed(r) PROVE Kept
  BY <1>15 DEF GetUsed
<1>16. ASSUME NEW r \in Request, ReadIndex(r) PROVE Kept
  BY <1>16 DEF ReadIndex
<1>17. ASSUME NEW r \in Request, DeleteTokens(r) PROVE Kept
  BY <1>17 DEF DeleteTokens
<1>18. ASSUME NEW r \in Request, DeleteIndex(r) PROVE Kept
  BY <1>18 DEF DeleteIndex
<1>19. ASSUME NEW r \in Request, Stamp(r) PROVE Kept
  BY <1>19 DEF Stamp
<1>20. ASSUME NEW r \in Request, SetMark(r) PROVE Kept
  BY <1>20 DEF SetMark
<1>21. ASSUME NEW r \in Request, Decode(r) PROVE Kept
  BY <1>21 DEF Decode
<1>22. ASSUME NEW r \in Request, CheckBlacklist(r) PROVE Kept
  BY <1>22 DEF CheckBlacklist
<1>23. ASSUME NEW r \in Request, CheckMark(r) PROVE Kept
  BY <1>23 DEF CheckMark
<1>24. ASSUME NEW r \in Request, CheckActive(r) PROVE Kept
  BY <1>24 DEF CheckActive
<1>25. ASSUME NEW r \in Request, DecodeAgain(r) PROVE Kept
  BY <1>25 DEF DecodeAgain
<1>26. ASSUME NEW r \in Request, LookUp(r) PROVE Kept
  BY <1>26 DEF LookUp
<1>27. ASSUME NEW r \in Request, LogoutRemove(r) PROVE Kept
  BY <1>27 DEF LogoutRemove
<1>28. ASSUME NEW r \in Request, LogoutDelete(r) PROVE Kept
  BY <1>28 DEF LogoutDelete
<1>29. ASSUME NEW r \in Request, Blacklist(r) PROVE Kept
  BY <1>29 DEF Blacklist
<1>30. ASSUME NEW r \in Request, Fail(r) PROVE Kept
  BY <1>30 DEF Fail
<1>31. ASSUME NEW u \in User, NEW status \in Admin, Disable(u, status)
      PROVE  Kept
  BY <1>31 DEF Disable
<1>32. CASE Tick
  BY <1>32 DEF Tick
<1>33. CASE UNCHANGED vars
  BY <1>33 DEF vars
<1> QED
  BY <1>1, <1>2, <1>3, <1>4, <1>5, <1>6, <1>7, <1>8, <1>9, <1>10, <1>11, <1>12, <1>13,
      <1>14, <1>15, <1>16, <1>17, <1>18, <1>19, <1>20, <1>21, <1>22, <1>23, <1>24,
      <1>25, <1>26, <1>27, <1>28, <1>29, <1>30, <1>31, <1>32, <1>33
  DEF Next, Arrival, Step, CreateStep, RotateStep, RevokeAllStep, BearerStep,
      LogoutStep, Quiescent

\* GET used_refresh:{jti} of a token rotated earlier is refused only when the
\* marker has expired.
LEMMA ReplayStep ==
  ASSUME IInv, [Next]_vars, NEW q \in Request, NEW s \in Request,
         q \in before[s], rt[q] = rt[s], Is(q, "refresh", "ok"),
         Is(s, "refresh", None), outcome'[s] = "refused"
  PROVE  used[rt[s]] # None /\ ~Live(used[rt[s]])
<1> DEFINE Detected == used[rt[s]] # None /\ ~Live(used[rt[s]])
<1> SUFFICES Detected
  OBVIOUS
<1>0. /\ TypeOK /\ WellFormed /\ rt[s] \in Request /\ used[rt[s]] # None
      /\ pc[s] # "get_user"
  BY ConstantTypes DEF IInv, SpentIsStopped, SpentIsDead, SpentIsDeadAt, Spent, Is,
     WellFormed,
     WellFormedAt
<1> USE <1>0, ConstantTypes DEF Is, TypeOK, WellFormed, WellFormedAt, Creating,
      Rotating,
      Bearing, LoggingOut, Outcomes, Handling, Goto, Answer, keys, inputs, locals
<1>1. ASSUME NEW r \in Request, NEW u \in User, ArriveLogin(r, u)
      PROVE  Detected
  BY <1>1 DEF ArriveLogin, Arrive
<1>2. ASSUME NEW r \in Request, NEW t \in Request, ArriveRefresh(r, t)
      PROVE  Detected
  BY <1>2 DEF ArriveRefresh, Arrive
<1>3. ASSUME NEW r \in Request, NEW a \in Request, ArriveMe(r, a)
      PROVE  Detected
  BY <1>3 DEF ArriveMe, Arrive
<1>4. ASSUME NEW r \in Request, NEW a \in Request, NEW t \in Request,
             ArriveLogout(r, a, t)
      PROVE  Detected
  BY <1>4 DEF ArriveLogout, Arrive
<1>5. ASSUME NEW r \in Request, Authenticate(r) PROVE Detected
  BY <1>5 DEF Authenticate
<1>6. ASSUME NEW r \in Request, SetToken(r) PROVE Detected
  BY <1>6 DEF SetToken
<1>7. ASSUME NEW r \in Request, AddToIndex(r) PROVE Detected
  BY <1>7 DEF AddToIndex
<1>8. ASSUME NEW r \in Request, ExpireIndex(r) PROVE Detected
  BY <1>8 DEF ExpireIndex
<1>9. ASSUME NEW r \in Request, Mint(r) PROVE Detected
  BY <1>9 DEF Mint
<1>10. ASSUME NEW r \in Request, GetToken(r) PROVE Detected
  BY <1>10 DEF GetToken
<1>11. ASSUME NEW r \in Request, LoadUser(r) PROVE Detected
  BY <1>11 DEF LoadUser
<1>12. ASSUME NEW r \in Request, DeleteToken(r) PROVE Detected
  BY <1>12 DEF DeleteToken
<1>13. ASSUME NEW r \in Request, RemoveFromIndex(r) PROVE Detected
  BY <1>13 DEF RemoveFromIndex
<1>14. ASSUME NEW r \in Request, SetUsed(r) PROVE Detected
  BY <1>14 DEF SetUsed
<1>15. ASSUME NEW r \in Request, GetUsed(r) PROVE Detected
  <2>1. s = r
    BY <1>15 DEF GetUsed
  <2>2. Get(used[rt[s]]) = None
    BY <1>15, <2>1 DEF GetUsed
  <2> QED
    BY <2>2 DEF Get, Key
<1>16. ASSUME NEW r \in Request, ReadIndex(r) PROVE Detected
  BY <1>16 DEF ReadIndex
<1>17. ASSUME NEW r \in Request, DeleteTokens(r) PROVE Detected
  BY <1>17 DEF DeleteTokens
<1>18. ASSUME NEW r \in Request, DeleteIndex(r) PROVE Detected
  BY <1>18 DEF DeleteIndex
<1>19. ASSUME NEW r \in Request, Stamp(r) PROVE Detected
  BY <1>19 DEF Stamp
<1>20. ASSUME NEW r \in Request, SetMark(r) PROVE Detected
  BY <1>20 DEF SetMark
<1>21. ASSUME NEW r \in Request, Decode(r) PROVE Detected
  BY <1>21 DEF Decode
<1>22. ASSUME NEW r \in Request, CheckBlacklist(r) PROVE Detected
  BY <1>22 DEF CheckBlacklist
<1>23. ASSUME NEW r \in Request, CheckMark(r) PROVE Detected
  BY <1>23 DEF CheckMark
<1>24. ASSUME NEW r \in Request, CheckActive(r) PROVE Detected
  BY <1>24 DEF CheckActive
<1>25. ASSUME NEW r \in Request, DecodeAgain(r) PROVE Detected
  BY <1>25 DEF DecodeAgain
<1>26. ASSUME NEW r \in Request, LookUp(r) PROVE Detected
  BY <1>26 DEF LookUp
<1>27. ASSUME NEW r \in Request, LogoutRemove(r) PROVE Detected
  BY <1>27 DEF LogoutRemove
<1>28. ASSUME NEW r \in Request, LogoutDelete(r) PROVE Detected
  BY <1>28 DEF LogoutDelete
<1>29. ASSUME NEW r \in Request, Blacklist(r) PROVE Detected
  BY <1>29 DEF Blacklist
<1>30. ASSUME NEW r \in Request, Fail(r) PROVE Detected
  BY <1>30 DEF Fail
<1>31. ASSUME NEW u \in User, NEW status \in Admin, Disable(u, status)
      PROVE  Detected
  BY <1>31 DEF Disable
<1>32. CASE Tick
  BY <1>32 DEF Tick
<1>33. CASE UNCHANGED vars
  BY <1>33 DEF vars
<1> QED
  BY <1>1, <1>2, <1>3, <1>4, <1>5, <1>6, <1>7, <1>8, <1>9, <1>10, <1>11, <1>12, <1>13,
      <1>14, <1>15, <1>16, <1>17, <1>18, <1>19, <1>20, <1>21, <1>22, <1>23, <1>24,
      <1>25, <1>26, <1>27, <1>28, <1>29, <1>30, <1>31, <1>32, <1>33
  DEF Next, Arrival, Step, CreateStep, RotateStep, RevokeAllStep, BearerStep,
      LogoutStep, Quiescent

-----------------------------------------------------------------------------
(***************************************************************************)
(* The invariant, and the properties that follow from it.                  *)
(***************************************************************************)
\* The initial state, with no request and no key, satisfies the invariant.
LEMMA IInvInit == Init => IInv
<1> SUFFICES ASSUME Init PROVE IInv
  OBVIOUS
<1>1. TypeOK
  BY ConstantTypes DEF Init, TypeOK, Labels, Index
<1>2. WellFormed
  BY ConstantTypes DEF Init, WellFormed, WellFormedAt, UserKnown, Creating, Rotating,
     Revoking,
     Bearing, LoggingOut, Endpoints, Outcomes
<1>3. TokensOfRequest
  BY ConstantTypes DEF Init, TokensOfRequest, TokensOfRequestAt, Delivered, Rotated,
     Creating
<1>4. BeforeStable
  BY DEF Init, BeforeStable
<1>5. SpentIsDead /\ SpentIsStopped
  BY <1>1, ConstantTypes DEF Init, SpentIsDead, SpentIsDeadAt, SpentIsStopped,
     Endpoints
<1>6. MarkLasts
  BY ConstantTypes DEF Init, MarkLasts, Delivered, Is, Endpoints
<1>7. BlacklistLasts
  BY ConstantTypes DEF Init, BlacklistLasts, BlacklistLastsAt, LoggingOut, Is,
     Endpoints
<1>8. LoggedOutRefused
  BY DEF Init, LoggedOutRefused
<1>9. DisabledIsStopped
  BY DEF Init, DisabledIsStopped
<1>10. IndexOfUser
  BY DEF Init, IndexOfUser
<1> QED
  BY <1>1, <1>2, <1>3, <1>4, <1>5, <1>6, <1>7, <1>8, <1>9, <1>10 DEF IInv

\* Every step preserves the invariant.
LEMMA IInvStep == IInv /\ [Next]_vars => IInv'
<1> SUFFICES ASSUME IInv, [Next]_vars PROVE IInv'
  OBVIOUS
<1> USE DEF IInv
<1>1. TypeOK' /\ WellFormed' /\ TokensOfRequest' /\ BeforeStable'
  BY TypeStep, WellFormedStep, TokensStep, BeforeStep
<1>2. SpentIsDead' /\ SpentIsStopped'
  BY SpentIsDeadStep, SpentIsStoppedStep
<1>3. MarkLasts' /\ BlacklistLasts'
  BY MarkLastsStep, BlacklistLastsStep
<1>4. LoggedOutRefused' /\ DisabledIsStopped' /\ IndexOfUser'
  BY LoggedOutStep, DisabledStep, IndexOfUserStep
<1> QED
  BY <1>1, <1>2, <1>3, <1>4

\* The inductive invariant holds in every reachable state.
THEOREM Invariance == Spec => []IInv
<1>1. Init => IInv
  BY IInvInit
<1>2. IInv /\ [Next]_vars => IInv'
  BY IInvStep
<1> QED
  BY <1>1, <1>2, PTL DEF Spec

\* Every variable keeps its type: no handler stores a user id, a time or an
\* outcome that the code does not have at that point.
THEOREM TypeCorrect == Spec => []TypeOK
<1>1. IInv => TypeOK
  BY DEF IInv
<1> QED
  BY <1>1, Invariance, PTL

\* A refresh token whose rotation or logout was answered is never rotated
\* again (rotate_session, revoke_session).
THEOREM SpentTokens == Spec => []SpentStaysSpent
<1>1. IInv => SpentStaysSpent
  BY DEF IInv, SpentIsStopped, SpentStaysSpent
<1> QED
  BY <1>1, Invariance, PTL

\* A revocation's marker outlives every access token it refuses, whenever the
\* lifetime of access tokens is at most the marker's (revoke_all_sessions).
THEOREM Marks == Spec => []MarkOutlivesTokens
<1>1. IInv => MarkOutlivesTokens
  <2> SUFFICES ASSUME IInv, NEW v \in Request, NEW a \in Request,
                      Is(v, "refresh", "revoked"), Delivered(a), access[a].sub = user[v],
                      access[a].iat < ts[v], now < access[a].exp
               PROVE  Live(mark[user[v]])
    BY DEF MarkOutlivesTokens
  <2>1. access[a] \in Jwt /\ user[v] \in User
    BY DEF IInv, TypeOK, Delivered, Jwt
  <2>2. /\ access[a].exp <= access[a].iat + AccessTTL
        /\ mark[user[v]] # None /\ mark[user[v]].exp >= ts[v] + MarkTTL
    BY DEF IInv, MarkLasts
  <2>3. mark[user[v]].exp \in Nat /\ ts[v] \in Nat /\ now \in Nat
    BY <2>1, <2>2 DEF IInv, TypeOK, Mark
  <2>4. now < mark[user[v]].exp
    BY <2>1, <2>2, <2>3, ConstantTypes, MarkCoversAccess DEF Jwt
  <2> QED
    BY <2>2, <2>4 DEF Live
<1> QED
  BY <1>1, Invariance, PTL

\* A logged-out access token passes the blacklist check only in the last
\* fraction of a second of its life (Logout, revoke_session).
THEOREM LoggedOut == Spec => []LoggedOutRefused
<1>1. IInv => LoggedOutRefused
  BY DEF IInv
<1> QED
  BY <1>1, Invariance, PTL

\* A user deactivated before a request arrived gets nothing from it
\* (authenticate, rotate_session, get_current_user).
THEOREM Deactivated == Spec => []DeactivatedGetsNothing
<1>1. IInv => DeactivatedGetsNothing
  BY DEF IInv, DisabledIsStopped, DeactivatedGetsNothing
<1> QED
  BY <1>1, Invariance, PTL

\* A token presented after its rotation was answered is taken for a replay
\* until the audit marker expires (rotate_session).
THEOREM Replays == Spec => ReplayDetected
<1> DEFINE Detects ==
      \A r, s \in Request :
        /\ r \in before[s] /\ rt[r] = rt[s] /\ Is(r, "refresh", "ok")
        /\ Is(s, "refresh", None) /\ outcome'[s] = "refused"
        => used[rt[s]] # None /\ ~Live(used[rt[s]])
<1>1. IInv /\ [Next]_vars => [Detects]_vars
  BY ReplayStep
<1>2. ReplayDetected <=> [][Detects]_vars
  BY DEF ReplayDetected
<1> HIDE DEF Detects
<1> QED
  BY <1>1, <1>2, Invariance, PTL DEF Spec

-----------------------------------------------------------------------------
(***************************************************************************)
(* The refinement of TokenLedger.                                          *)
(***************************************************************************)
\* Only five kinds of step move the clock or write a refresh token.
LEMMA LedgerFrame ==
  ASSUME [Next]_vars
  PROVE  \/ \E r \in Request : \/ SetToken(r) \/ DeleteToken(r) \/ LogoutDelete(r)
                               \/ DeleteTokens(r)
         \/ Tick
         \/ UNCHANGED <<now, refresh>>
<1> USE DEF Handling, keys
<1>1. ASSUME NEW r \in Request, Arrival(r) PROVE UNCHANGED <<now, refresh>>
  BY <1>1 DEF Arrival, ArriveLogin, ArriveRefresh, ArriveMe, ArriveLogout, Arrive
<1>2. ASSUME NEW r \in Request, Authenticate(r) \/ CreateStep(r), ~SetToken(r)
      PROVE  UNCHANGED <<now, refresh>>
  BY <1>2 DEF Authenticate, CreateStep, AddToIndex, ExpireIndex, Mint
<1>3. ASSUME NEW r \in Request, RotateStep(r), ~DeleteToken(r)
      PROVE  UNCHANGED <<now, refresh>>
  BY <1>3 DEF RotateStep, GetToken, LoadUser, RemoveFromIndex, SetUsed, GetUsed
<1>4. ASSUME NEW r \in Request, RevokeAllStep(r), ~DeleteTokens(r)
      PROVE  UNCHANGED <<now, refresh>>
  BY <1>4 DEF RevokeAllStep, ReadIndex, DeleteIndex, Stamp, SetMark
<1>5. ASSUME NEW r \in Request, BearerStep(r) PROVE UNCHANGED <<now, refresh>>
  BY <1>5 DEF BearerStep, Decode, CheckBlacklist, CheckMark, CheckActive
<1>6. ASSUME NEW r \in Request, LogoutStep(r), ~LogoutDelete(r)
      PROVE  UNCHANGED <<now, refresh>>
  BY <1>6 DEF LogoutStep, DecodeAgain, LookUp, LogoutRemove, Blacklist
<1>7. ASSUME NEW r \in Request, Fail(r) PROVE UNCHANGED <<now, refresh>>
  BY <1>7 DEF Fail
<1>8. ASSUME NEW u \in User, NEW status \in Admin, Disable(u, status)
      PROVE  UNCHANGED <<now, refresh>>
  BY <1>8 DEF Disable
<1>9. ASSUME UNCHANGED vars PROVE UNCHANGED <<now, refresh>>
  BY <1>9 DEF vars
<1> QED
  BY <1>1, <1>2, <1>3, <1>4, <1>5, <1>6, <1>7, <1>8, <1>9 DEF Next, Step, Quiescent

\* Every step is a step of the ledger, or leaves it unchanged.
LEMMA LedgerStep == IInv /\ [Next]_vars => [Ledger!Next]_(Ledger!vars)
<1> SUFFICES ASSUME IInv, [Next]_vars PROVE [Ledger!Next]_(Ledger!vars)
  OBVIOUS
<1> USE DEF IInv
<1> DEFINE owner == [t \in Request |-> IF Issued(t) THEN user[t] ELSE None]
           live == {t \in Request : Live(refresh[t])}
<1>0. ASSUME \A t \in Request : ~SetToken(t)
      PROVE  owner' = owner
  <2>1. \A t \in Request : /\ Issued(t)' <=> Issued(t)
                           /\ Issued(t) => user'[t] = user[t]
    BY <1>0, IssuedIsStable
  <2> QED
    BY <2>1
<1>1. ASSUME NEW r \in Request, SetToken(r) PROVE Ledger!Next
  <2>1. user[r] \in User /\ ~Issued(r)
    BY <1>1, ConstantTypes
    DEF SetToken, Handling, WellFormed, WellFormedAt, UserKnown, Creating, TokensOfRequest,
        TokensOfRequestAt, Issued
  <2>2. owner' = [owner EXCEPT ![r] = user[r]]
    <3>1. \A t \in Request \ {r} : /\ Issued(t)' <=> Issued(t)
                                   /\ user'[t] = user[t]
      BY <1>1 DEF SetToken, Issued, Delivered, Goto, locals, TypeOK
    <3>2. Issued(r)' /\ user'[r] = user[r]
      BY <1>1 DEF SetToken, Issued, Goto, locals, TypeOK
    <3> QED
      BY <3>1, <3>2
  <2>3. live' = live \cup {r}
    <3>1. [user |-> user[r], exp |-> now + RefreshTTL] \in Key
      BY <2>1, ConstantTypes DEF TypeOK, Key
    <3>2. Live(refresh[r])'
      BY <1>1, <3>1, ConstantTypes DEF SetToken, Handling, Live, TypeOK
    <3>3. \A t \in Request \ {r} : Live(refresh[t])' <=> Live(refresh[t])
      BY <1>1 DEF SetToken, Handling, Live, TypeOK
    <3> QED
      BY <3>2, <3>3
  <2>4. PICK u \in User : u = user[r]
    BY <2>1
  <2>5. Ledger!Issue(r, u)
    BY <1>1, <2>1, <2>2, <2>3, <2>4 DEF Ledger!Issue, SetToken, Handling
  <2> QED
    BY <2>5 DEF Ledger!Next
<1>2. ASSUME NEW r \in Request, DeleteToken(r) \/ LogoutDelete(r) PROVE Ledger!Next
  <2>1. rt[r] \in Request /\ Delivered(rt[r])
    BY <1>2 DEF DeleteToken, LogoutDelete, Handling, WellFormed, WellFormedAt,
       Rotating, LoggingOut
  <2>2. Issued(rt[r]) /\ user[rt[r]] \in User
    BY <2>1 DEF Issued, Delivered, TokensOfRequest, TokensOfRequestAt, TypeOK, Jwt
  <2>3. \A t \in Request : ~SetToken(t)
    BY <1>2 DEF DeleteToken, LogoutDelete, SetToken, Handling, Goto, TypeOK
  <2>4. live' \subseteq live /\ live \ live' \subseteq {rt[r]}
    BY <1>2, <2>1 DEF DeleteToken, LogoutDelete, Handling, Live, TypeOK
  <2>5. owner[rt[r]] = user[rt[r]]
    BY <2>1, <2>2
  <2>6. Ledger!Retire(user[rt[r]])
    BY <1>0, <1>2, <2>3, <2>4, <2>5 DEF Ledger!Retire, DeleteToken, LogoutDelete,
       Handling
  <2> QED
    BY <2>2, <2>6 DEF Ledger!Next
<1>3. ASSUME NEW r \in Request, DeleteTokens(r) PROVE Ledger!Next
  <2>1. user[r] \in User
    BY <1>3 DEF DeleteTokens, Handling, WellFormed, WellFormedAt, UserKnown, Revoking
  <2>2. \A t \in Request : ~SetToken(t)
    BY <1>3 DEF DeleteTokens, SetToken, Handling, Goto, TypeOK
  <2>3. live' \subseteq live /\ live \ live' \subseteq jtis[r]
    BY <1>3 DEF DeleteTokens, Handling, Live, TypeOK
  <2>4. \A t \in jtis[r] : Issued(t) /\ user[t] = user[r]
    BY DEF IndexOfUser, Filed, Issued
  <2>5. \A t \in live \ live' : owner[t] = user[r]
    BY <2>3, <2>4
  <2>6. Ledger!Retire(user[r])
    BY <1>0, <1>3, <2>2, <2>3, <2>5 DEF Ledger!Retire, DeleteTokens, Handling
  <2> QED
    BY <2>1, <2>6 DEF Ledger!Next
<1>4. ASSUME Tick PROVE Ledger!Next
  <2>1. \A t \in Request : ~SetToken(t)
    BY <1>4 DEF Tick, SetToken, Handling, TypeOK
  <2>2. now' > now /\ live' \subseteq live
    <3>1. now \in Nat /\ now' = now + 1 /\ refresh' = refresh
      BY <1>4 DEF Tick, keys, TypeOK
    <3>2. \A t \in Request : refresh[t] # None => refresh[t].exp \in Nat
      BY DEF TypeOK, Key
    <3> QED
      BY <3>1, <3>2 DEF Live
  <2> QED
    BY <1>0, <2>1, <2>2 DEF Ledger!Lapse, Ledger!Next
<1>5. ASSUME UNCHANGED <<now, refresh>> PROVE UNCHANGED Ledger!vars
  <2>1. ASSUME NEW t \in Request, SetToken(t) PROVE FALSE
    <3>1. pc[t] = "set" /\ user[t] \in User
      BY <2>1 DEF SetToken, Handling, WellFormed, WellFormedAt, UserKnown, Creating
    <3>2. [user |-> user[t], exp |-> now + RefreshTTL] \in Key
      BY <3>1, ConstantTypes DEF TypeOK, Key
    <3>3. refresh[t] # None
      BY <1>5, <2>1, <3>2, ConstantTypes DEF SetToken, TypeOK
    <3> QED
      BY <3>1, <3>3 DEF TokensOfRequest, TokensOfRequestAt
  <2> QED
    BY <1>0, <1>5, <2>1 DEF Ledger!vars, Live
<1> QED
  BY <1>1, <1>2, <1>3, <1>4, <1>5, LedgerFrame

\* Refresh tokens behave as TokenLedger says, whatever requests interleave or
\* fail: none is revived, and no step retires tokens of two users.
THEOREM Refinement == Spec => ImplementsLedger
<1>1. Init => Ledger!Init
  BY ConstantTypes DEF Init, Ledger!Init, Issued, Delivered, Live
<1>2. IInv /\ [Next]_vars => [Ledger!Next]_(Ledger!vars)
  BY LedgerStep
<1> QED
  BY <1>1, <1>2, Invariance, PTL DEF Spec, ImplementsLedger, Ledger!Spec
=============================================================================
