----------------------- MODULE GlobalRateLimit_proofs -----------------------
(***************************************************************************)
(* What RateLimitMiddleware guarantees for every limit, window and set of  *)
(* addresses.                                                              *)
(***************************************************************************)
EXTENDS GlobalRateLimit, TLAPS

\* An admission falls in the window of the key that counted it.
InWindow(i) ==
  \A k \in DOMAIN admitted[i] :
    LET a == admitted[i][k] IN a.at <= now /\ a.at < a.exp /\ a.exp <= a.at + Window

\* Only the live key can have counted an admission whose window is not over.
Current(i) ==
  \A k \in DOMAIN admitted[i] :
    now < admitted[i][k].exp => Live(key[i]) /\ admitted[i][k].exp = key[i].exp

\* The live key has n requests to its name: admissions before the last n
\* were counted by keys that had expired when it was created.
Counted(i) ==
  Live(key[i]) =>
    /\ key[i].exp <= now + Window
    /\ \A k \in DOMAIN admitted[i] :
         k + key[i].n <= Len(admitted[i]) =>
           admitted[i][k].exp + Window <= key[i].exp

\* Admissions that are Limit apart were counted by different keys.
Spaced(i) ==
  \A k, l \in DOMAIN admitted[i] :
    k + Limit <= l => admitted[i][k].exp + Window <= admitted[i][l].exp

WindowInv(i) == InWindow(i) /\ Current(i) /\ Counted(i) /\ Spaced(i)

IInv == TypeOK /\ \A i \in Ip : WindowInv(i)

\* The invariant holds of a limiter that has seen no request.
LEMMA InitInv == Init => IInv
  BY ConstantsAssumption
  DEF Init, IInv, TypeOK, WindowInv, InWindow, Current, Counted, Spaced, Live, Counter

\* The script returns a count, and the key it leaves is live.
LEMMA IncrResult ==
  ASSUME TypeOK, NEW i \in Ip
  PROVE  /\ Incr(key[i]) \in Counter
         /\ Live(Incr(key[i]))
         /\ Live(key[i]) =>
              /\ Incr(key[i]).exp = key[i].exp
              /\ Incr(key[i]).n >= key[i].n
              /\ Incr(key[i]).n <= Limit => Incr(key[i]).n = key[i].n + 1
         /\ ~Live(key[i]) => Incr(key[i]) = [n |-> 1, exp |-> now + Window]
<1>1. CASE Live(key[i])
  <2>1. key[i] \in Counter
    BY <1>1 DEF TypeOK, Live
  <2> QED
    BY <1>1, <2>1, ConstantsAssumption DEF Incr, Live, Counter, TypeOK
<1>2. CASE ~Live(key[i])
  BY <1>2, ConstantsAssumption DEF Incr, Live, Counter, TypeOK
<1> QED BY <1>1, <1>2

\* Counting a request without admitting it keeps the invariant of its address.
LEMMA CountOnly ==
  ASSUME IInv, NEW i \in Ip, Count(i), UNCHANGED admitted
  PROVE  IInv'
<1>1. TypeOK
  BY DEF IInv
<1>2. key'[i] = Incr(key[i]) /\ now' = now /\ admitted' = admitted
  BY <1>1 DEF Count, TypeOK
<1>3. TypeOK'
  BY <1>1, <1>2, IncrResult DEF Count, TypeOK
<1>4. ASSUME NEW j \in Ip PROVE WindowInv(j)'
  <2>1. CASE j # i
    <3>1. key'[j] = key[j]
      BY <2>1, <1>1 DEF Count, TypeOK
    <3>2. WindowInv(j)
      BY DEF IInv
    <3> QED BY <3>1, <3>2, <1>2
      DEF WindowInv, InWindow, Current, Counted, Spaced, Live
  <2>2. CASE j = i
    <3>1. WindowInv(i)
      BY DEF IInv
    <3>2. InWindow(i)' /\ Spaced(i)'
      BY <3>1, <1>2 DEF WindowInv, InWindow, Spaced
    <3>3. Current(i)'
      BY <3>1, <1>1, <1>2, IncrResult DEF WindowInv, Current, Live
    <3>4. Counted(i)'
      <4>1. admitted[i] \in Seq(Admission) /\ now \in Nat
        BY <1>1 DEF TypeOK
      <4>2. CASE Live(key[i])
        <5>1. key[i] \in Counter
          BY <4>2, <1>1 DEF TypeOK, Live
        <5>2. Incr(key[i]) \in Counter /\ Incr(key[i]).exp = key[i].exp
              /\ Incr(key[i]).n >= key[i].n
          BY <4>2, <1>1, IncrResult
        <5> QED BY <5>1, <5>2, <4>1, <4>2, <3>1, <1>2, ConstantsAssumption
          DEF WindowInv, Counted, Counter
      <4>3. CASE ~Live(key[i])
        <5>1. Incr(key[i]) = [n |-> 1, exp |-> now + Window]
          BY <4>3, <1>1, IncrResult
        <5>2. \A k \in DOMAIN admitted[i] : admitted[i][k] \in Admission
          BY <4>1
        <5>3. \A k \in DOMAIN admitted[i] : admitted[i][k].exp <= now
          BY <5>2, <4>1, <4>3, <3>1 DEF WindowInv, Current, Admission
        <5>4. \A k \in DOMAIN admitted[i] :
                 admitted[i][k].exp + Window <= now + Window
          BY <5>2, <5>3, <4>1, ConstantsAssumption DEF Admission
        <5>5. key'[i].exp = now + Window
          BY <5>1, <1>2
        <5> QED BY <5>4, <5>5, <4>1, <1>2, ConstantsAssumption DEF Counted
      <4> QED BY <4>2, <4>3
    <3> QED BY <2>2, <3>2, <3>3, <3>4 DEF WindowInv
  <2> QED BY <2>1, <2>2
<1> QED BY <1>3, <1>4 DEF IInv

\* Admitting the request it counted keeps it too.
LEMMA AdmitInv ==
  ASSUME IInv, NEW i \in Ip, Admit(i)
  PROVE  IInv'
<1> DEFINE e == Incr(key[i])
           s == admitted[i]
<1>1. TypeOK
  BY DEF IInv
<1>2. /\ key'[i] = e /\ now' = now /\ e \in Counter /\ e.n <= Limit
      /\ admitted'[i] = Append(s, [at |-> now, exp |-> e.exp])
      /\ \A j \in Ip \ {i} : key'[j] = key[j] /\ admitted'[j] = admitted[j]
  BY <1>1, IncrResult DEF Admit, Count, TypeOK
<1>3. s \in Seq(Admission) /\ now \in Nat /\ [at |-> now, exp |-> e.exp] \in Admission
  BY <1>1, <1>2 DEF TypeOK, Admission, Counter
<1>4. TypeOK'
  BY <1>1, <1>2, <1>3 DEF Admit, Count, TypeOK
<1>5. /\ DOMAIN admitted'[i] = 1..Len(s) + 1 /\ DOMAIN s = 1..Len(s) /\ Len(s) \in Nat
      /\ Len(admitted'[i]) = Len(s) + 1
      /\ \A k \in DOMAIN s : admitted'[i][k] = s[k] /\ s[k] \in Admission
      /\ admitted'[i][Len(s) + 1] = [at |-> now, exp |-> e.exp]
  BY <1>2, <1>3
<1> HIDE DEF s
<1>6. WindowInv(i)
  BY DEF IInv
<1>7. now < e.exp /\ e.exp <= now + Window /\ e.exp \in Nat /\ e.n \in Nat
  <2>1. CASE Live(key[i])
    BY <2>1, <1>1, <1>2, <1>6, IncrResult DEF WindowInv, Counted, Live, Counter
  <2>2. CASE ~Live(key[i])
    BY <2>2, <1>1, <1>2, <1>3, IncrResult, ConstantsAssumption DEF Counter
  <2> QED BY <2>1, <2>2
\* What Counted says of the key that counts the new request.
<1>8. \A k \in DOMAIN s : k + e.n <= Len(s) + 1 => s[k].exp + Window <= e.exp
  <2>1. CASE Live(key[i])
    <3>1. key[i] \in Counter /\ e.exp = key[i].exp /\ e.n = key[i].n + 1
      BY <2>1, <1>1, <1>2, IncrResult DEF TypeOK, Live
    <3> QED BY <3>1, <2>1, <1>5, <1>6 DEF WindowInv, Counted, Counter, s
  <2>2. CASE ~Live(key[i])
    <3>1. e = [n |-> 1, exp |-> now + Window]
      BY <2>2, <1>1, IncrResult
    <3>2. \A k \in DOMAIN s : s[k].exp <= now
      BY <2>2, <1>3, <1>5, <1>6 DEF WindowInv, Current, Admission, s
    <3> QED BY <3>1, <3>2, <1>3, <1>5, ConstantsAssumption DEF Admission
  <2> QED BY <2>1, <2>2
<1>9. ASSUME NEW j \in Ip PROVE WindowInv(j)'
  <2>1. CASE j # i
    <3>1. WindowInv(j)
      BY DEF IInv
    <3> QED BY <3>1, <2>1, <1>2
      DEF WindowInv, InWindow, Current, Counted, Spaced, Live
  <2>2. CASE j = i
    <3>1. InWindow(i)'
      BY <1>2, <1>3, <1>5, <1>6, <1>7 DEF WindowInv, InWindow, s
    <3>2. Current(i)'
      <4>1. \A k \in DOMAIN s : now < s[k].exp => s[k].exp = e.exp
        BY <1>1, <1>6, IncrResult DEF WindowInv, Current, s
      <4>2. Live(e)
        BY <1>1, IncrResult
      <4> QED BY <4>1, <4>2, <1>2, <1>5 DEF Current, Live
    <3>3. Counted(i)'
      <4> SUFFICES ASSUME NEW k \in 1..Len(s) + 1, k + e.n <= Len(s) + 1
                   PROVE  admitted'[i][k].exp + Window <= e.exp
        BY <1>2, <1>5, <1>7 DEF Counted
      <4>1. e.n >= 1
        BY <1>2 DEF Counter
      <4>2. k \in DOMAIN s
        BY <4>1, <1>5, <1>7
      <4> QED BY <4>2, <1>5, <1>8
    <3>4. Spaced(i)'
      <4> SUFFICES ASSUME NEW k \in 1..Len(s) + 1, NEW l \in 1..Len(s) + 1, k + Limit <= l
                   PROVE  admitted'[i][k].exp + Window <= admitted'[i][l].exp
        BY <1>5 DEF Spaced
      <4>0. k \in DOMAIN s
        BY <1>2, <1>5, <1>7, ConstantsAssumption DEF Counter
      <4>1. CASE l \in DOMAIN s
        BY <4>0, <4>1, <1>5, <1>6 DEF WindowInv, Spaced, s
      <4>2. CASE l = Len(s) + 1
        BY <4>0, <4>2, <1>2, <1>5, <1>7, <1>8, ConstantsAssumption
      <4> QED BY <4>1, <4>2, <1>5
    <3> QED BY <2>2, <3>1, <3>2, <3>3, <3>4 DEF WindowInv
  <2> QED BY <2>1, <2>2
<1> QED BY <1>4, <1>9 DEF IInv

\* The clock moves: a key, or a window, may only come to its end.
LEMMA TickInv ==
  ASSUME IInv, Tick
  PROVE  IInv'
<1>1. now \in Nat /\ now' = now + 1 /\ key' = key /\ admitted' = admitted
  BY DEF IInv, TypeOK, Tick
<1>2. TypeOK'
  BY <1>1 DEF IInv, TypeOK
<1>3. ASSUME NEW i \in Ip PROVE WindowInv(i)'
  <2>1. WindowInv(i) /\ admitted[i] \in Seq(Admission) /\ key[i] \in Counter \cup {None}
    BY DEF IInv, TypeOK
  <2>2. Live(key[i])' => Live(key[i])
    BY <1>1, <2>1, ConstantsAssumption DEF Live, Counter
  <2>0. \A k \in DOMAIN admitted[i] : admitted[i][k] \in Admission
    BY <2>1
  <2>3. InWindow(i)' /\ Spaced(i)'
    <3>1. InWindow(i)'
      BY <1>1, <2>0, <2>1 DEF WindowInv, InWindow, Admission
    <3>2. Spaced(i)'
      BY <1>1, <2>1 DEF WindowInv, Spaced
    <3> QED BY <3>1, <3>2
  <2>4. Current(i)'
    <3> SUFFICES ASSUME NEW k \in DOMAIN admitted[i], now + 1 < admitted[i][k].exp
                 PROVE  Live(key[i])' /\ admitted[i][k].exp = key[i].exp
      BY <1>1 DEF Current
    <3>1. now < admitted[i][k].exp
      BY <1>1, <2>0 DEF Admission
    <3>2. Live(key[i]) /\ admitted[i][k].exp = key[i].exp
      BY <2>1, <3>1 DEF WindowInv, Current
    <3> QED BY <1>1, <3>2 DEF Live
  <2>5. Counted(i)'
    <3>1. ASSUME Live(key[i])' PROVE key[i] \in Counter
      BY <3>1, <1>1, <2>1 DEF Live
    <3> QED BY <3>1, <1>1, <2>1, <2>2, ConstantsAssumption
      DEF WindowInv, Counted, Counter
  <2> QED BY <2>3, <2>4, <2>5 DEF WindowInv
<1> QED BY <1>2, <1>3 DEF IInv

\* The invariant holds throughout.
THEOREM Invariance == Spec => []IInv
<1>1. IInv /\ [Next]_vars => IInv'
  <2> SUFFICES ASSUME IInv, [Next]_vars PROVE IInv'
    OBVIOUS
  <2>1. CASE Tick
    BY <2>1, TickInv
  <2>2. ASSUME NEW i \in Ip, Admit(i) PROVE IInv'
    BY <2>2, AdmitInv
  <2>3. ASSUME NEW i \in Ip, Refuse(i) PROVE IInv'
    BY <2>3, CountOnly DEF Refuse
  <2>4. ASSUME NEW i \in Ip, LoseReply(i) PROVE IInv'
    BY <2>4, CountOnly DEF LoseReply
  <2>5. CASE UNCHANGED vars
    BY <2>5 DEF vars, IInv, TypeOK, WindowInv, InWindow, Current, Counted, Spaced, Live
  <2> QED BY <2>1, <2>2, <2>3, <2>4, <2>5 DEF Next
<1> QED BY <1>1, InitInv, PTL DEF Spec

\* Every variable keeps its type: the key holds a count and an expiry, also when
\* the reply of the script is lost.
THEOREM TypeCorrect == Spec => []TypeOK
<1>1. IInv => TypeOK
  BY DEF IInv
<1> QED BY <1>1, Invariance, PTL

\* The middleware never admits more than twice its limit within a window,
\* whatever the limit, the window and the timing of the requests.
THEOREM TwiceTheLimit == Spec => []AtMostTwice
<1>1. IInv => AtMostTwice
  <2> SUFFICES ASSUME IInv, NEW i \in Ip, NEW k \in DOMAIN admitted[i],
                      k + 2 * Limit \in DOMAIN admitted[i]
               PROVE  admitted[i][k + 2 * Limit].at > admitted[i][k].at + Window
    BY DEF AtMostTwice
  <2>1. WindowInv(i) /\ admitted[i] \in Seq(Admission)
    BY DEF IInv, TypeOK
  <2>2. k + Limit \in DOMAIN admitted[i]
    BY <2>1, ConstantsAssumption
  <2>3. admitted[i][k].exp + Window <= admitted[i][k + Limit].exp
    BY <2>1, <2>2, ConstantsAssumption DEF WindowInv, Spaced
  <2>4. admitted[i][k + Limit].exp + Window <= admitted[i][k + 2 * Limit].exp
    BY <2>1, <2>2, ConstantsAssumption DEF WindowInv, Spaced
  <2>5. /\ admitted[i][k] \in Admission
        /\ admitted[i][k + Limit] \in Admission
        /\ admitted[i][k + 2 * Limit] \in Admission
    BY <2>1, <2>2
  <2>6. /\ admitted[i][k].at < admitted[i][k].exp
        /\ admitted[i][k + 2 * Limit].exp <= admitted[i][k + 2 * Limit].at + Window
    BY <2>1 DEF WindowInv, InWindow
  <2> QED BY <2>3, <2>4, <2>5, <2>6, ConstantsAssumption DEF Admission
<1> QED BY <1>1, Invariance, PTL

=============================================================================
