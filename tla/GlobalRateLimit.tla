-------------------------- MODULE GlobalRateLimit --------------------------
(***************************************************************************)
(* RateLimitMiddleware (app/core/middlewares.py): every HTTP request runs a *)
(* Lua script on the key rate_limit:ip:{ip}, which Redis evaluates in one  *)
(* step, and is handled only if the count it gets back is within the limit.*)
(*                                                                         *)
(* An address may send a request at any moment, any number of times.       *)
(***************************************************************************)
EXTENDS Integers, Sequences

CONSTANTS
  Ip,       \* client addresses, as get_client_ip returns them
  Limit,    \* RATE_LIMIT_GLOBAL_MAX_REQUESTS
  Window,   \* RATE_LIMIT_GLOBAL_WINDOW_SECONDS, in ticks
  None,     \* nil in Redis
  MaxTime   \* bound on the clock

ASSUME ConstantsAssumption ==
  /\ Limit \in Nat
  /\ Window \in Nat \ {0}
  /\ MaxTime \in Nat
  /\ None \notin [n : Nat, exp : Nat]

VARIABLES
  now,      \* the clock, in ticks
  key,      \* rate_limit:ip:{ip}
  admitted  \* history: when each admitted request was counted, and the expiry
            \* of the key that counted it

vars == <<now, key, admitted>>

\* The count is compared with the limit only: past the limit it is not told apart.
Counter == [n : 1..Limit + 1, exp : Nat]
Admission == [at : Nat, exp : Nat]

TypeOK ==
  /\ now \in Nat
  /\ key \in [Ip -> Counter \cup {None}]
  /\ admitted \in [Ip -> Seq(Admission)]

Init ==
  /\ now = 0
  /\ key = [i \in Ip |-> None]
  /\ admitted = [i \in Ip |-> <<>>]

-----------------------------------------------------------------------------
Live(k) == k # None /\ now < k.exp

\* Faulty variants: the key never expires; every request renews the expiry.
IncrForever(k) ==
  IF k # None
    THEN [n |-> IF k.n > Limit THEN k.n ELSE k.n + 1, exp |-> k.exp]
    ELSE [n |-> 1, exp |-> None]

IncrRenewing(k) ==
  IF Live(k)
    THEN [n |-> IF k.n > Limit THEN k.n ELSE k.n + 1, exp |-> now + Window]
    ELSE [n |-> 1, exp |-> now + Window]

\* _RATE_LIMIT_SCRIPT: INCR keeps the expiry of an existing key; the first
\* request of a window sets it.
Incr(k) ==
  IF Live(k)
    THEN [n |-> IF k.n > Limit THEN k.n ELSE k.n + 1, exp |-> k.exp]
    ELSE [n |-> 1, exp |-> now + Window]

-----------------------------------------------------------------------------
Count(i) == key' = [key EXCEPT ![i] = Incr(key[i])] /\ UNCHANGED now

\* A faulty variant of Admit: a request is refused from the second past the
\* limit on.
AdmitOneMore(i) ==
  /\ Count(i)
  /\ key'[i].n <= Limit + 1
  /\ admitted' = [admitted EXCEPT ![i] =
                    Append(@, [at |-> now, exp |-> key'[i].exp])]

\* dispatch, up to call_next: the request goes on to its handler.
Admit(i) ==
  /\ Count(i)
  /\ key'[i].n <= Limit
  /\ admitted' = [admitted EXCEPT ![i] =
                    Append(@, [at |-> now, exp |-> key'[i].exp])]

\* dispatch answers 429.
Refuse(i) ==
  /\ Count(i)
  /\ key'[i].n > Limit
  /\ UNCHANGED admitted

\* The script ran and its reply was lost: the request is counted and fails.
LoseReply(i) == Count(i) /\ UNCHANGED admitted

Tick == now < MaxTime /\ now' = now + 1 /\ UNCHANGED <<key, admitted>>

Next == Tick \/ \E i \in Ip : Admit(i) \/ Refuse(i) \/ LoseReply(i)

Spec == Init /\ [][Next]_vars

\* Time passes; nothing obliges a client to send a request.
FairSpec == Spec /\ WF_vars(Tick)

-----------------------------------------------------------------------------
\* However an address spaces its requests, more than twice the limit of them
\* are never admitted within the length of a window: the admission that comes
\* 2 * Limit later comes more than Window later (_RATE_LIMIT_SCRIPT).
AtMostTwice ==
  \A i \in Ip : \A k \in DOMAIN admitted[i] :
    k + 2 * Limit \in DOMAIN admitted[i] =>
      admitted[i][k + 2 * Limit].at > admitted[i][k].at + Window

\* An address that was refused is let in again once the window that refused
\* it has ended, even if it never stops sending requests (the script sets the
\* expiry only with the first request).
Blocked(i) == Live(key[i]) /\ key[i].n > Limit

BlockEnds ==
  \A i \in Ip :
    (Blocked(i) /\ now + Window <= MaxTime) ~> ~Blocked(i)

-----------------------------------------------------------------------------
\* "Sliding Window: Client IP-based rate limiting" (DOCUMENTATION.md): at any
\* moment, at most Limit requests were admitted in the window before it.
SlidingWindow ==
  \A i \in Ip : \A k \in DOMAIN admitted[i] :
    k + Limit \in DOMAIN admitted[i] =>
      admitted[i][k + Limit].at >= admitted[i][k].at + Window

=============================================================================
