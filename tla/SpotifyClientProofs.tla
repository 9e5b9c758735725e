-------------------------- MODULE SpotifyClientProofs --------------------------
(***************************************************************************)
(* The limiter and the retry layers, for any quota, any number of calls,   *)
(* any schedule and any retry budget.                                      *)
(***************************************************************************)
EXTENDS SpotifyClient, WellFoundedInduction, TLAPS

-----------------------------------------------------------------------------
(* The limiter.                                                            *)

LEMMA QuotaFacts ==
    /\ Period \in Nat /\ Period > 0
    /\ Burst \in Nat /\ Burst > 0
    /\ Window \in Nat
    /\ Burst * Period \in Nat
    /\ (Burst - 1) * Period = Burst * Period - Period
BY QuotaAssumption

LEMMA GovernorInitially == GovernorInit => GovernorInv
BY QuotaFacts DEF GovernorInit, GovernorInv, GovernorTypeOK

(* A permit adds Period to what is owed, and only to a debt that leaves    *)
(* room for it.                                                            *)
LEMMA PermitKeeps == ASSUME GovernorInv, Permit PROVE GovernorInv'
<1> USE QuotaFacts
<1>1. /\ debt \in Nat /\ sent \in Nat /\ elapsed \in 0..Window
      /\ debt' = debt + Period /\ sent' = sent + 1 /\ elapsed' = elapsed
      /\ debt <= Burst * Period - Period
  BY DEF GovernorInv, GovernorTypeOK, Permit, Count, Ready
<1>2. Period * (sent + 1) = Period * sent + Period
  BY <1>1
<1>3. Period * sent' <= debt' + elapsed'
  BY <1>1, <1>2 DEF GovernorInv
<1>4. debt' <= Burst * Period
  BY <1>1
<1> QED
  BY <1>1, <1>3, <1>4 DEF GovernorInv, GovernorTypeOK

(* Time pays back 1 and lengthens the window by 1.                         *)
LEMMA PaidBack ==
    ASSUME NEW d \in Nat, NEW d1 \in Nat, d1 + 1 >= d,
           NEW e \in Nat, NEW owed \in Nat, owed <= d + e
    PROVE  owed <= d1 + (e + 1)
OBVIOUS

(* A tick pays back 1 of the debt at most, and lengthens the window by 1,  *)
(* or opens a window that owes nothing yet.                                *)
LEMMA ElapseKeeps == ASSUME GovernorInv, Elapse PROVE GovernorInv'
<1> USE QuotaFacts
<1>1. debt \in Nat /\ debt' \in Nat /\ debt' <= debt /\ debt' + 1 >= debt
  BY DEF GovernorInv, GovernorTypeOK, Elapse
<1>2. debt' <= Burst * Period
  BY <1>1 DEF GovernorInv
<1>3. CASE elapsed < Window /\ elapsed' = elapsed + 1 /\ UNCHANGED sent
  <2>1. GovernorTypeOK'
    BY <1>1, <1>3 DEF GovernorInv, GovernorTypeOK
  <2>2. elapsed \in Nat /\ Period * sent \in Nat /\ Period * sent <= debt + elapsed
    BY DEF GovernorInv, GovernorTypeOK
  <2>3. Period * sent <= debt' + (elapsed + 1)
    BY <1>1, <2>2, PaidBack
  <2> QED
    BY <1>2, <1>3, <2>1, <2>3 DEF GovernorInv
<1>4. CASE elapsed' = 0 /\ sent' = 0
  <2>1. GovernorTypeOK'
    BY <1>1, <1>4 DEF GovernorTypeOK
  <2>2. Period * 0 = 0
    OBVIOUS
  <2>3. Period * sent' <= debt' + elapsed'
    <3>1. 0 = elapsed' /\ 0 = sent'
      BY <1>4
    <3> QED
      BY <1>1, <2>2, <3>1
  <2> QED
    BY <1>2, <2>1, <2>3 DEF GovernorInv
<1> QED
  BY <1>3, <1>4 DEF Elapse

(* A debt within the burst, and all that was counted in the window either  *)
(* still owed or paid back by the window's time.                           *)
THEOREM GovernorInvariance == GovernorSpec => []GovernorInv
<1>1. GovernorInv /\ [GovernorNext]_governorVars => GovernorInv'
  <2> SUFFICES ASSUME GovernorInv, [GovernorNext]_governorVars PROVE GovernorInv'
    OBVIOUS
  <2>1. CASE UNCHANGED governorVars
    BY <2>1 DEF governorVars, GovernorInv, GovernorTypeOK
  <2> QED
    BY <2>1, PermitKeeps, ElapseKeeps DEF GovernorNext
<1> QED
  BY <1>1, GovernorInitially, PTL DEF GovernorSpec

(* No window of any length holds more than the burst and one request per   *)
(* Period, whatever the quota.                                             *)
THEOREM Pacing == GovernorSpec => []PacingBound
<1>1. GovernorInv => PacingBound
  <2> SUFFICES ASSUME GovernorInv PROVE PacingBound
    OBVIOUS
  <2>1. Period * sent \in Nat /\ debt \in Nat /\ elapsed \in Nat
    BY QuotaFacts DEF GovernorInv, GovernorTypeOK
  <2> QED
    BY <2>1, QuotaFacts DEF GovernorInv, PacingBound
<1> QED
  BY <1>1, GovernorInvariance, PTL

(* Cancelling a positive factor.                                           *)
LEMMA Cancel ==
    ASSUME NEW k \in Nat, k > 0, NEW x \in Nat, NEW y \in Nat, k * x < k * y
    PROVE  x < y
<1> SUFFICES ASSUME x >= y PROVE FALSE
  OBVIOUS
<1>1. PICK z \in Nat : x = y + z
  <2>1. x - y \in Nat /\ x = y + (x - y)
    OBVIOUS
  <2> QED
    BY <2>1
<1>2. k * x = k * y + k * z
  BY <1>1
<1>3. k * z \in Nat /\ k * x \in Nat /\ k * y \in Nat
  OBVIOUS
<1> QED
  BY <1>2, <1>3

(* The requests that fit into a window: the burst, and one per Period.     *)
QuotaAllows(limit) == Burst * Period + Window < (limit + 1) * Period

(* The limiter keeps every limit that its quota allows.  For the quota of  *)
(* ReqwestSpotifyClient::new that is 40 requests in 30 s, not 30.          *)
THEOREM WindowLimit ==
    ASSUME NEW limit \in Nat, QuotaAllows(limit)
    PROVE  GovernorSpec => []AtMost(limit)
<1>1. GovernorInv => AtMost(limit)
  <2> SUFFICES ASSUME GovernorInv PROVE sent < limit + 1
    BY DEF AtMost, GovernorInv, GovernorTypeOK
  <2>1. sent \in Nat /\ debt \in Nat /\ elapsed \in Nat /\ elapsed <= Window
    BY QuotaFacts DEF GovernorInv, GovernorTypeOK
  <2>2. Period * sent <= Burst * Period + Window
    <3>1. Period * sent \in Nat
      BY <2>1, QuotaFacts
    <3> QED
      BY <2>1, <3>1, QuotaFacts DEF GovernorInv
  <2>3. Period * sent < Period * (limit + 1)
    <3>1. /\ Period * (limit + 1) = (limit + 1) * Period
          /\ Period * sent \in Nat /\ Period * (limit + 1) \in Nat
      BY <2>1, QuotaFacts
    <3> QED
      BY <2>2, <3>1, QuotaFacts DEF QuotaAllows
  <2> QED
    BY <2>1, <2>3, Cancel, QuotaFacts
<1> QED
  BY <1>1, GovernorInvariance, PTL

-----------------------------------------------------------------------------
(* The chain of middlewares over the limiter.                              *)

LEMMA GovernorSteps == [ClientNext]_clientVars => [GovernorNext]_governorVars
<1> SUFFICES ASSUME [ClientNext]_clientVars PROVE [GovernorNext]_governorVars
  OBVIOUS
<1>1. CASE ClockTick
  BY <1>1 DEF ClockTick, GovernorNext
<1>2. ASSUME NEW c \in Calls, Acquire(c) PROVE GovernorNext
  BY <1>2 DEF Acquire, GovernorNext
<1>3. ASSUME NEW c \in Calls, Progress(c) \/ Drop(c), ~Acquire(c)
      PROVE  UNCHANGED governorVars
  BY <1>3 DEF Progress, Start, AnswerOk, AnswerError, AnswerServerError,
              AnswerTooMany, Retry, RunAgain, Drop
<1>4. CASE UNCHANGED clientVars
  BY <1>4 DEF clientVars
<1> QED
  BY <1>1, <1>2, <1>3, <1>4 DEF ClientNext

(* What the calls send, retries included, is traffic the limiter admits.   *)
THEOREM EveryRequestPaced == ClientSpec => PacedTraffic
<1>1. ClientInit => GovernorInit
  BY DEF ClientInit
<1> QED
  BY <1>1, GovernorSteps, PTL DEF ClientSpec, PacedTraffic, GovernorSpec

(* So the pacing bound holds of a service that retries.                    *)
THEOREM ClientPacing == ClientSpec => []PacingBound
BY EveryRequestPaced, Pacing, PTL DEF PacedTraffic

(* And the limit that the quota allows is one for the whole retry chain.   *)
THEOREM ClientWindowLimit ==
    ASSUME NEW limit \in Nat, QuotaAllows(limit)
    PROVE  ClientSpec => []AtMost(limit)
BY EveryRequestPaced, WindowLimit, PTL DEF PacedTraffic

-----------------------------------------------------------------------------
(* The books of one call, as RetryInv keeps them.                          *)
CallInv(c) ==
    /\ callPc[c] \notin CallEnded =>
         /\ callPc[c] \in {"start", "permit", "flight"} => streak[c] = attempt[c]
         /\ callPc[c] = "backoff" => streak[c] = attempt[c] + 1 /\ attempt[c] < MaxRetries
         /\ callPc[c] = "pausing" => streak[c] = 0 /\ run[c] = 1
         /\ sends[c] <= (run[c] - 1) * (MaxRetries + 1) + attempt[c]
                          + IF Outstanding(c) THEN 1 ELSE 0
    /\ callPc[c] = "server_error" => streak[c] > MaxRetries
    /\ sends[c] <= 2 * (MaxRetries + 1)

RetryTypeOK ==
    /\ callPc \in [Calls -> CallState]
    /\ run \in [Calls -> 1..2]
    /\ attempt \in [Calls -> 0..MaxRetries]
    /\ sends \in [Calls -> Nat]
    /\ streak \in [Calls -> Nat]

LEMMA RetryInvSplit == RetryInv <=> RetryTypeOK /\ \A c \in Calls : CallInv(c)
BY DEF RetryInv, RetryTypeOK, CallInv, ServerErrorExhausted, AttemptsBounded

LEMMA RetryInitially == ClientInit => RetryInv
<1> SUFFICES ASSUME ClientInit PROVE RetryTypeOK /\ \A c \in Calls : CallInv(c)
  BY RetryInvSplit
<1>1. RetryTypeOK
  BY RetryAssumption DEF ClientInit, RetryTypeOK, CallState
<1>2. ASSUME NEW c \in Calls PROVE CallInv(c)
  BY RetryAssumption DEF ClientInit, CallInv, Outstanding, CallEnded
<1> QED
  BY <1>1, <1>2

(* A step of one call leaves the books of the others alone.                *)
Aside(c) == \A d \in Calls \ {c} :
    /\ callPc'[d] = callPc[d]
    /\ run'[d] = run[d]
    /\ attempt'[d] = attempt[d]
    /\ sends'[d] = sends[d]
    /\ streak'[d] = streak[d]

LEMMA StepAside ==
    ASSUME RetryTypeOK, NEW c \in Calls, Progress(c) \/ Drop(c) PROVE Aside(c)
<1> USE DEF RetryTypeOK, CallTo, End, Set, Aside
<1>1. CASE Start(c)
  BY <1>1 DEF Start
<1>2. CASE Acquire(c)
  BY <1>2 DEF Acquire
<1>3. CASE AnswerOk(c)
  BY <1>3 DEF AnswerOk
<1>4. CASE AnswerError(c)
  BY <1>4 DEF AnswerError
<1>5. CASE AnswerServerError(c)
  BY <1>5 DEF AnswerServerError
<1>6. CASE AnswerTooMany(c)
  BY <1>6 DEF AnswerTooMany
<1>7. CASE Retry(c)
  BY <1>7 DEF Retry
<1>8. CASE RunAgain(c)
  BY <1>8 DEF RunAgain
<1>9. CASE Drop(c)
  BY <1>9 DEF Drop
<1> QED
  BY <1>1, <1>2, <1>3, <1>4, <1>5, <1>6, <1>7, <1>8, <1>9 DEF Progress

LEMMA OwnBooks ==
    ASSUME RetryTypeOK, NEW c \in Calls, CallInv(c), Progress(c) \/ Drop(c)
    PROVE  RetryTypeOK' /\ CallInv(c)'
<1> USE RetryAssumption
        DEF RetryTypeOK, CallInv, CallTo, End, Set, CallState, CallEnded, Outstanding
<1>0. (run[c] - 1) * (MaxRetries + 1) = IF run[c] = 2 THEN MaxRetries + 1 ELSE 0
  OBVIOUS
<1>1. CASE Start(c)
  BY <1>0, <1>1 DEF Start
<1>2. CASE Acquire(c)
  BY <1>0, <1>2 DEF Acquire
<1>3. CASE AnswerOk(c)
  BY <1>0, <1>3 DEF AnswerOk
<1>4. CASE AnswerError(c)
  BY <1>0, <1>4 DEF AnswerError
<1>5. CASE AnswerServerError(c)
  BY <1>0, <1>5 DEF AnswerServerError
<1>6. CASE AnswerTooMany(c)
  BY <1>0, <1>6 DEF AnswerTooMany
<1>7. CASE Retry(c)
  BY <1>0, <1>7 DEF Retry
<1>8. CASE RunAgain(c)
  BY <1>0, <1>8 DEF RunAgain
<1>9. CASE Drop(c)
  BY <1>0, <1>9 DEF Drop
<1> QED
  BY <1>1, <1>2, <1>3, <1>4, <1>5, <1>6, <1>7, <1>8, <1>9 DEF Progress

(* The books of every call stay in order.                                  *)
THEOREM RetryInvariance == ClientSpec => []RetryInv
<1>1. RetryInv /\ [ClientNext]_clientVars => RetryInv'
  <2> SUFFICES ASSUME RetryTypeOK, \A c \in Calls : CallInv(c), [ClientNext]_clientVars
               PROVE  RetryTypeOK' /\ \A c \in Calls : CallInv(c)'
    BY RetryInvSplit
       DEF RetryInv, RetryTypeOK, CallInv, ServerErrorExhausted, AttemptsBounded
  <2>1. CASE UNCHANGED <<callPc, run, attempt, sends, streak>>
    BY <2>1 DEF RetryTypeOK, CallInv, Outstanding
  <2>2. ASSUME NEW c \in Calls, Progress(c) \/ Drop(c)
        PROVE  RetryTypeOK' /\ \A d \in Calls : CallInv(d)'
    <3>1. RetryTypeOK' /\ CallInv(c)'
      BY <2>2, OwnBooks
    <3>2. ASSUME NEW d \in Calls, d # c PROVE CallInv(d)'
      BY <2>2, <3>2, StepAside DEF Aside, CallInv, Outstanding
    <3> QED
      BY <3>1, <3>2
  <2>3. CASE ClockTick
    BY <2>1, <2>3 DEF ClockTick
  <2>4. CASE UNCHANGED clientVars
    BY <2>1, <2>4 DEF clientVars, callVars
  <2> QED
    BY <2>2, <2>3, <2>4 DEF ClientNext
<1> QED
  BY <1>1, RetryInitially, PTL DEF ClientSpec

(* No call sends more than two runs' worth of requests.                    *)
THEOREM BoundedAttempts == ClientSpec => []AttemptsBounded
BY RetryInvariance, PTL DEF RetryInv

(* No call surfaces a 5xx before it has met max_retries + 1 in a row.      *)
THEOREM ExhaustedServerErrors == ClientSpec => []ServerErrorExhausted
BY RetryInvariance, PTL DEF RetryInv
-----------------------------------------------------------------------------
(* The doubling of backoff_delay.  A recursive function is whatever CHOOSE *)
(* takes for its equation, so that there is one must be shown first: from  *)
(* the functions on 0..n that double, by induction on n, with a set where  *)
(* an induction rule would take a predicate.                               *)

LEMMA LeastOf ==
    ASSUME NEW T, T \subseteq Nat, T # {}
    PROVE  \E x \in T : \A y \in T : ~(y < x)
<1> DEFINE R == {p \in Nat \X Nat : p[1] < p[2]}
<1>1. IsWellFoundedOn(R, Nat)
  <2>1. R = OpToRel(<, Nat)
    BY DEF OpToRel
  <2> QED
    BY <2>1, NatLessThanWellFounded
<1>2. \E x \in T : \A y \in T : ~ (<<y, x>> \in R)
  BY <1>1, WFMin
<1>3. \A x, y \in Nat : y < x => <<y, x>> \in R
  OBVIOUS
<1> QED
  BY <1>2, <1>3

LEMMA Induct ==
    ASSUME NEW S \in SUBSET Nat, 0 \in S, \A n \in S : n + 1 \in S
    PROVE  S = Nat
<1> SUFFICES ASSUME Nat \ S # {} PROVE FALSE
  OBVIOUS
<1>1. PICK m \in Nat \ S : \A y \in Nat \ S : ~(y < m)
  BY LeastOf
<1>2. m # 0 /\ m - 1 \in Nat /\ m - 1 < m /\ (m - 1) + 1 = m
  BY <1>1
<1> QED
  BY <1>1, <1>2

(* g doubles, from 1, on 0..n.                                             *)
Doubles(n, g) ==
    /\ g \in [0..n -> Nat]
    /\ g[0] = 1
    /\ \A i \in 1..n : g[i] = 2 * g[i - 1]

LEMMA DoublesExists == \A n \in Nat : \E g : Doubles(n, g)
<1> DEFINE S == {n \in Nat : \E g : Doubles(n, g)}
<1>1. 0 \in S
  <2>1. Doubles(0, [i \in 0..0 |-> 1])
    BY DEF Doubles
  <2> QED
    BY <2>1
<1>2. ASSUME NEW n \in S PROVE n + 1 \in S
  <2>1. PICK g : Doubles(n, g)
    BY <1>2
  <2> DEFINE h == [i \in 0..n + 1 |-> IF i = n + 1 THEN 2 * g[n] ELSE g[i]]
  <2>2. h \in [0..n + 1 -> Nat] /\ h[0] = 1
    BY <2>1 DEF Doubles
  <2>3. ASSUME NEW i \in 1..n + 1 PROVE h[i] = 2 * h[i - 1]
    BY <2>1 DEF Doubles
  <2> HIDE DEF h
  <2>4. Doubles(n + 1, h)
    BY <2>2, <2>3 DEF Doubles
  <2> QED
    BY <2>4
<1> HIDE DEF S
<1>3. S = Nat
  BY <1>1, <1>2, Induct DEF S
<1> QED
  BY <1>3 DEF S

LEMMA DoublesUnique ==
    ASSUME NEW n \in Nat, NEW m \in Nat, NEW g, NEW h, Doubles(n, g), Doubles(m, h)
    PROVE  \A i \in Nat : i <= n /\ i <= m => g[i] = h[i]
<1> DEFINE S == {i \in Nat : i <= n /\ i <= m => g[i] = h[i]}
<1>1. 0 \in S
  BY DEF Doubles
<1>2. ASSUME NEW i \in S PROVE i + 1 \in S
  <2> SUFFICES ASSUME i + 1 <= n, i + 1 <= m PROVE g[i + 1] = h[i + 1]
    BY <1>2
  <2>1. g[i] = h[i] /\ i + 1 \in 1..n /\ i + 1 \in 1..m /\ (i + 1) - 1 = i
    BY <1>2
  <2> QED
    BY <2>1 DEF Doubles
<1> HIDE DEF S
<1>3. S = Nat
  BY <1>1, <1>2, Induct DEF S
<1> QED
  BY <1>3 DEF S

LEMMA DoublingExists == \E f : f = [n \in Nat |-> IF n = 0 THEN 1 ELSE 2 * f[n - 1]]
<1> DEFINE G(n) == CHOOSE g : Doubles(n, g)
           F == [n \in Nat |-> G(n)[n]]
<1>1. \A n \in Nat : Doubles(n, G(n))
  BY DoublesExists
<1>2. F = [n \in Nat |-> F[n]]
  OBVIOUS
<1>3. \A n \in Nat : F[n] = G(n)[n]
  OBVIOUS
<1> HIDE DEF G, F
<1>4. ASSUME NEW n \in Nat PROVE F[n] = IF n = 0 THEN 1 ELSE 2 * F[n - 1]
  <2>1. CASE n = 0
    BY <1>1, <1>3, <2>1 DEF Doubles
  <2>2. CASE n # 0
    <3>1. n - 1 \in Nat /\ n \in 1..n /\ n - 1 <= n
      BY <2>2
    <3>2. G(n)[n - 1] = G(n - 1)[n - 1]
      BY <1>1, <3>1, DoublesUnique
    <3>3. G(n)[n] = 2 * G(n)[n - 1]
      BY <1>1, <3>1 DEF Doubles
    <3> QED
      BY <1>3, <2>2, <3>1, <3>2, <3>3
  <2> QED
    BY <2>1, <2>2
<1>5. F = [n \in Nat |-> IF n = 0 THEN 1 ELSE 2 * F[n - 1]]
  BY <1>2, <1>4, Zenon
<1> QED
  BY <1>5

LEMMA TwoToEquation == TwoTo = [n \in Nat |-> IF n = 0 THEN 1 ELSE 2 * TwoTo[n - 1]]
BY DoublingExists DEF TwoTo

(* The delay doubles from attempt to attempt, from the base on.            *)
LEMMA TwoToDoubles ==
    TwoTo \in [Nat -> Nat] /\ TwoTo[0] = 1 /\ \A n \in Nat : TwoTo[n + 1] = 2 * TwoTo[n]
<1>1. ASSUME NEW n \in Nat PROVE TwoTo[n] = IF n = 0 THEN 1 ELSE 2 * TwoTo[n - 1]
  BY TwoToEquation
<1>2. TwoTo[0] = 1
  BY <1>1
<1>3. ASSUME NEW n \in Nat PROVE TwoTo[n + 1] = 2 * TwoTo[n]
  <2>1. n + 1 \in Nat /\ n + 1 # 0 /\ (n + 1) - 1 = n
    OBVIOUS
  <2> QED
    BY <1>1, <2>1
<1> DEFINE S == {n \in Nat : TwoTo[n] \in Nat}
<1>4. S = Nat
  <2>1. 0 \in S
    BY <1>2
  <2>2. ASSUME NEW n \in S PROVE n + 1 \in S
    BY <1>3, <2>2
  <2> HIDE DEF S
  <2>3. S \in SUBSET Nat
    BY DEF S
  <2> QED
    BY <2>1, <2>2, <2>3, Induct
<1>5. TwoTo = [n \in Nat |-> TwoTo[n]]
  BY TwoToEquation
<1>6. TwoTo \in [Nat -> Nat]
  BY <1>4, <1>5
<1> QED
  BY <1>2, <1>3, <1>6
-----------------------------------------------------------------------------
(* The timers.                                                             *)

LEMMA ScheduleFacts ==
    /\ Base \in Nat /\ JitterMax \in Nat /\ Second \in Nat /\ Second > 0
    /\ WaitCap \in Nat /\ WaitCap >= Second
    /\ \A header \in RetryAfters : header \in Int /\ header % Second = 0
BY ScheduleAssumption

LEMMA PauseFacts ==
    ASSUME NEW header \in RetryAfters \cup {0}
    PROVE  /\ PauseFor(header) \in Nat
           /\ Second <= PauseFor(header) /\ PauseFor(header) <= WaitCap
           /\ header <= PauseFor(header) \/ PauseFor(header) = WaitCap
<1> USE ScheduleFacts
<1>0. header \in Int /\ (header <= 0 \/ header >= Second)
  <2>1. header \in Int /\ header % Second = 0
    OBVIOUS
  <2>2. header > 0 /\ header < Second => header % Second = header
    BY <2>1
  <2> QED
    BY <2>1, <2>2
<1>1. CASE header <= 0
  <2>1. PauseFor(header) = Second
    BY <1>1 DEF PauseFor
  <2> QED
    BY <1>0, <1>1, <2>1
<1>2. CASE ~(header <= 0) /\ header > WaitCap
  <2>1. PauseFor(header) = WaitCap
    BY <1>2 DEF PauseFor
  <2> QED
    BY <1>0, <1>2, <2>1
<1>3. CASE ~(header <= 0) /\ ~(header > WaitCap)
  <2>1. PauseFor(header) = header
    BY <1>3 DEF PauseFor
  <2> QED
    BY <1>0, <1>3, <2>1
<1> QED
  BY <1>1, <1>2, <1>3

LEMMA BackoffFacts ==
    ASSUME NEW n \in Nat
    PROVE  /\ BackoffFloor(n) \in Nat
           /\ BackoffFloor(n + 1) = Base * TwoTo[n]
           /\ \A delay \in BackoffDelays(n) : delay \in Nat /\ delay >= BackoffFloor(n + 1)
<1>1. TwoTo[n] \in Nat
  BY TwoToDoubles
<1>2. Base * TwoTo[n] \in Nat
  BY <1>1, ScheduleFacts
<1>3. BackoffFloor(n) \in Nat
  <2>1. CASE n = 0
    BY <2>1 DEF BackoffFloor
  <2>2. CASE n # 0
    <3>1. TwoTo[n - 1] \in Nat
      BY <2>2, TwoToDoubles
    <3>2. Base * TwoTo[n - 1] \in Nat
      BY <3>1, ScheduleFacts
    <3> QED
      BY <2>2, <3>2 DEF BackoffFloor
  <2> QED
    BY <2>1, <2>2
<1>4. BackoffFloor(n + 1) = Base * TwoTo[n]
  <2>1. n + 1 # 0 /\ (n + 1) - 1 = n
    OBVIOUS
  <2> QED
    BY <2>1 DEF BackoffFloor
<1>5. ASSUME NEW delay \in BackoffDelays(n)
      PROVE  delay \in Nat /\ delay >= Base * TwoTo[n]
  <2>1. PICK jitter \in 0..JitterMax : delay = Base * TwoTo[n] + jitter
    BY DEF BackoffDelays
  <2> QED
    BY <1>2, <2>1, ScheduleFacts
<1> QED
  BY <1>3, <1>4, <1>5

(* The schedule of n + 1 retries is that of n and the delay of the last.   *)
LEMMA RunSleepFacts ==
    /\ RunSleep(0) = 0
    /\ \A n \in Nat : /\ RunSleep(n) \in Nat
                     /\ RunSleep(n + 1) \in Nat
                     /\ RunSleep(n + 1) = RunSleep(n) + (Base * TwoTo[n] + JitterMax)
<1> USE ScheduleFacts
<1>1. RunSleep(0) = 0
  BY TwoToDoubles DEF RunSleep
<1>2. ASSUME NEW n \in Nat
      PROVE  RunSleep(n + 1) = RunSleep(n) + (Base * TwoTo[n] + JitterMax)
  <2>1. TwoTo[n] \in Nat /\ TwoTo[n + 1] = 2 * TwoTo[n]
    BY TwoToDoubles
  <2>2. ASSUME NEW x \in Nat
        PROVE  Base * (2 * x - 1) + (n + 1) * JitterMax
                 = (Base * (x - 1) + n * JitterMax) + (Base * x + JitterMax)
    OBVIOUS
  <2> QED
    BY <2>1, <2>2 DEF RunSleep
<1> DEFINE S == {n \in Nat : RunSleep(n) \in Nat}
<1>3. S = Nat
  <2>1. 0 \in S
    BY <1>1
  <2>2. ASSUME NEW n \in S PROVE n + 1 \in S
    <3>1. TwoTo[n] \in Nat
      BY TwoToDoubles
    <3>2. Base * TwoTo[n] \in Nat
      BY <3>1
    <3> QED
      BY <1>2, <3>2
  <2> HIDE DEF S
  <2>3. S \in SUBSET Nat
    BY DEF S
  <2> QED
    BY <2>1, <2>2, <2>3, Induct
<1> HIDE DEF S
<1>4. \A n \in Nat : RunSleep(n) \in Nat
  BY <1>3 DEF S
<1>5. \A n \in Nat : n + 1 \in Nat
  OBVIOUS
<1> QED
  BY <1>1, <1>2, <1>4, <1>5

(* Fewer retries sleep no longer than all of a run.                        *)
LEMMA RunSleepGrows == \A m \in Nat : \A n \in 0..m : RunSleep(n) <= RunSleep(m)
<1> DEFINE S == {m \in Nat : \A n \in 0..m : RunSleep(n) <= RunSleep(m)}
<1>1. 0 \in S
  <2>1. \A n \in 0..0 : n = 0
    OBVIOUS
  <2> QED
    BY <2>1, RunSleepFacts
<1>2. ASSUME NEW m \in S PROVE m + 1 \in S
  <2> SUFFICES ASSUME NEW n \in 0..m + 1 PROVE RunSleep(n) <= RunSleep(m + 1)
    OBVIOUS
  <2>1. RunSleep(m) \in Nat /\ RunSleep(m + 1) \in Nat /\ RunSleep(m) <= RunSleep(m + 1)
    <3>1. TwoTo[m] \in Nat
      BY TwoToDoubles
    <3>2. Base * TwoTo[m] \in Nat
      BY <3>1, ScheduleFacts
    <3> QED
      BY <3>2, RunSleepFacts, ScheduleFacts
  <2>2. CASE n = m + 1
    BY <2>1, <2>2
  <2>3. CASE n # m + 1
    <3>1. n \in 0..m /\ n \in Nat
      BY <2>3
    <3>2. RunSleep(n) \in Nat /\ RunSleep(n) <= RunSleep(m)
      BY <3>1, <1>2, RunSleepFacts
    <3> QED
      BY <2>1, <3>2
  <2> QED
    BY <2>2, <2>3
<1> HIDE DEF S
<1>3. S = Nat
  <2>1. S \in SUBSET Nat
    BY DEF S
  <2> QED
    BY <1>1, <1>2, <2>1, Induct
<1> QED
  BY <1>3 DEF S

LEMMA ClientTypeInit == ClientInit => ClientTypeOK
BY QuotaFacts, RetryAssumption
   DEF ClientInit, GovernorInit, ClientTypeOK, GovernorTypeOK, CallState

LEMMA GovernorType == ASSUME GovernorTypeOK, [GovernorNext]_governorVars PROVE GovernorTypeOK'
<1> USE QuotaFacts DEF GovernorTypeOK
<1>1. CASE Permit
  BY <1>1 DEF Permit, Count
<1>2. CASE Elapse
  BY <1>2 DEF Elapse
<1>3. CASE UNCHANGED governorVars
  BY <1>3 DEF governorVars
<1> QED
  BY <1>1, <1>2, <1>3 DEF GovernorNext

(* The kinds of value that RetryInv does not keep already.                 *)
TimerTypeOK ==
    /\ timer \in [Calls -> Nat]
    /\ since \in [Calls -> Nat]
    /\ asked \in [Calls -> RetryAfters \cup {0}]
    /\ slept \in [Calls -> Nat]

LEMMA TimerType ==
    ASSUME RetryInv, TimerTypeOK, NEW c \in Calls, Progress(c) \/ Drop(c)
    PROVE  TimerTypeOK'
<1> USE DEF TimerTypeOK, Set, Sleep, End
<1>0. attempt[c] \in Nat
  BY RetryAssumption DEF RetryInv
<1>1. CASE Acquire(c)
  BY <1>1 DEF Acquire
<1>2. CASE AnswerServerError(c)
  <2>1. \A delay \in BackoffDelays(attempt[c]) : delay \in Nat
    BY <1>0, BackoffFacts
  <2> QED
    BY <1>2, <2>1 DEF AnswerServerError
<1>3. CASE AnswerTooMany(c)
  BY <1>3, ScheduleFacts, PauseFacts DEF AnswerTooMany
<1>4. CASE ~(Acquire(c) \/ AnswerServerError(c) \/ AnswerTooMany(c))
  BY <1>4 DEF Progress, Start, AnswerOk, AnswerError, Retry, RunAgain, Drop
<1> QED
  BY <1>1, <1>2, <1>3, <1>4

LEMMA TickType == ASSUME TimerTypeOK, ClockTick PROVE TimerTypeOK'
BY DEF TimerTypeOK, ClockTick

(* WaitInv, one call at a time.                                            *)
WaitCallInv(c) ==
    /\ callPc[c] \in {"start", "permit", "flight"} => timer[c] = 0
    /\ callPc[c] = "start" => sends[c] = 0
    /\ callPc[c] \in {"flight", "backoff", "pausing"} => sends[c] > 0
    /\ Resending(c) => since[c] + timer[c] >= LeastWait(c)

LEMMA WaitInitially == ClientInit => WaitInv
BY DEF ClientInit, WaitInv, Resending

LEMMA LeastWaitFacts ==
    ASSUME RetryTypeOK, TimerTypeOK, NEW c \in Calls
    PROVE  LeastWait(c) \in Nat /\ Forgotten(c) \in Nat /\ Forgotten(c) >= LeastWait(c)
<1>1. BackoffFloor(streak[c]) \in Nat /\ streak[c] \in Nat
  BY BackoffFacts DEF RetryTypeOK
<1>2. PauseFor(asked[c]) \in Nat /\ PauseFor(asked[c]) <= WaitCap
  BY PauseFacts DEF TimerTypeOK
<1> QED
  BY <1>1, <1>2, ScheduleFacts DEF LeastWait, Forgotten

(* The clock takes from the timer what it adds to the time since.          *)
LEMMA TickWaits ==
    ASSUME RetryTypeOK, TimerTypeOK, WaitInv, ClockTick
    PROVE  WaitInv'
<1> SUFFICES ASSUME NEW c \in Calls PROVE WaitCallInv(c)'
  BY DEF WaitInv, WaitCallInv
<1>1. /\ UNCHANGED <<callPc, run, attempt, sends, streak, asked>>
      /\ timer'[c] = IF timer[c] > 0 THEN timer[c] - 1 ELSE 0
      /\ since'[c] = IF Resending(c) /\ since[c] < Forgotten(c) THEN since[c] + 1 ELSE since[c]
  BY DEF ClockTick
<1>2. timer[c] \in Nat /\ since[c] \in Nat
  BY DEF TimerTypeOK
<1>3. (Resending(c) <=> Resending(c)') /\ LeastWait(c)' = LeastWait(c)
  BY <1>1 DEF Resending, LeastWait, BackoffFloor
<1>4. Resending(c)' => since'[c] + timer'[c] >= LeastWait(c)'
  <2> SUFFICES ASSUME Resending(c) PROVE since'[c] + timer'[c] >= LeastWait(c)
    BY <1>3
  <2>1. since[c] + timer[c] >= LeastWait(c)
    BY DEF WaitInv
  <2>2. LeastWait(c) \in Nat /\ Forgotten(c) \in Nat /\ Forgotten(c) >= LeastWait(c)
    BY LeastWaitFacts
  <2>3. CASE since[c] < Forgotten(c)
    BY <1>1, <1>2, <2>1, <2>2, <2>3
  <2>4. CASE ~(since[c] < Forgotten(c))
    BY <1>1, <1>2, <2>2, <2>4
  <2> QED
    BY <2>3, <2>4
<1> QED
  BY <1>1, <1>2, <1>4 DEF WaitInv, WaitCallInv

(* A step of one call leaves the timers of the others alone.               *)
LEMMA WaitAside ==
    ASSUME RetryTypeOK, TimerTypeOK, WaitInv, NEW c \in Calls, Progress(c) \/ Drop(c)
    PROVE  \A d \in Calls \ {c} : WaitCallInv(d)'
<1> SUFFICES ASSUME NEW d \in Calls \ {c} PROVE WaitCallInv(d)'
  OBVIOUS
<1>1. timer'[d] = timer[d] /\ since'[d] = since[d] /\ asked'[d] = asked[d]
  BY DEF TimerTypeOK, Set, Sleep, End, Progress, Start, Acquire, AnswerOk, AnswerError,
         AnswerServerError, AnswerTooMany, Retry, RunAgain, Drop
<1>2. callPc'[d] = callPc[d] /\ sends'[d] = sends[d] /\ streak'[d] = streak[d]
  BY StepAside DEF Aside
<1>3. (Resending(d) <=> Resending(d)') /\ LeastWait(d)' = LeastWait(d)
  BY <1>1, <1>2 DEF Resending, LeastWait, BackoffFloor
<1> QED
  BY <1>1, <1>2, <1>3 DEF WaitInv, WaitCallInv

LEMMA OwnWait ==
    ASSUME RetryInv, TimerTypeOK, WaitInv, NEW c \in Calls, Progress(c) \/ Drop(c)
    PROVE  WaitCallInv(c)'
<1>0. /\ callPc \in [Calls -> CallState] /\ timer \in [Calls -> Nat]
      /\ since \in [Calls -> Nat] /\ sends \in [Calls -> Nat]
      /\ streak \in [Calls -> Nat] /\ asked \in [Calls -> RetryAfters \cup {0}]
      /\ attempt[c] \in Nat
      /\ run[c] \in 1..2
  BY RetryAssumption DEF RetryInv, TimerTypeOK
<1>i. WaitCallInv(c)
  BY DEF WaitInv, WaitCallInv
<1> USE DEF WaitCallInv, CallTo, Set, Sleep, End, Resending
<1>1. CASE Start(c)
  BY <1>0, <1>1, <1>i DEF Start
<1>2. CASE Acquire(c)
  BY <1>0, <1>2, <1>i DEF Acquire
<1>3. CASE AnswerOk(c)
  BY <1>0, <1>3 DEF AnswerOk
<1>4. CASE AnswerError(c)
  BY <1>0, <1>4 DEF AnswerError
<1>5. CASE AnswerServerError(c)
  <2>1. /\ callPc[c] = "flight"
        /\ streak'[c] = streak[c] + 1
        /\ sends' = sends
    BY <1>0, <1>5 DEF AnswerServerError
  <2>2. streak[c] = attempt[c]
    BY <2>1 DEF RetryInv, CallEnded
  <2>3. CASE callPc'[c] = "server_error"
    BY <2>3
  <2>4. CASE callPc'[c] # "server_error"
    <3>1. PICK delay \in BackoffDelays(attempt[c]) : timer' = [timer EXCEPT ![c] = delay]
      BY <1>0, <1>5, <2>4 DEF AnswerServerError
    <3>2. callPc'[c] = "backoff" /\ since'[c] = 0 /\ timer'[c] = delay
      BY <1>0, <1>5, <2>4, <3>1 DEF AnswerServerError
    <3>3. delay \in Nat /\ delay >= BackoffFloor(attempt[c] + 1)
      BY <1>0, BackoffFacts
    <3>4. LeastWait(c)' = BackoffFloor(attempt[c] + 1)
      BY <1>0, <2>1, <2>2 DEF LeastWait, BackoffFloor
    <3> QED
      BY <1>0, <1>i, <2>1, <3>2, <3>3, <3>4
  <2> QED
    BY <2>3, <2>4
<1>6. CASE AnswerTooMany(c)
  <2>1. callPc[c] = "flight" /\ streak'[c] = 0 /\ sends' = sends
    BY <1>0, <1>6 DEF AnswerTooMany
  <2>2. CASE callPc'[c] = "limited"
    BY <2>2
  <2>3. CASE callPc'[c] # "limited"
    <3>1. PICK header \in RetryAfters :
            /\ timer' = [timer EXCEPT ![c] = PauseFor(header)]
            /\ asked' = [asked EXCEPT ![c] = header]
      BY <1>0, <1>6, <2>3 DEF AnswerTooMany
    <3>2. /\ callPc'[c] = "pausing" /\ since'[c] = 0
          /\ timer'[c] = PauseFor(header) /\ asked'[c] = header
      BY <1>0, <1>6, <2>3, <3>1 DEF AnswerTooMany
    <3>3. PauseFor(header) \in Nat
      BY PauseFacts
    <3>4. LeastWait(c)' = PauseFor(header)
      BY <2>1, <3>2 DEF LeastWait, PauseFor
    <3> QED
      BY <1>0, <1>i, <2>1, <3>2, <3>3, <3>4
  <2> QED
    BY <2>2, <2>3
<1>7. CASE Retry(c) \/ RunAgain(c)
  <2>1. /\ callPc[c] \in {"backoff", "pausing"} /\ callPc'[c] = "permit" /\ timer[c] = 0
        /\ UNCHANGED <<timer, sends, streak, since, asked>>
    BY <1>0, <1>7 DEF Retry, RunAgain
  <2>2. LeastWait(c)' = LeastWait(c)
    BY <2>1 DEF LeastWait, BackoffFloor
  <2> QED
    BY <1>i, <2>1, <2>2
<1>8. CASE Drop(c)
  BY <1>0, <1>8 DEF Drop
<1> QED
  BY <1>1, <1>2, <1>3, <1>4, <1>5, <1>6, <1>7, <1>8 DEF Progress

-----------------------------------------------------------------------------
(* What a call sleeps.                                                     *)

(* SleepInv, one call at a time.                                           *)
SleepCallInv(c) ==
    /\ callPc[c] \in {"start", "permit", "flight"} =>
         slept[c] <= SleptBefore(c) + RunSleep(attempt[c])
    /\ callPc[c] = "backoff" => slept[c] <= SleptBefore(c) + RunSleep(attempt[c] + 1)
    /\ callPc[c] = "pausing" => slept[c] <= RunSleep(MaxRetries) + WaitCap
    /\ callPc[c] \in CallEnded => slept[c] = 0

LEMMA SleepInitially == ClientInit => SleepInv
BY RunSleepFacts DEF ClientInit, SleepInv, SleptBefore, CallEnded

LEMMA DelayFacts ==
    ASSUME NEW n \in Nat
    PROVE  \A delay \in BackoffDelays(n) :
             delay \in Nat /\ RunSleep(n) + delay <= RunSleep(n + 1)
<1>1. Base * TwoTo[n] \in Nat
  <2>1. TwoTo[n] \in Nat
    BY TwoToDoubles
  <2> QED
    BY <2>1, ScheduleFacts
<1>2. RunSleep(n) \in Nat /\ RunSleep(n + 1) = RunSleep(n) + (Base * TwoTo[n] + JitterMax)
  BY RunSleepFacts
<1> SUFFICES ASSUME NEW delay \in BackoffDelays(n)
             PROVE  delay \in Nat /\ RunSleep(n) + delay <= RunSleep(n + 1)
  OBVIOUS
<1>3. PICK jitter \in 0..JitterMax : delay = Base * TwoTo[n] + jitter
  BY DEF BackoffDelays
<1> QED
  BY <1>1, <1>2, <1>3, ScheduleFacts

(* A step of one call leaves what the others have slept alone.             *)
LEMMA SleepAside ==
    ASSUME RetryTypeOK, TimerTypeOK, SleepInv, NEW c \in Calls, Progress(c) \/ Drop(c)
    PROVE  \A d \in Calls \ {c} : SleepCallInv(d)'
<1> SUFFICES ASSUME NEW d \in Calls \ {c} PROVE SleepCallInv(d)'
  OBVIOUS
<1>1. slept'[d] = slept[d]
  BY DEF TimerTypeOK, Set, Sleep, End, Progress, Start, Acquire, AnswerOk, AnswerError,
         AnswerServerError, AnswerTooMany, Retry, RunAgain, Drop
<1>2. callPc'[d] = callPc[d] /\ run'[d] = run[d] /\ attempt'[d] = attempt[d]
  BY StepAside DEF Aside
<1>3. SleptBefore(d)' = SleptBefore(d) /\ RunSleep(attempt[d])' = RunSleep(attempt[d])
      /\ RunSleep(attempt[d] + 1)' = RunSleep(attempt[d] + 1)
  BY <1>2 DEF SleptBefore, RunSleep
<1>4. SleepCallInv(d)
  BY DEF SleepInv, SleepCallInv
<1> QED
  BY <1>1, <1>2, <1>3, <1>4 DEF SleepCallInv

LEMMA OwnSleep ==
    ASSUME RetryInv, TimerTypeOK, SleepInv, NEW c \in Calls, Progress(c) \/ Drop(c)
    PROVE  SleepCallInv(c)'
<1>0. /\ callPc \in [Calls -> CallState] /\ slept \in [Calls -> Nat]
      /\ attempt \in [Calls -> 0..MaxRetries] /\ run \in [Calls -> 1..2]
      /\ attempt[c] \in Nat /\ MaxRetries \in Nat /\ WaitCap \in Nat
  BY RetryAssumption, ScheduleFacts DEF RetryInv, TimerTypeOK
<1>i. SleepCallInv(c)
  BY DEF SleepInv, SleepCallInv
<1>r. /\ RunSleep(0) = 0 /\ RunSleep(attempt[c]) \in Nat /\ RunSleep(MaxRetries) \in Nat
      /\ RunSleep(attempt[c] + 1) \in Nat
      /\ RunSleep(attempt[c]) <= RunSleep(MaxRetries)
  BY <1>0, RunSleepFacts, RunSleepGrows
<1>b. SleptBefore(c) \in Nat
  BY <1>0, <1>r DEF SleptBefore
<1> USE DEF SleepCallInv, CallTo, Set, Sleep, End, CallEnded
<1>1. CASE Start(c) \/ Acquire(c)
  <2>1. /\ callPc[c] \in {"start", "permit"} /\ callPc'[c] \in {"permit", "flight"}
        /\ UNCHANGED <<run, attempt, slept>>
    BY <1>0, <1>1 DEF Start, Acquire
  <2>2. SleptBefore(c)' = SleptBefore(c) /\ RunSleep(attempt[c])' = RunSleep(attempt[c])
    BY <2>1 DEF SleptBefore, RunSleep
  <2> QED
    BY <1>i, <2>1, <2>2
<1>2. CASE AnswerOk(c) \/ AnswerError(c) \/ Drop(c)
  BY <1>0, <1>2 DEF AnswerOk, AnswerError, Drop
<1>3. CASE AnswerServerError(c)
  <2>1. CASE callPc'[c] = "server_error"
    BY <1>0, <1>3, <2>1 DEF AnswerServerError
  <2>2. CASE callPc'[c] # "server_error"
    <3>1. PICK delay \in BackoffDelays(attempt[c]) :
            slept' = [slept EXCEPT ![c] = slept[c] + delay]
      BY <1>0, <1>3, <2>2 DEF AnswerServerError
    <3>2. /\ callPc[c] = "flight" /\ callPc'[c] = "backoff"
          /\ slept'[c] = slept[c] + delay /\ UNCHANGED <<run, attempt>>
      BY <1>0, <1>3, <2>2, <3>1 DEF AnswerServerError
    <3>3. /\ SleptBefore(c)' = SleptBefore(c)
          /\ RunSleep(attempt[c] + 1)' = RunSleep(attempt[c] + 1)
      BY <3>2 DEF SleptBefore, RunSleep
    <3>4. delay \in Nat /\ RunSleep(attempt[c]) + delay <= RunSleep(attempt[c] + 1)
      BY <1>0, DelayFacts
    <3>5. slept[c] \in Nat /\ slept[c] <= SleptBefore(c) + RunSleep(attempt[c])
      BY <1>0, <1>i, <3>2
    <3>6. slept[c] + delay <= SleptBefore(c) + RunSleep(attempt[c] + 1)
      BY <1>r, <1>b, <3>4, <3>5
    <3> QED
      BY <3>2, <3>3, <3>6
  <2> QED
    BY <2>1, <2>2
<1>4. CASE AnswerTooMany(c)
  <2>1. CASE callPc'[c] = "limited"
    BY <1>0, <1>4, <2>1 DEF AnswerTooMany
  <2>2. CASE callPc'[c] # "limited"
    <3>1. PICK header \in RetryAfters :
            slept' = [slept EXCEPT ![c] = slept[c] + PauseFor(header)]
      BY <1>0, <1>4, <2>2 DEF AnswerTooMany
    <3>2. /\ callPc[c] = "flight" /\ callPc'[c] = "pausing" /\ run[c] = 1
          /\ slept'[c] = slept[c] + PauseFor(header)
      BY <1>0, <1>4, <2>2, <3>1 DEF AnswerTooMany
    <3>3. PauseFor(header) \in Nat /\ PauseFor(header) <= WaitCap
      BY PauseFacts
    <3>4. slept[c] \in Nat /\ slept[c] <= RunSleep(attempt[c])
      BY <1>0, <1>i, <1>r, <3>2 DEF SleptBefore
    <3>5. slept[c] + PauseFor(header) <= RunSleep(MaxRetries) + WaitCap
      BY <1>0, <1>r, <3>3, <3>4
    <3>6. RunSleep(MaxRetries)' = RunSleep(MaxRetries)
      BY DEF RunSleep
    <3> QED
      BY <3>2, <3>5, <3>6
  <2> QED
    BY <2>1, <2>2
<1>5. CASE Retry(c)
  <2>1. /\ callPc[c] = "backoff" /\ callPc'[c] = "permit"
        /\ attempt'[c] = attempt[c] + 1 /\ UNCHANGED <<run, slept>>
    BY <1>0, <1>5 DEF Retry
  <2>2. /\ SleptBefore(c)' = SleptBefore(c)
        /\ RunSleep(attempt[c])' = RunSleep(attempt[c] + 1)
    BY <2>1 DEF SleptBefore, RunSleep
  <2> QED
    BY <1>i, <2>1, <2>2
<1>6. CASE RunAgain(c)
  <2>1. /\ callPc[c] = "pausing" /\ callPc'[c] = "permit"
        /\ attempt'[c] = 0 /\ run'[c] = 2 /\ UNCHANGED slept
    BY <1>0, <1>6 DEF RunAgain
  <2>2. /\ SleptBefore(c)' = RunSleep(MaxRetries) + WaitCap
        /\ RunSleep(attempt[c])' = RunSleep(0)
    BY <2>1 DEF SleptBefore, RunSleep
  <2> QED
    BY <1>0, <1>i, <1>r, <2>1, <2>2
<1> QED
  BY <1>1, <1>2, <1>3, <1>4, <1>5, <1>6 DEF Progress

LEMMA SleepStutters ==
    ASSUME SleepInv, UNCHANGED <<callPc, run, attempt, slept>> PROVE SleepInv'
BY DEF SleepInv, SleptBefore, RunSleep

LEMMA ClientInvSplit ==
    ClientInv <=> GovernorTypeOK /\ RetryInv /\ TimerTypeOK /\ WaitInv /\ SleepInv
BY DEF ClientInv, ClientTypeOK, RetryInv, TimerTypeOK

(* The kinds of value, the books, the timers and the sleep of every call.  *)
THEOREM ClientInvariance == ClientSpec => []ClientInv
<1>1. ClientInit => ClientInv
  BY ClientTypeInit, RetryInitially, WaitInitially, SleepInitially DEF ClientInv
<1>2. ASSUME ClientInv, RetryInv', [ClientNext]_clientVars PROVE ClientInv'
  <2>1. GovernorTypeOK'
    BY <1>2, GovernorSteps, GovernorType, ClientInvSplit
  <2>2. RetryTypeOK
    BY <1>2, RetryInvSplit DEF ClientInv
  <2>3. TimerTypeOK' /\ WaitInv' /\ SleepInv'
    <3>0. RetryInv /\ TimerTypeOK /\ WaitInv /\ SleepInv
      BY <1>2, ClientInvSplit
    <3>1. ASSUME NEW c \in Calls, Progress(c) \/ Drop(c)
          PROVE  TimerTypeOK' /\ WaitInv' /\ SleepInv'
      <4>1. TimerTypeOK' /\ WaitCallInv(c)' /\ SleepCallInv(c)'
        BY <3>0, <3>1, TimerType, OwnWait, OwnSleep
      <4>2. \A d \in Calls \ {c} : WaitCallInv(d)'
        BY <2>2, <3>0, <3>1, WaitAside
      <4>3. WaitInv'
        BY <4>1, <4>2 DEF WaitInv, WaitCallInv
      <4>4. \A d \in Calls \ {c} : SleepCallInv(d)'
        BY <2>2, <3>0, <3>1, SleepAside
      <4>5. SleepInv'
        BY <4>1, <4>4 DEF SleepInv, SleepCallInv
      <4> QED
        BY <4>1, <4>3, <4>5
    <3>2. CASE ClockTick
      BY <2>2, <3>0, <3>2, TickType, TickWaits, SleepStutters DEF ClockTick
    <3>3. CASE UNCHANGED clientVars
      BY <3>0, <3>3, SleepStutters
         DEF clientVars, callVars, TimerTypeOK, WaitInv, Resending, LeastWait, BackoffFloor
    <3> QED
      BY <1>2, <3>1, <3>2, <3>3 DEF ClientNext
  <2>4. GovernorTypeOK' /\ RetryInv' /\ TimerTypeOK' /\ WaitInv' /\ SleepInv' => ClientInv'
    BY DEF ClientInv, ClientTypeOK, RetryInv, TimerTypeOK
  <2> QED
    BY <1>2, <2>1, <2>3, <2>4
<1> QED
  BY <1>1, <1>2, RetryInvariance, PTL DEF ClientSpec

(* Whatever mix of answers a call meets and whatever their headers ask     *)
(* for, all that it sleeps is the backoff of two runs and one capped pause.*)
THEOREM BoundedSleep == ClientSpec => []SleepBounded
<1>1. ASSUME ClientInv, NEW c \in Calls
      PROVE  slept[c] <= 2 * RunSleep(MaxRetries) + WaitCap
  <2>0. /\ callPc[c] \in CallState /\ slept[c] \in Nat
        /\ attempt[c] \in 0..MaxRetries /\ attempt[c] \in Nat /\ run[c] \in 1..2
        /\ MaxRetries \in Nat
    BY <1>1, RetryAssumption DEF ClientInv, ClientTypeOK
  <2>1. /\ RunSleep(MaxRetries) \in Nat /\ RunSleep(attempt[c]) \in Nat
        /\ RunSleep(attempt[c]) <= RunSleep(MaxRetries)
    BY <2>0, RunSleepFacts, RunSleepGrows
  <2>2. SleptBefore(c) \in Nat /\ SleptBefore(c) <= RunSleep(MaxRetries) + WaitCap
    BY <2>1, ScheduleFacts DEF SleptBefore
  <2>3. SleepCallInv(c)
    BY <1>1 DEF ClientInv, SleepInv, SleepCallInv
  <2>4. CASE callPc[c] \in {"start", "permit", "flight"}
    <3>1. slept[c] <= SleptBefore(c) + RunSleep(attempt[c])
      BY <2>3, <2>4 DEF SleepCallInv
    <3> QED
      BY <2>0, <2>1, <2>2, <3>1, ScheduleFacts
  <2>5. CASE callPc[c] = "backoff"
    <3>1. attempt[c] < MaxRetries
      BY <1>1, <2>5 DEF ClientInv, RetryInv, CallEnded
    <3>2. RunSleep(attempt[c] + 1) \in Nat /\ RunSleep(attempt[c] + 1) <= RunSleep(MaxRetries)
      <4>1. attempt[c] + 1 \in Nat /\ attempt[c] + 1 \in 0..MaxRetries
        BY <2>0, <3>1
      <4> QED
        BY <2>0, <4>1, RunSleepFacts, RunSleepGrows
    <3>3. slept[c] <= SleptBefore(c) + RunSleep(attempt[c] + 1)
      BY <2>3, <2>5 DEF SleepCallInv
    <3> QED
      BY <2>0, <2>1, <2>2, <3>2, <3>3, ScheduleFacts
  <2>6. CASE callPc[c] = "pausing"
    <3>1. slept[c] <= RunSleep(MaxRetries) + WaitCap
      BY <2>3, <2>6 DEF SleepCallInv
    <3> QED
      BY <2>0, <2>1, <3>1, ScheduleFacts
  <2>7. CASE callPc[c] \in CallEnded
    <3>1. slept[c] = 0
      BY <2>3, <2>7 DEF SleepCallInv
    <3> QED
      BY <2>1, <3>1, ScheduleFacts
  <2> QED
    BY <2>0, <2>4, <2>5, <2>6, <2>7 DEF CallState
<1>2. ClientInv => SleepBounded
  BY <1>1 DEF SleepBounded
<1> QED
  BY <1>2, ClientInvariance, PTL

(* Whatever mix of answers a call meets, and however long its permits take,*)
(* it never sends again before the wait that its last answer calls for.    *)
THEOREM WaitsKept == ClientSpec => WaitsBeforeResend
<1> DEFINE Kept(c) ==
      \/ streak[c] > 0 /\ since[c] >= Base * TwoTo[streak[c] - 1]
      \/ /\ streak[c] = 0
         /\ since[c] >= Second
         /\ since[c] >= asked[c] \/ since[c] >= WaitCap
<1>1. ASSUME ClientInv, [ClientNext]_clientVars,
             NEW c \in Calls, sends'[c] > sends[c], sends[c] > 0
      PROVE  Kept(c)
  <2>1. RetryTypeOK /\ TimerTypeOK /\ WaitCallInv(c)
    BY <1>1, ClientInvSplit, RetryInvSplit DEF WaitInv, WaitCallInv
  <2>2. sends[c] \in Nat /\ since[c] \in Nat /\ streak[c] \in Nat
    BY <2>1 DEF RetryTypeOK, TimerTypeOK
  <2>3. Acquire(c)
    <3>1. ASSUME NEW d \in Calls, Progress(d) \/ Drop(d), d # c PROVE FALSE
      BY <1>1, <2>1, <2>2, <3>1, StepAside DEF Aside
    <3>2. ASSUME Progress(c) \/ Drop(c), ~Acquire(c) PROVE FALSE
      BY <1>1, <2>2, <3>2 DEF Progress, Start, AnswerOk, AnswerError, AnswerServerError,
                              AnswerTooMany, Retry, RunAgain, Drop
    <3>3. CASE ClockTick \/ UNCHANGED clientVars
      BY <1>1, <2>2, <3>3 DEF ClockTick, clientVars, callVars
    <3> QED
      BY <1>1, <3>1, <3>2, <3>3 DEF ClientNext
  <2>4. since[c] >= LeastWait(c)
    BY <1>1, <2>1, <2>2, <2>3 DEF Acquire, WaitCallInv, Resending
  <2>5. CASE streak[c] > 0
    BY <2>2, <2>4, <2>5 DEF LeastWait, BackoffFloor
  <2>6. CASE streak[c] = 0
    <3>1. asked[c] \in RetryAfters \cup {0} /\ since[c] >= PauseFor(asked[c])
      BY <2>1, <2>2, <2>4, <2>6 DEF LeastWait, TimerTypeOK
    <3>2. asked[c] \in Int /\ PauseFor(asked[c]) \in Nat
      BY <3>1, PauseFacts, ScheduleFacts
    <3> QED
      BY <2>2, <2>6, <3>1, <3>2, PauseFacts, ScheduleFacts
  <2> QED
    BY <2>2, <2>5, <2>6
<1>2. ClientInv /\ [ClientNext]_clientVars
        => [\A c \in Calls : sends'[c] > sends[c] /\ sends[c] > 0 => Kept(c)]_clientVars
  BY <1>1
<1> QED
  BY <1>2, ClientInvariance, PTL DEF ClientSpec, WaitsBeforeResend
=============================================================================
