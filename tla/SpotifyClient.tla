---------------------------- MODULE SpotifyClient ----------------------------
(***************************************************************************)
(* infra/spotify_client.rs: get_json and the chain of middlewares under it.*)
(*                                                                         *)
(*   RetryAfterMiddleware   one more run of the chain below after a 429    *)
(*     BackoffMiddleware    up to max_retries more after 5xx, in each run  *)
(*       GovernorMiddleware one permit for every request                   *)
(*                                                                         *)
(* A call is one get_json.  All calls share one limiter.  Where the status *)
(* matters to the chain it is 2xx, 429, 5xx or something else.             *)
(***************************************************************************)
EXTENDS Governor

CONSTANTS
    Calls,       \* the calls of get_json
    MaxRetries,  \* BackoffConfig::max_retries
    Base,        \* BackoffConfig::base, in ticks
    JitterMax,   \* BackoffConfig::jitter_max, in ticks
    Second,      \* one second, in ticks: the wait when Retry-After is no use
    WaitCap,     \* RetryAfterMiddleware::cap, in ticks
    RetryAfters  \* values of the Retry-After header, in ticks, whole seconds;
                 \* 0 also stands for one that is missing or not an integer

(* backoff_delay doubles in a u32: a 33rd retry would overflow.            *)
ASSUME RetryAssumption == MaxRetries \in 0..32

ASSUME ScheduleAssumption ==
    /\ Base \in Nat /\ JitterMax \in Nat
    /\ Second \in Nat \ {0} /\ WaitCap \in Nat /\ WaitCap >= Second
    /\ \A header \in RetryAfters : header \in Int /\ header % Second = 0

VARIABLES
    callPc,   \* where each call is
    run,      \* which run of the chain below RetryAfterMiddleware it is in
    attempt,  \* BackoffMiddleware's attempt, in this run
    timer,    \* ticks the call must still sleep
    sends,    \* history: requests the call has sent
    streak,   \* history: 5xx answers in a row, up to the last answer
    since,    \* history: ticks since the answer it waits to resend after
    asked,    \* history: what the 429 it waits out asked for, 0 if none
    slept     \* history: ticks the call has slept in all, with the sleep it is in

callVars == <<callPc, run, attempt, timer, sends, streak, since, asked, slept>>
clientVars == <<governorVars, callVars>>

(* How a call ends: Ok, SpotifyError::Status with a 429, a 5xx or another  *)
(* status (or Transport, or Decode), or dropped with its caller.           *)
CallEnded == {"ok", "limited", "server_error", "error", "dropped"}
CallState == CallEnded \cup {"start", "permit", "flight", "backoff", "pausing"}

ClientTypeOK ==
    /\ GovernorTypeOK
    /\ callPc \in [Calls -> CallState]
    /\ run \in [Calls -> 1..2]
    /\ attempt \in [Calls -> 0..MaxRetries]
    /\ timer \in [Calls -> Nat]
    /\ sends \in [Calls -> Nat]
    /\ streak \in [Calls -> Nat]
    /\ since \in [Calls -> Nat]
    /\ asked \in [Calls -> RetryAfters \cup {0}]
    /\ slept \in [Calls -> Nat]

ClientInit ==
    /\ GovernorInit
    /\ callPc = [c \in Calls |-> "start"]
    /\ run = [c \in Calls |-> 1]
    /\ attempt = [c \in Calls |-> 0]
    /\ timer = [c \in Calls |-> 0]
    /\ sends = [c \in Calls |-> 0]
    /\ streak = [c \in Calls |-> 0]
    /\ since = [c \in Calls |-> 0]
    /\ asked = [c \in Calls |-> 0]
    /\ slept = [c \in Calls |-> 0]

-----------------------------------------------------------------------------
CallTo(c, label) == callPc' = [callPc EXCEPT ![c] = label]
Set(f, c, value) == [f EXCEPT ![c] = value]

(* parse_retry_after_seconds, then the cap and the default of handle.      *)
MutPauseFor(header) == IF header > WaitCap THEN WaitCap ELSE header

MutPauseForUncapped(header) == IF header <= 0 THEN Second ELSE header

PauseFor(header) ==
    IF header <= 0 THEN Second ELSE IF header > WaitCap THEN WaitCap ELSE header

(* 2u32.pow.                                                               *)
TwoTo[n \in Nat] == IF n = 0 THEN 1 ELSE 2 * TwoTo[n - 1]

(* backoff_delay: base * 2^attempt and some jitter.                        *)
BackoffDelays(n) == {Base * TwoTo[n] + jitter : jitter \in 0..JitterMax}

(* tokio::time::sleep.                                                     *)
Sleep(c, delay) ==
    /\ timer' = Set(timer, c, delay)
    /\ slept' = Set(slept, c, slept[c] + delay)

(* The call returns, or is dropped: its timer and what it has slept matter *)
(* no longer.                                                              *)
End(c, label) ==
    /\ CallTo(c, label)
    /\ timer' = Set(timer, c, 0)
    /\ since' = Set(since, c, 0)
    /\ asked' = Set(asked, c, 0)
    /\ slept' = Set(slept, c, 0)

(* get_json builds its request and sends it down the chain.                *)
Start(c) ==
    /\ callPc[c] = "start"
    /\ CallTo(c, "permit")
    /\ UNCHANGED <<governorVars, run, attempt, timer, sends, streak, since, asked, slept>>

(* GovernorMiddleware lets one request of the call go out.                 *)
Acquire(c) ==
    /\ callPc[c] = "permit"
    /\ Permit
    /\ CallTo(c, "flight")
    /\ sends' = Set(sends, c, sends[c] + 1)
    /\ since' = Set(since, c, 0)
    /\ asked' = Set(asked, c, 0)
    /\ UNCHANGED <<run, attempt, timer, streak, slept>>

(* 2xx, 204 or not, and a body that decodes.                               *)
AnswerOk(c) ==
    /\ callPc[c] = "flight"
    /\ End(c, "ok")
    /\ UNCHANGED <<governorVars, run, attempt, sends, streak>>

(* Another status, a transport error, a body that does not decode: neither *)
(* middleware retries it.                                                  *)
AnswerError(c) ==
    /\ callPc[c] = "flight"
    /\ End(c, "error")
    /\ UNCHANGED <<governorVars, run, attempt, sends, streak>>

(* 5xx: sleep and retry, or surface it once the retries of this run are    *)
(* used up.                                                                *)
MutAnswerServerErrorEarly(c) ==
    /\ callPc[c] = "flight"
    /\ streak' = Set(streak, c, streak[c] + 1)
    /\ \/ /\ attempt[c] + 1 < MaxRetries
          /\ \E delay \in BackoffDelays(attempt[c]) : Sleep(c, delay)
          /\ CallTo(c, "backoff")
          /\ since' = Set(since, c, 0)
          /\ UNCHANGED asked
       \/ /\ attempt[c] + 1 >= MaxRetries
          /\ End(c, "server_error")
    /\ UNCHANGED <<governorVars, run, attempt, sends>>

AnswerServerError(c) ==
    /\ callPc[c] = "flight"
    /\ streak' = Set(streak, c, streak[c] + 1)
    /\ \/ /\ attempt[c] < MaxRetries
          /\ \E delay \in BackoffDelays(attempt[c]) : Sleep(c, delay)
          /\ CallTo(c, "backoff")
          /\ since' = Set(since, c, 0)
          /\ UNCHANGED asked
       \/ /\ attempt[c] >= MaxRetries
          /\ End(c, "server_error")
    /\ UNCHANGED <<governorVars, run, attempt, sends>>

(* 429 is no server error: the run of the backoff loop ends.  After the    *)
(* first run the call sleeps and starts another, with the backoff fresh;   *)
(* after the second the 429 surfaces.                                      *)
MutAnswerTooManyAgain(c) ==
    /\ callPc[c] = "flight"
    /\ streak' = Set(streak, c, 0)
    /\ \E header \in RetryAfters :
        /\ Sleep(c, PauseFor(header))
        /\ asked' = Set(asked, c, header)
    /\ CallTo(c, "pausing")
    /\ since' = Set(since, c, 0)
    /\ UNCHANGED <<governorVars, run, attempt, sends>>

AnswerTooMany(c) ==
    /\ callPc[c] = "flight"
    /\ streak' = Set(streak, c, 0)
    /\ \/ /\ run[c] = 1
          /\ \E header \in RetryAfters :
              /\ Sleep(c, PauseFor(header))
              /\ asked' = Set(asked, c, header)
          /\ CallTo(c, "pausing")
          /\ since' = Set(since, c, 0)
       \/ /\ run[c] = 2
          /\ End(c, "limited")
    /\ UNCHANGED <<governorVars, run, attempt, sends>>

(* BackoffMiddleware wakes up and re-enters the governor.                  *)
MutRetryUnpaced(c) ==
    /\ callPc[c] = "backoff"
    /\ timer[c] = 0
    /\ CallTo(c, "flight")
    /\ attempt' = Set(attempt, c, attempt[c] + 1)
    /\ sends' = Set(sends, c, sends[c] + 1)
    /\ Count
    /\ UNCHANGED <<debt, run, timer, streak, since, asked, slept>>

Retry(c) ==
    /\ callPc[c] = "backoff"
    /\ timer[c] = 0
    /\ CallTo(c, "permit")
    /\ attempt' = Set(attempt, c, attempt[c] + 1)
    /\ UNCHANGED <<governorVars, run, timer, sends, streak, since, asked, slept>>

(* RetryAfterMiddleware wakes up and runs the chain below once more.       *)
MutRunAgainWorn(c) ==
    /\ callPc[c] = "pausing"
    /\ timer[c] = 0
    /\ CallTo(c, "permit")
    /\ run' = Set(run, c, 2)
    /\ UNCHANGED <<governorVars, attempt, timer, sends, streak, since, asked, slept>>

RunAgain(c) ==
    /\ callPc[c] = "pausing"
    /\ timer[c] = 0
    /\ CallTo(c, "permit")
    /\ run' = Set(run, c, 2)
    /\ attempt' = Set(attempt, c, 0)
    /\ UNCHANGED <<governorVars, timer, sends, streak, since, asked, slept>>

(* The caller's future is dropped, and the call with it; permits are spent.*)
Drop(c) ==
    /\ callPc[c] \notin CallEnded
    /\ End(c, "dropped")
    /\ UNCHANGED <<governorVars, run, attempt, sends, streak>>

(* The call has been answered, and waits to send again.                    *)
Resending(c) == callPc[c] \in {"backoff", "pausing", "permit"} /\ sends[c] > 0

(* What the n-th 5xx in a row has a call wait, jitter aside.               *)
BackoffFloor(n) == IF n = 0 THEN 0 ELSE Base * TwoTo[n - 1]

(* As long ago as it matters: the call need not wait longer than that.     *)
Forgotten(c) == IF streak[c] > 0 THEN BackoffFloor(streak[c]) ELSE WaitCap

ClockTick ==
    /\ Elapse
    /\ timer' = [c \in Calls |-> IF timer[c] > 0 THEN timer[c] - 1 ELSE 0]
    /\ since' = [c \in Calls |->
         IF Resending(c) /\ since[c] < Forgotten(c) THEN since[c] + 1 ELSE since[c]]
    /\ UNCHANGED <<callPc, run, attempt, sends, streak, asked, slept>>

Progress(c) ==
    \/ Start(c)
    \/ Acquire(c)
    \/ AnswerOk(c)
    \/ AnswerError(c)
    \/ AnswerServerError(c)
    \/ AnswerTooMany(c)
    \/ Retry(c)
    \/ RunAgain(c)

ClientNext ==
    \/ ClockTick
    \/ \E c \in Calls : Progress(c) \/ Drop(c)

ClientSpec == ClientInit /\ [][ClientNext]_clientVars

(* Time passes, the runtime polls what is ready, and answers are assumed   *)
(* to come: the client has no timeout.  until_ready does not queue, but as *)
(* the calls are finitely many, weak fairness is enough for each.          *)
ClientFairSpec ==
    /\ ClientSpec
    /\ WF_clientVars(ClockTick)
    /\ \A c \in Calls : WF_clientVars(Progress(c))

-----------------------------------------------------------------------------
(* "A 429 retry still consumes a token", and so does a 5xx retry: what the *)
(* calls send, retries included, is traffic that the limiter has admitted  *)
(* request by request (spotify_client.rs, the order of the .with() calls). *)
PacedTraffic == GovernorSpec

(* One call sends at most two runs of one request and MaxRetries retries,  *)
(* whatever mix of 429 and 5xx it meets.                                   *)
AttemptsBounded == \A c \in Calls : sends[c] <= 2 * (MaxRetries + 1)

(* A 5xx reaches the caller only after max_retries + 1 of them in a row,   *)
(* after a 429 too: the second run starts with a fresh backoff.            *)
ServerErrorExhausted == \A c \in Calls :
    callPc[c] = "server_error" => streak[c] > MaxRetries

(* No request follows an answer of the same call too soon: the n-th 5xx in *)
(* a row waits base * 2^(n-1), and a 429 a second at least, and what its   *)
(* Retry-After asks for, up to the cap (criterion 8 forbids a tight loop). *)
WaitsBeforeResend == [][\A c \in Calls :
    sends'[c] > sends[c] /\ sends[c] > 0 =>
        \/ streak[c] > 0 /\ since[c] >= Base * TwoTo[streak[c] - 1]
        \/ /\ streak[c] = 0
           /\ since[c] >= Second
           /\ since[c] >= asked[c] \/ since[c] >= WaitCap]_clientVars

(* What n retries of one run sleep at the most.                            *)
RunSleep(n) == Base * (TwoTo[n] - 1) + n * JitterMax

(* A call keeps its caller waiting no longer than the schedules of two     *)
(* runs and one capped Retry-After, whatever mix of 429 and 5xx it meets   *)
(* and whatever the headers ask for (permits and answers apart).           *)
SleepBounded == \A c \in Calls : slept[c] <= 2 * RunSleep(MaxRetries) + WaitCap

(* Every call of get_json returns.                                         *)
CallTerminates == \A c \in Calls : <>(callPc[c] \in CallEnded)

-----------------------------------------------------------------------------
(* What the retry layers keep: how many requests a call has sent and how   *)
(* many 5xx in a row it has met follow from run and attempt.               *)
Outstanding(c) == callPc[c] \in {"flight", "backoff", "pausing"}

RetryInv ==
    /\ callPc \in [Calls -> CallState]
    /\ run \in [Calls -> 1..2]
    /\ attempt \in [Calls -> 0..MaxRetries]
    /\ sends \in [Calls -> Nat]
    /\ streak \in [Calls -> Nat]
    /\ \A c \in Calls : callPc[c] \notin CallEnded =>
         /\ callPc[c] \in {"start", "permit", "flight"} => streak[c] = attempt[c]
         /\ callPc[c] = "backoff" => streak[c] = attempt[c] + 1 /\ attempt[c] < MaxRetries
         /\ callPc[c] = "pausing" => streak[c] = 0 /\ run[c] = 1
         /\ sends[c] <= (run[c] - 1) * (MaxRetries + 1) + attempt[c]
                          + IF Outstanding(c) THEN 1 ELSE 0
    /\ ServerErrorExhausted
    /\ AttemptsBounded

(* Time since the answer and time still to sleep add up to what the answer *)
(* calls for: a wait that is lengthened, cut or begun again by another     *)
(* step of the chain would break the sum.                                  *)
LeastWait(c) ==
    IF streak[c] > 0 THEN BackoffFloor(streak[c]) ELSE PauseFor(asked[c])

WaitInv == \A c \in Calls :
    /\ callPc[c] \in {"start", "permit", "flight"} => timer[c] = 0
    /\ callPc[c] = "start" => sends[c] = 0
    /\ callPc[c] \in {"flight", "backoff", "pausing"} => sends[c] > 0
    /\ Resending(c) => since[c] + timer[c] >= LeastWait(c)

(* What a call has slept is covered by the retries it has made: those of   *)
(* this run, and once it is in the second those of the first and the pause *)
(* between them.                                                           *)
SleptBefore(c) == IF run[c] = 1 THEN 0 ELSE RunSleep(MaxRetries) + WaitCap

SleepInv == \A c \in Calls :
    /\ callPc[c] \in {"start", "permit", "flight"} =>
         slept[c] <= SleptBefore(c) + RunSleep(attempt[c])
    /\ callPc[c] = "backoff" => slept[c] <= SleptBefore(c) + RunSleep(attempt[c] + 1)
    /\ callPc[c] = "pausing" => slept[c] <= RunSleep(MaxRetries) + WaitCap
    /\ callPc[c] \in CallEnded => slept[c] = 0

(* The inductive invariant of the chain.                                   *)
ClientInv == ClientTypeOK /\ RetryInv /\ WaitInv /\ SleepInv
=============================================================================
