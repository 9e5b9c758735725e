------------------------------- MODULE Governor -------------------------------
(***************************************************************************)
(* infra/spotify_governor.rs: the permit every outbound request takes, and *)
(* the quota ReqwestSpotifyClient::new gives the limiter.  The limiter is  *)
(* the GCRA of the governor crate, kept as a debt: how far its theoretical *)
(* arrival time is ahead of now.  A request pays Period, time pays back 1  *)
(* per tick, and a request must not find more than Burst - 1 unpaid ones.  *)
(*                                                                         *)
(* An observer counts the requests of one window of Window ticks at a time *)
(* and may open the next window at any tick, so that what holds of the     *)
(* observed window holds of every window.                                  *)
(***************************************************************************)
EXTENDS Integers

CONSTANTS
    Period,  \* Quota::with_period, in ticks of the clock
    Burst,   \* Quota::allow_burst
    Window   \* length of the observed window

ASSUME QuotaAssumption ==
    Period \in Nat \ {0} /\ Burst \in Nat \ {0} /\ Window \in Nat

VARIABLES
    debt,     \* the limiter's theoretical arrival time minus now, at least 0
    elapsed,  \* observer: ticks since the window opened
    sent      \* observer: requests sent in the window

governorVars == <<debt, elapsed, sent>>

GovernorTypeOK == debt \in Nat /\ elapsed \in 0..Window /\ sent \in Nat

GovernorInit == debt = 0 /\ elapsed = 0 /\ sent = 0

Ready == debt <= (Burst - 1) * Period

Count == sent' = sent + 1 /\ UNCHANGED elapsed

(* limiter.until_ready() returns, and the request goes out.                *)
MutPermitOneTooMany ==
    /\ debt <= Burst * Period
    /\ debt' = debt + Period
    /\ Count

MutPermitStrict ==
    /\ debt < (Burst - 1) * Period
    /\ debt' = debt + Period
    /\ Count

Permit ==
    /\ Ready
    /\ debt' = debt + Period
    /\ Count

(* One tick of the clock; the observer keeps its window or opens another.  *)
Elapse ==
    /\ debt' = IF debt > 0 THEN debt - 1 ELSE 0
    /\ \/ elapsed < Window /\ elapsed' = elapsed + 1 /\ UNCHANGED sent
       \/ elapsed' = 0 /\ sent' = 0

GovernorNext == Permit \/ Elapse

GovernorSpec == GovernorInit /\ [][GovernorNext]_governorVars

-----------------------------------------------------------------------------
(* No window holds more than a burst and one request per Period: what a    *)
(* token bucket can promise of traffic that passes it request by request.  *)
PacingBound == Period * sent <= Burst * Period + elapsed

(* PacingBound from what a window owes: a request counted in the window is *)
(* in the debt until time has paid it back.                                *)
GovernorInv ==
    /\ GovernorTypeOK
    /\ debt <= Burst * Period
    /\ Period * sent <= debt + elapsed

(* domain/spotify.rs: "Pacing per spec 5.5 (<= 30 req / 30 s)", honoured   *)
(* "via governor"; here for any limit on a window of Window ticks.         *)
AtMost(limit) == sent <= limit
=============================================================================
