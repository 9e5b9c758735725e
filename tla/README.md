# music-api: verification project

The service keeps one owner's Spotify account linked, polls five Spotify
endpoints while somebody is looking at the page, and serves the results to
anonymous visitors. This directory holds TLA+ models of it, first of the parts where
tasks, failures and time interleave, TLC runs that check them on small instances, and
TLAPS proofs of their main properties for every value of the constants.

Paths below are relative to `src/src/` unless they say otherwise.

## 1. Inventory

### Components

| Part | State | Operations | Module |
|---|---|---|---|
| `app/spotify_service.rs` | `refresh_lock`; locals of each `get` in flight | `get`, `refresh_and_retry` | `SpotifyService` |
| `routes/auth.rs` | locals of each callback | `login`, `callback` | `OAuthCallback`, `LoginFlow` |
| `infra/sqlite_token_repo.rs` | one row of `tokens` | `get`, `upsert` (`delete` has no caller) | `TokenState` |
| `infra/token_exchanger.rs` | none; the server behind it keeps grants | `refresh`, `exchange_code` | `TokenState`, by outcomes |
| `domain/auth_state.rs` | one flag | `set_needs_reauth`, `clear`, `needs_reauth` | `TokenState`, `DataPlane` |
| `app/state_store.rs` | map from CSRF state to expiry | `issue`, `consume` | `StateStore`, `LoginFlow` |
| `infra/spotify_client.rs`, `spotify_retry.rs`, `spotify_backoff.rs` | locals of each call | `get_json` and the chain of middlewares | `SpotifyClient` |
| `infra/spotify_governor.rs` | the shared limiter | one permit per request | `Governor` |
| `app/scheduler.rs` | one loop per endpoint | tick: gates, fetch, store, sleep; what is fetched and how it is tagged | `DataPlane`, `ActivityGate`, `ServedPayloads`, `ServiceProcess` |
| `app/activity.rs` | `last_seen_ms`, `woke` | `touch`, `is_active` | `ActivityGate`, `VisitGate` |
| `app/snapshots.rs` | one cell per endpoint | `get`, `set` | `DataPlane` |
| `routes/v1.rs` | locals of each request | `serve` | `DataPlane`, `ServedPayloads` |
| `routes/admin.rs`, `domain/spotify_toggle.rs` | one flag | `enable`, `disable`, `refresh` | `DataPlane` |
| `app/v1_mapper.rs` | none | pure mapping of Spotify JSON | `V1Mapper` |
| `infra/mock_spotify_client.rs` | none | `get_json` by path | `MockClient` |
| `main.rs`, `config.rs`, `state.rs`, `lib.rs` `init` and `seed_mock_token` | the stage of the start; the port | start, stop; migrate, seed, build, bind, spawn | `ServiceProcess` |
| `lib.rs`, router | construction | activity layer; `healthz`, CORS, request ids, wire log are left out | `DataPlane` |
| `oauth.rs`, `infra/http_logging.rs` | none | an URL; logging | not modelled |

### How they interact

- A scheduler loop, a `/v1` handler on a cold start and the owner's refresh all
  go through `scheduler::fetch_and_map`, which calls `SpotifyService::get` once,
  or up to three times for a profile.
- `get` reads the token row, calls `SpotifyClient::get_json`, and on a 401
  refreshes under `refresh_lock` and calls once more. `get_json` runs through
  429 retry, then 5xx backoff, then the limiter, which all calls share.
- The OAuth callback writes the same row and clears the flag that
  `refresh_and_retry` raises. It takes no lock.
- Every `/v1` request touches the activity tracker, which wakes parked loops.
- The flag, the switch, the cells, the CSRF states and the limiter live in
  memory; only the token row survives a restart.
- `main` reads the environment, runs `init` (connect, migrate, seed a mock row when
  `MOCK_DATA` is set, build), binds the port, spawns the loops, serves. Two processes
  of one host share the database and the port.

### What is hard

- **Interleaving**: concurrent 401s, a refresh against a re-link, two callbacks,
  three kinds of writer to one cell, a touch against a loop that is parking.
- **Failure**: a rotated token whose reply is lost, a handler dropped at any of
  its awaits, a restart in the middle of a refresh, one of three calls failing, a
  start that fails after it has written to the database.
- **Ordering**: a rejection or an answer that arrives after a re-link; a fetch
  that is overtaken by another.
- **Time**: expiry of CSRF states, backoff and Retry-After, the pacing window,
  the idle threshold under a clock that may be set back; no timeout on any HTTP call.
- **Data**: any leaf of a response may be absent, and the counts of a profile may be
  the zeros of calls that failed, or as old as the playlists cell.

The hazards, each at its line and with the properties that cover it, are in
`PROJECT.json`.

### What makes each part correct

- *Token lifecycle*: at most one refresh at a time, from the stored record; a
  token that was rotated is never used again, so the flag goes up only for a
  token that died elsewhere; the stored token never goes back; every `get` ends.
- *Activity gate*: no wake-up is lost but to the clock; loops tick while visitors come.
- *Client and limiter*: no request without a permit, retries included; a bound on
  every window and on the requests of one call; a 5xx surfaces only when its
  retries are used up; no tight loop, and no sleep beyond what the caps add up to.
- *Data plane*: a filled cell stays filled and goes back to older data only when
  fetches have overlapped; flag and switch pause the loops without parking them; once
  a cell is filled requests are answered from it; old data, old counts and the zeros
  of failed ones do not stay.
- *Login*: each CSRF state is good for one callback, before its expiry, and at most
  one handler works on it.
- *Process*: at most one polls Spotify; whoever listens is ready to.
- *Mapping*: a payload has all its fields whatever the response lacks, an item for
  each entry, and ranks from 1.

## 2. Modules

Each module's header names its source, and each definition its operation;
`PROJECT.json` ("map") gives the lines.

### Token lifecycle

`TokenState` (row, flag, authorization server) is extended by `SpotifyService`
(callers of `get`) and `OAuthCallback` (link attempts); `TokenLifecycle` composes
the two and adds restarts. `RefreshCell` is the abstract specification: a cell
with one record, at most one refresh in flight, and a latch.
`TokenLifecycleProofs` has the proofs.

- One action is the code between two awaits that other tasks can see: `Get`,
  `FirstCall`, `EnterCritical` (lock and flag), `Reread`, the outcomes of the
  refresh POST (`RefreshGranted`, `RefreshRejected`, `RefreshFailed`,
  `RefreshLost`), `StoreRefreshed` and `RetryCall`; likewise for the callback.
- A token is the number of the server response it came with, `grant` numbers the
  authorizations and stands for `scope` and `owner_id`; 0 is an absent refresh
  token, which `unwrap_or_default` stores as the empty string.
- `Cancel` and `CallbackDropped` drop the future of a handler at an await. The
  five scheduler tasks are never dropped.
- `spoiled` is history: refresh tokens that died for a reason the service cannot
  guard against (revoked, reply lost, never sent).
- Refresh tokens that are dead stay dead, which is why the server's rejection and
  its arrival are one step. A write of the row lands or does not land before its
  future is dropped. `expires_at` is written and never read, so it is left out.

### Activity gate

`ActivityGate` models `touch` in three steps (read the clock, swap, notify) and
`is_active` in two (load, read the clock), and a loop as register, check, park,
tick. Times are kept as ages, which stop at `Cap` and are below zero while
`last_seen_ms` lies in the future (`StepBack`, at most `Skew` ticks at a time).
`Delay` says how many ticks a `touch` may be held up between its clock read and its
swap; an `is_active` may be held up for any number. A visitor touches once a tick, so
that visits cannot keep time from passing. `disturbed` is history: while the loop had
its `Notified`, the clock was set back, moved on between the loop's two reads, or a
touch swapped in a time that had passed. `Relaxed` order on
`last_seen_ms` adds no behaviour that matters here: the wake-up travels through
`Notify`.

`VisitGate` is the abstract specification: a loop falls asleep only while nobody
visits, and the visit that ends an idle gap wakes every loop in the same step.
`stranded` names the loops that the clock has disturbed since they last ticked: those
that sleep on when it is set back, or when a visit comes with a time that has passed
(`OutOfTime`), and those that fall asleep on what they read before the threshold
passed (`HeldUp`). `DataPlane` is shown
to keep to the same gate with nobody stranded, so that the two meet in `VisitGate`.

### Pacing and retries

`Governor` is the limiter (debt of the GCRA, in ticks) with an observer who counts
the requests of one window and may open the next at any tick. `SpotifyClient`
extends it with the retry layers: `run` is the pass of the 429 layer, `attempt`
the counter of the 5xx layer. `asked`, `since`, `slept`, `streak` and `sends` are
history; what only a running call is asked about goes back to 0 when it ends (`End`).
A `Retry-After` of 0 stands for one that is missing, not an integer or not
positive. The limiter is external: the model admits at most `Burst` requests after
idling and one per `Period` from then on. The 429 and 5xx layers are as in the
code, including that the second run starts with a fresh backoff.

### Data plane

`DataPlane` holds the cells and all their writers. Spotify's data is a version number
that grows; a payload is the version it was fetched at. A fetch is the call (`Answered`,
`FetchFailed`), for a profile the two counting calls, and the store. `Request` is a
visit: it touches the tracker, wakes parked loops and starts `serve`. The activity gate
is taken as `ActivityGate` shows it for loops the clock has not disturbed. `Request`
wakes whoever is parked, the code only after a gap: without a gap the service is active
and nobody is parked (proved for `GateKept`). The flag is taken as `TokenLifecycle`
shows it (raised in a call of `get`, lowered by a re-link). `outrun` is history: another
task has stored the kind since this fetch began. A restart is the initial state again.

`ServedPayloads` extends `DataPlane` by what is served: which counts of a profile
payload are not Spotify's own (`wrong`, `cellWrong`): the zero of a call that failed,
`playlists_count` out of a playlists cell that is older than Spotify's data, or a count
that Spotify's data has left behind since (`SpotifyMoves`); and whether a request
found its cell filled when it arrived (`late`). Each of its actions is the one of
`DataPlane` with what it does to these.

### State store and login

`StateStore` keeps the ticks left to each expiry; `age`, `drawn` and `accepted` are
history. `LoginFlow` puts the handlers on top: any number of callbacks may carry any
state at any time, each in a handler of its own, and from the exchange on they run the
code of `OAuthCallback`, taken by `INSTANCE`. The callers of `get` and the restarts are
those of `TokenLifecycle`, which assumes a link attempt to be one login with one
callback. `ImplementsLifecycle` shows that it is: a CSRF state is mapped to a link
attempt, which is issued while the map holds the state, where its handler is while one
works on it, and over otherwise.

### Mapping, fixtures and the process

`V1Mapper` has an operator for each function of `app/v1_mapper.rs` and the two tags of
the scheduler. A leaf of a response that may be absent is a sequence of at most one
value, so that the defaults of the code show; artists are joined as a sequence of
names, and an URL is a value. `MockClient` has the canned response of each path.

`ServiceProcess` composes them: a process goes through the steps of `main` and `init`,
each of which may fail (`Stop`), then its loops fetch, map, tag and store. Several
processes share the port, the schema and the token row, which is told apart by origin
only. `cell` is the latest payload with the response it came from, `listed` the total in
a process's playlists cell, which a later profile takes its `playlists_count` from. A
profile is stored although a counting call failed: its count is 0 then (`CountOf`), and
the flag may be up. What becomes of a real token, and how fetches interleave, is left to
`TokenLifecycle` and `DataPlane`; whether the counts come right again is
`CellsConverge`.

### Order and composition

Written in the order token lifecycle, activity gate, limiter and client, data plane,
state store and login, process and mapping, most important first.

| Module | Composes | Abstract specification |
|---|---|---|
| `TokenLifecycle` | `SpotifyService`, `OAuthCallback` over `TokenState` | `RefreshCell` |
| `LoginFlow` | `StateStore`, `OAuthCallback`, `SpotifyService` over `TokenState` | `TokenLifecycle` |
| `ActivityGate` | | `VisitGate` |
| `DataPlane`, `ServedPayloads` | loops, handlers, owner, switch, flag, cells | `VisitGate`, for the loops |
| `SpotifyClient` | `Governor` | `GovernorSpec`, for the traffic |
| `ServiceProcess` | `V1Mapper`, `MockClient` | |

`MC...` modules name the model values and the symmetries, `...Proofs` modules hold the
theorems. Definitions named `Mut...` are plausible bugs of the definition that follows
them; each property is violated when its bug is put in place of the definition.

## 3. Runs

| Run | What it asks | Bounds, and why they are enough |
|---|---|---|
| `relink` | `IInv` (with `TypeOK`), `NoFlightWhileLatched`, `LatchIsWarranted`, `BlamesStoredUnlessRelinked`, `WithinGrantForward`, `ImplementsRefreshCell` | Two callers that may be dropped (a scheduler task is one that is not), two links, 3 token responses, 2 authorizations: two refreshes around a re-link, or one refresh and two callbacks that hold tokens at once, with any revocation, loss, drop and restart |
| `singleflight` | `GetTerminates` | Three callers, 3 responses, no link: one refreshes, two wait and reuse, it happens again, and two of them may be dropped at any await |
| `late_rejection` | `LatchBlamesStored`, violated | One scheduler and one link are enough |
| `activity` | `GateInv`, `LostToTheClockOnly`, `VisitsKeepTicking`, `GapsKeepTicking`, `IdleParks`, `ImplementsVisitGate` | Two visitors, two loops, threshold 2, `Delay` 1, a clock set back by one tick as often as it likes: a touch may be late, on time or ahead of the clock, beside another one |
| `activity_late` | `NoLostWakeUp`, violated | One loop, `Delay` 1, no set-back |
| `pacing_promise` | `ThirtyPerThirtySeconds`, violated | The production quota, half a second per tick, windows up to 30 s |
| `retry_chain` | `ClientInv` (with the types, `RetryInv`, `WaitInv` and `SleepInv`), `GovernorInv`, `PacingBound`, `SleepBounded`, `AttemptsBounded`, `ServerErrorExhausted`, `PacedTraffic`, `CallTerminates`, `WaitsBeforeResend` | Two calls, two backoff retries a run with doubling delays and jitter 0 or 1, Retry-After missing, at the cap and twice the cap, a limiter with one permit, so that calls wait for each other's permits, and windows as long as its period |
| `plane_overlap` | `PlaneInv`, `LastGoodKept`, `OnlyOvertakenGoesBack`, `KeepsToVisitGate` | Two loops, a visitor, the owner, two versions: each cell has up to three writers with older and newer payloads |
| `plane_served` | `ServedFromCell`, `FetchingResumes`, `DisabledQuiets`, `CellsConverge` | The profile and playlists loops and a visitor, two versions: a visitor and a loop overlap on a cell, and either count may be a zero or of the older version |
| `login` | `PendingInv`, `SingleUse`, `OneCallbackPerLogin`, `NoneLate`, `ImplementsLifecycle` | Two states, two handlers, one caller of `get`, Ttl of 2 ticks, ages up to 3 (before, at and after the expiry), 2 responses of 2 authorizations: both handlers exchange at once, or one does beside a refresh, and a restart falls between; `relink` has the longer chains of responses |
| `startup` | `ProcessInv`, `OnePoller`, `ListensReady`, `PayloadWhole` | Two processes with any environment on one host; responses whose leaves are there, absent or partial, lists of up to two tracks, counting calls that fail, a playlists cell that is empty or of another total. `Required` is one variable: all six are handled alike |
| `mock_token` | `MockTokenNeverSent`, violated | The same |

`CHECK_DEADLOCK` is left on everywhere. Symmetry is declared only in runs without
liveness.

Bounds that are part of the models:
`MaxIssued` and `MaxGrants` stop the server's responses, `MaxVersion` the changes of
Spotify's data, `Forget` the ages of CSRF states, `Cap` the ages of the tracker, `Delay`
and `Skew` what the clock may do to it, `Window` what the observer of the limiter counts.

### Fairness

- `singleflight`: weak fairness for a caller whose await has resolved (tokio
  polls what is ready), strong fairness for entering the lock (tokio's `Mutex` is
  FIFO; a waiter finds it free again and again and is served). That every await
  resolves, with some outcome, is an assumption: the HTTP clients have no timeout.
- `activity`: time passes (weak fairness of `Tick`); weak fairness for each
  loop, and for a `touch` that has begun, which has no await. Visits are not fair: the
  properties say what follows when they keep coming, pause, or stop. `StepBack` is not
  fair either; the properties say whether it goes on.
- `retry_chain`: time passes, answers come, and a permit that stays available
  is taken. `until_ready` does not queue; with finitely many calls that is enough.
- `plane_served`: each task's next step is weakly fair. Visits, re-links, the switch and
  the success of a call are not: `CellsConverge` assumes that each loop gets a fetch
  through now and then, which a Spotify that answers and a flag that is down provide.

### Where the code and what is said about it differ

1. **`late_rejection`** (`app/spotify_service.rs:138`). A refresh POST of the old
   token is on its way; the owner re-links, the callback upserts and clears the flag;
   the POST comes back `invalid_grant` and raises the flag against the fresh tokens.
   It stays up until the next re-link or restart. Re-reading the row before
   `set_needs_reauth`, or a callback that takes `refresh_lock`, would close it. It is
   the only gap: `BlamesStoredUnlessRelinked` holds and is proved.
2. **`activity_late`** (`app/activity.rs:55`). When a millisecond passes between the
   two reads of `touch` or of `is_active`, a loop can park just after a visit that
   notified nobody; it sleeps on while visits keep the service active, until a gap
   longer than the threshold lets a touch notify again. It is the clock alone that loses
   wake-ups: `LostToTheClockOnly` holds and is proved.
3. **`pacing_promise`** (`infra/spotify_client.rs:46`). 20 of burst and one per 1.5 s
   are up to 40 requests in 30 s; `domain/spotify.rs` promises 30. That it is never more
   than 40 is `WindowLimit`.
4. **`mock_token`** (`lib.rs:199`). A start with `MOCK_DATA` upserts fake tokens over
   whatever row there is, before it has even bound the port. A process without
   `MOCK_DATA` on the same database, later or at the same time, sends them to Spotify,
   though `lib.rs:184` says they never are; and the real grant is gone.

Others were read and are not run:

- The switch is read once, before a fetch. The later calls of a profile fetch
  (`app/scheduler.rs:174`) may begin after it was turned off, where
  `domain/spotify_toggle.rs:3` says that there are no further calls of any kind. What
  does hold is `DisabledQuiets`.
- `serve` looks a cell up before the cold-start fetch and not again when that fails, so
  that it may answer `upstream_unavailable` although a snapshot has arrived meanwhile;
  `routes/v1.rs:131` says that then none exists yet. What does hold is `ServedFromCell`.
- A clock that is set back loses wake-ups as well: it makes the service active without
  a touch, and the touches that follow find no gap. `GapsKeepTicking` is what remains.
- `lib.rs:92` calls the OAuth exchanger unused at runtime in mock mode; the callback
  route uses it in either mode (`Link`).

## 4. Theorems

All proofs are for any value of the constants under the modules' named
assumptions.

**`TokenLifecycleProofs`**. `TypeCorrect`, then `Invariance`: `IInv` holds in every
reachable state. None of the properties is inductive alone. That a refresh in
flight is that of the stored record (`FlightInv`) needs that the lock is held
exactly in the critical section (`LockInv`), that an access token identifies its
record (`SameAccessInv`) and that what a refresh or a callback holds is new
(`MintedInv`, `CallbackInv`); that the flag is warranted needs that a token stored
or on its way is honoured or spoiled (`UsableInv`). From `IInv` follow
`LatchStopsFlights`, `WarrantedLatch`, `BlamedRecord` (a rejected refresh token is that
of the stored record, by `FlightInv`, unless the grants differ), `StoredForward`, and
`Refinement`: each step maps to a step of `RefreshCell` or a stutter, with the record of the lock's holder
as the refresh in flight.

**`ActivityGateProofs`**. `GateInvariance` and `LostOnlyToTheClock`, for any `Delay` and
any `Skew`: a wake-up is lost only of a loop the clock has disturbed since it last
ticked, in whatever order the tasks take their steps. That the exception is needed is
the second divergence above. The invariant adds to the property the loops that have
loaded an age they will park on. `GateRefinement`: with a loop taken to be asleep when
it is parked, or will park, and nothing that has happened will wake it, each step of the
tracker is one of `VisitGate`. A tick is `HeldUp`, a set-back `OutOfTime`, a
swap a `Visit`, or `OutOfTime` when it brings a time that has passed.

**`SpotifyClientProofs`**. `GovernorInvariance` bounds what a window has sent by the
debt and the time elapsed, from which `Pacing` follows; `EveryRequestPaced` shows that
the whole chain refines `GovernorSpec`, so that the bound carries over (`ClientPacing`),
as does any limit that the quota allows (`WindowLimit`, `ClientWindowLimit`).
`RetryInvariance` relates `run` and `attempt` to the requests sent and the answers met;
`BoundedAttempts` and `ExhaustedServerErrors` follow. `ClientInvariance` adds the
timers: what a call has waited and what its timer has left are together at least what
the last answer asked for (`WaitInv`), whence `WaitsKept`; and what it has slept is
covered by the retries it has made (`SleepInv`), whence `BoundedSleep`: two runs of the
backoff schedule and one capped pause, 75.5 s under the production values (2 * (7 + 3 *
0.25) + 60), beside the waits for permits and answers. Both need the doubling of the
schedule, and the second that it grows with the number of retries (`RunSleepGrows`), for
any number of them. `TwoTo` is a recursive function, so that it satisfies its equation
has to be shown first (`TwoToEquation`); the induction is one over sets of naturals,
taken from `WellFoundedInduction`, since a rule with a predicate as its parameter cannot
be instantiated. Two assumptions became necessary and are named: `RetryAssumption`,
beyond which `2u32.pow` overflows, and `Retry-After` in whole seconds, as the header
gives it.

**`DataPlaneProofs`**. `Freshness`: a task that was not overtaken holds nothing older
than its cell. `LastGood` and `OvertakenOnly` follow from it and from the fact that
only `Store` writes a cell. `GateKept`: the loops keep to `VisitGate`.

**`ServedPayloadsProofs`**. `AnsweredFromCell`: every step of `ServedPayloads` is one of
`DataPlane`, none of which empties a cell, so a request that found its cell filled is
answered at the look-up at the latest.

**`StateStoreProofs`**. `PendingInvariance` ties what is left of a state's time to its
age and keeps what is in the map unused; `OnceOnly` and `NothingLate` follow.

**`LoginFlowProofs`**. `FlowKeepsStore`: the handlers change the map by `issue` and
`consume` only, so `FlowOnceOnly` and `FlowNothingLate` follow from the store's
theorems. `OneHandler` needs that a state somebody works on is used up (`UsedUp`) and
that a handler carries a state exactly while it works (`WorksInv`). `FlowRefinement`
then maps each step, of handlers, callers, server and restarts, to one of
`TokenLifecycle` or a stutter. `FlowTracked` turns this into a behaviour of
`TokenLifecycle` itself, whose link variables are the derived ones (`Tracked`): they
are fixed by the flow's own and restrict nothing. So the lifecycle's theorems hold of
repeated, late and concurrent requests: `FlowLatchStops`, `FlowWarrantedLatch`,
`FlowBlamedRecord`, `FlowStoredForward` and `FlowRefreshes`.

**`ServiceProcessProofs`**. `ReadyInvariance` ties the stage of each process to port,
loops, schema, row and flag; `PolledOnce` and `ListenerReady` follow. `WholePayloads` is
about what is stored, for responses with lists of any length
(`BodiesAssumption`): the mapper's operators are expanded endpoint by endpoint, and a
payload stays while its process polls, which `ProcessInv` has for this.

**Only model-checked**: the liveness properties (`GetTerminates`,
`VisitsKeepTicking`, `GapsKeepTicking`, `IdleParks`, `CallTerminates`,
`FetchingResumes`, `DisabledQuiets`, `CellsConverge`), since fairness and `ENABLED` are
out of the prover's reach; and the four violations. Every safety property of a passing
run is proved.

## 5. Not modelled

- Logging and wire logging, CORS, request ids, `healthz`, Basic auth, the authorize URL:
  none changes the state of the models.
- `TokenRepository::delete`, which has no caller, and `expires_at`, which has no reader.
- An HTTP call that never returns, a row written after its future was dropped, database
  failures other than a failing `get` or `upsert` and a failing start.
- Memory order: flags are `SeqCst`, and `last_seen_ms` is a hint.
- Wording and layout of JSON: field order, types other than those the mapper reads, and
  the separator of artists.
- The number of logins that wait in the state store: nothing bounds it, and nothing is
  said about it.

## 6. Plan

Done: the modules, runs and theorems above. What is left is depth rather than breadth:

1. `TokenLifecycle` under `DataPlane` by refinement for the flag, as `VisitGate` does it
   for the activity gate.
2. The start of two processes with different databases on one host, and with one
   database on two hosts, where the port no longer keeps the second from polling.
