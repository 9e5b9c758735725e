------------------------------- MODULE DataPlane -------------------------------
(***************************************************************************)
(* The data plane: one snapshot cell per /v1 endpoint (app/snapshots.rs)   *)
(* and the three kinds of task that fetch from Spotify and store into it:  *)
(* the scheduler loop of the endpoint (app/scheduler.rs), /v1 handlers on  *)
(* a cold start (routes/v1.rs), and the owner's refresh (routes/admin.rs), *)
(* under the kill switch, the reauth flag and the activity gate.           *)
(*                                                                         *)
(* Spotify's data is a version number that grows.  The gate is taken as    *)
(* ActivityGate shows it for loops that the clock has not disturbed: a     *)
(* visit makes the service active and wakes every parked loop.  What the   *)
(* clock can do to a loop (a step back, or a tick between its two reads)   *)
(* is in ActivityGate alone.  The flag goes up in a call of                *)
(* SpotifyService::get and down by a re-link, as in TokenLifecycle.        *)
(* All of it lives in memory: a restart is the initial state again.        *)
(***************************************************************************)
EXTENDS Integers

CONSTANTS
    Kinds,       \* EndpointKind; each kind also names its scheduler loop
    Profile,     \* the kind whose fetch makes three calls
    Playlists,   \* the kind whose snapshot saves Profile its third call
    Visitors,    \* /v1 requests that may overlap
    Admins,      \* /admin/spotify/refresh requests that may overlap
    MaxVersion   \* bound of the model: changes of Spotify's data

ASSUME PlaneAssumption ==
    /\ Kinds \cap Visitors = {} /\ Kinds \cap Admins = {} /\ Visitors \cap Admins = {}
    /\ Playlists \in Kinds /\ Playlists # Profile
    /\ MaxVersion \in Nat \ {0}

VARIABLES
    snapshot,     \* version in each cell, None before the first store
    enabled,      \* SpotifyToggle
    needsReauth,  \* AuthState
    active,       \* the activity gate: visited within the threshold
    upstream,     \* version of Spotify's data
    pc,           \* where each task is
    doing,        \* the kind a task works on
    payload,      \* the version a task has fetched
    outrun        \* history: another task stored the kind since the fetch began

flags == <<enabled, needsReauth, active>>
planeVars == <<snapshot, flags, upstream, pc, doing, payload, outrun>>

Tasks == Kinds \cup Visitors \cup Admins
None == 0
Home(t) == IF t \in Kinds THEN t ELSE Playlists
Versions == 1..MaxVersion

(* A call of SpotifyService::get is under way.                             *)
Calling == {"fetching", "following", "tallying"}
InFetch == Calling \cup {"fetched"}
(* A handler is idle before a request and once it has responded.           *)
TaskState == InFetch \cup
    {"idle", "top", "parked", "reauth_gate", "lookup", "toggle_gate"}

TypeOK ==
    /\ snapshot \in [Kinds -> Versions \cup {None}]
    /\ enabled \in BOOLEAN /\ needsReauth \in BOOLEAN /\ active \in BOOLEAN
    /\ upstream \in Versions
    /\ pc \in [Tasks -> TaskState]
    /\ doing \in [Tasks -> Kinds]
    /\ payload \in [Tasks -> Versions \cup {None}]
    /\ outrun \in [Tasks -> BOOLEAN]

Init ==
    /\ snapshot = [k \in Kinds |-> None]
    /\ enabled = TRUE
    /\ needsReauth = FALSE
    /\ active = FALSE
    /\ upstream = 1
    /\ pc = [t \in Tasks |-> IF t \in Kinds THEN "top" ELSE "idle"]
    /\ doing = [t \in Tasks |-> Home(t)]
    /\ payload = [t \in Tasks |-> None]
    /\ outrun = [t \in Tasks |-> FALSE]

-----------------------------------------------------------------------------
GoTo(t, label) == pc' = [pc EXCEPT ![t] = label]

(* A task moves on without a fetch.                                        *)
Move(t, label) ==
    /\ GoTo(t, label)
    /\ UNCHANGED <<snapshot, flags, upstream, doing, payload, outrun>>

(* A task is done with a kind, and with what it has fetched: a loop sleeps,*)
(* a handler has responded.                                                *)
Finish(t) ==
    /\ GoTo(t, IF t \in Kinds THEN "top" ELSE "idle")
    /\ doing' = [doing EXCEPT ![t] = Home(t)]
    /\ payload' = [payload EXCEPT ![t] = None]

(* fetch_and_map makes its first call of SpotifyService::get.              *)
BeginFetch(t) ==
    /\ GoTo(t, "fetching")
    /\ outrun' = [outrun EXCEPT ![t] = FALSE]
    /\ UNCHANGED <<snapshot, flags, upstream, payload>>

(* A refused refresh may raise the flag on the way.                        *)
MayRaise == needsReauth' \in {needsReauth, TRUE} /\ UNCHANGED <<enabled, active>>

-----------------------------------------------------------------------------
(* fetch_and_map.                                                          *)

Answered(t) ==
    /\ pc[t] = "fetching"
    /\ payload' = [payload EXCEPT ![t] = upstream]
    /\ GoTo(t, IF doing[t] = Profile THEN "following" ELSE "fetched")
    /\ UNCHANGED <<snapshot, flags, upstream, doing, outrun>>

(* fetch_profile takes any failure of its second call for a 0, and asks    *)
(* Spotify for the playlist count only while the cell is empty.            *)
FollowingCounted(t) ==
    /\ pc[t] = "following"
    /\ GoTo(t, IF snapshot[Playlists] = None THEN "tallying" ELSE "fetched")
    /\ MayRaise
    /\ UNCHANGED <<snapshot, upstream, doing, payload, outrun>>

(* A failure of the third call is a 0 too.                                 *)
PlaylistsTallied(t) ==
    /\ pc[t] = "tallying"
    /\ GoTo(t, "fetched")
    /\ MayRaise
    /\ UNCHANGED <<snapshot, upstream, doing, payload, outrun>>

(* The first call failed: a loop logs it, serve answers 503 for Upstream,  *)
(* and refresh_spotify an error of its own.                                *)
MutFetchFailedClears(t) ==
    /\ pc[t] = "fetching"
    /\ Finish(t)
    /\ snapshot' = [snapshot EXCEPT ![doing[t]] = None]
    /\ outrun' = [outrun EXCEPT ![t] = FALSE]
    /\ UNCHANGED <<flags, upstream>>

FetchFailed(t) ==
    /\ pc[t] = "fetching"
    /\ Finish(t)
    /\ MayRaise
    /\ outrun' = [outrun EXCEPT ![t] = FALSE]
    /\ UNCHANGED <<snapshot, upstream>>

(* state.snapshots.set(kind, Some(payload)), as every caller does.         *)
SetSnapshot(kind, version) == snapshot' = [snapshot EXCEPT ![kind] = version]

MutStoreHomeKind(t) ==
    /\ pc[t] = "fetched"
    /\ SetSnapshot(Home(t), payload[t])
    /\ outrun' = [u \in Tasks |->
         u # t /\ (outrun[u] \/ (pc[u] \in InFetch /\ doing[u] = doing[t]))]
    /\ Finish(t)
    /\ UNCHANGED <<flags, upstream>>

Store(t) ==
    /\ pc[t] = "fetched"
    /\ SetSnapshot(doing[t], payload[t])
    /\ outrun' = [u \in Tasks |->
         u # t /\ (outrun[u] \/ (pc[u] \in InFetch /\ doing[u] = doing[t]))]
    /\ Finish(t)
    /\ UNCHANGED <<flags, upstream>>

Fetch(t) ==
    \/ Answered(t)
    \/ FollowingCounted(t)
    \/ PlaylistsTallied(t)
    \/ FetchFailed(t)
    \/ Store(t)

-----------------------------------------------------------------------------
(* The scheduler loop of kind k; at the top it sleeps for one interval.    *)

LoopTop(k) ==
    /\ pc[k] = "top"
    /\ Move(k, IF active THEN "reauth_gate" ELSE "parked")

LoopReauthGate(k) ==
    /\ pc[k] = "reauth_gate"
    /\ Move(k, IF needsReauth THEN "top" ELSE "toggle_gate")

MutLoopParksWhenDisabled(k) ==
    /\ pc[k] = "toggle_gate"
    /\ \/ ~enabled /\ Move(k, "parked")
       \/ enabled /\ BeginFetch(k) /\ UNCHANGED doing

LoopToggleGate(k) ==
    /\ pc[k] = "toggle_gate"
    /\ \/ ~enabled /\ Move(k, "top")
       \/ enabled /\ BeginFetch(k) /\ UNCHANGED doing

Loop(k) == LoopTop(k) \/ LoopReauthGate(k) \/ LoopToggleGate(k)

-----------------------------------------------------------------------------
(* A /v1 request: v1_activity_layer touches the tracker, then serve.  The  *)
(* code notifies after a gap only; without one the service is active, and  *)
(* then no loop is parked here that a notification would wake.             *)

MutRequestNoWake(v, k) ==
    /\ pc[v] = "idle"
    /\ active' = TRUE
    /\ pc' = [pc EXCEPT ![v] = "reauth_gate"]
    /\ doing' = [doing EXCEPT ![v] = k]
    /\ UNCHANGED <<snapshot, enabled, needsReauth, upstream, payload, outrun>>

Request(v, k) ==
    /\ pc[v] = "idle"
    /\ active' = TRUE
    /\ pc' = [t \in Tasks |->
         IF t = v THEN "reauth_gate" ELSE IF pc[t] = "parked" THEN "reauth_gate" ELSE pc[t]]
    /\ doing' = [doing EXCEPT ![v] = k]
    /\ UNCHANGED <<snapshot, enabled, needsReauth, upstream, payload, outrun>>

(* A response that needs no fetch: needs_reauth, the snapshot, or paused;  *)
(* or none, for a handler whose future is dropped.                         *)
Respond(t) ==
    /\ Finish(t)
    /\ outrun' = [outrun EXCEPT ![t] = FALSE]
    /\ UNCHANGED <<snapshot, flags, upstream>>

ServeReauthGate(v) ==
    /\ pc[v] = "reauth_gate"
    /\ \/ needsReauth /\ Respond(v)
       \/ ~needsReauth /\ Move(v, "lookup")

ServeLookup(v) ==
    /\ pc[v] = "lookup"
    /\ \/ snapshot[doing[v]] # None /\ Respond(v)
       \/ snapshot[doing[v]] = None /\ Move(v, "toggle_gate")

MutServeToggleIgnored(v) ==
    /\ pc[v] = "toggle_gate"
    /\ BeginFetch(v)
    /\ UNCHANGED doing

ServeToggleGate(v) ==
    /\ pc[v] = "toggle_gate"
    /\ \/ ~enabled /\ Respond(v)
       \/ enabled /\ BeginFetch(v) /\ UNCHANGED doing

Serve(v) == ServeReauthGate(v) \/ ServeLookup(v) \/ ServeToggleGate(v)

-----------------------------------------------------------------------------
(* The owner: refresh_spotify asks neither the switch nor the flag.        *)

Refresh(a, k) ==
    /\ pc[a] = "idle"
    /\ doing' = [doing EXCEPT ![a] = k]
    /\ BeginFetch(a)

Toggle ==
    /\ enabled' \in BOOLEAN
    /\ UNCHANGED <<snapshot, needsReauth, active, upstream, pc, doing, payload, outrun>>

(* The client goes away: its handler's future is dropped.                  *)
Disconnect(t) ==
    /\ t \notin Kinds
    /\ pc[t] # "idle"
    /\ Respond(t)

-----------------------------------------------------------------------------
(* The world outside.                                                      *)

SpotifyChanges ==
    /\ upstream < MaxVersion
    /\ upstream' = upstream + 1
    /\ UNCHANGED <<snapshot, flags, pc, doing, payload, outrun>>

(* The idle threshold passes without a visit.                              *)
GoIdle ==
    /\ active' = FALSE
    /\ UNCHANGED <<snapshot, enabled, needsReauth, upstream, pc, doing, payload, outrun>>

Relinked ==
    /\ needsReauth' = FALSE
    /\ UNCHANGED <<snapshot, enabled, active, upstream, pc, doing, payload, outrun>>

Progress(t) ==
    \/ Fetch(t)
    \/ t \in Kinds /\ Loop(t)
    \/ t \in Visitors /\ Serve(t)

Next ==
    \/ \E t \in Tasks : Progress(t) \/ Disconnect(t)
    \/ \E v \in Visitors, k \in Kinds : Request(v, k)
    \/ \E a \in Admins, k \in Kinds : Refresh(a, k)
    \/ Toggle
    \/ SpotifyChanges
    \/ GoIdle
    \/ Relinked

Spec == Init /\ [][Next]_planeVars

(* The runtime polls what is ready, sleeps end, and calls of Spotify are   *)
(* assumed to return, in success or failure.                               *)
FairSpec == Spec /\ \A t \in Tasks : WF_planeVars(Progress(t))

-----------------------------------------------------------------------------
(* The last good snapshot outlives every failure: once a cell is filled    *)
(* it stays filled (the handlers then need no call to answer).             *)
LastGoodKept == [][\A k \in Kinds : snapshot[k] # None => snapshot'[k] # None]_planeVars

(* A cell goes back to older data only when two fetches of its kind have   *)
(* overlapped, and the one that was overtaken stores last.                 *)
OnlyOvertakenGoesBack == [][\A k \in Kinds :
    snapshot'[k] < snapshot[k] =>
        \E t \in Tasks : pc[t] = "fetched" /\ doing[t] = k /\ outrun[t]]_planeVars

(* "Re-enabling resumes within one interval", and so does a re-link: while *)
(* visitors come, the switch stays on and the flag down, every loop keeps  *)
(* fetching (the two gates of spawn_one sleep, they do not park).          *)
FetchingResumes == \A k \in Kinds :
    []<>active /\ <>[](enabled /\ ~needsReauth) => []<>(pc[k] = "fetching")

(* Once the switch stays off the calls die out, those of fetches that had  *)
(* passed it and those of visitors who keep coming; the owner's refresh    *)
(* alone ignores it.                                                       *)
DisabledQuiets ==
    <>[]~enabled => <>[](\A t \in Kinds \cup Visitors : pc[t] \notin Calling)

(* The gate the loops see is the one ActivityGate is shown to implement:   *)
(* a loop sleeps for want of visits only, and no visit leaves one asleep.  *)
Parked == {k \in Kinds : pc[k] = "parked"}

PlaneGate == INSTANCE VisitGate WITH Loops <- Kinds, asleep <- Parked, stranded <- {}

KeepsToVisitGate == PlaneGate!GateSpec

(* What keeps the cells in order: a task that was not overtaken holds      *)
(* nothing older than the cell.                                            *)
FreshInv ==
    /\ \A k \in Kinds : snapshot[k] <= upstream
    /\ \A t \in Tasks : payload[t] <= upstream
    /\ \A t \in Tasks : pc[t] \in InFetch \ {"fetching"} =>
         /\ payload[t] # None
         /\ ~outrun[t] => payload[t] >= snapshot[doing[t]]

(* FreshInv with the types, as a step preserves it.                        *)
PlaneInv == TypeOK /\ FreshInv
=============================================================================
