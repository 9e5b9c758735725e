----------------------------- MODULE ServedPayloads -----------------------------
(***************************************************************************)
(* What the data plane serves: DataPlane, with the counts of a profile     *)
(* that are not Spotify's own (fetch_profile, app/scheduler.rs): the 0 of  *)
(* a call that failed, or a number that is out of date; and whether a      *)
(* request found its cell filled (serve, routes/v1.rs).                    *)
(***************************************************************************)
EXTENDS DataPlane

VARIABLES
    wrong,      \* each task: the counts it has that are not Spotify's own
    cellWrong,  \* the counts in the profile cell that are not, or not there
    late        \* history: the cell was filled when the request arrived

servedVars == <<planeVars, wrong, cellWrong, late>>

ProfileCounts == {"following", "playlists_count"}

ServedTypeOK ==
    /\ wrong \in [Tasks -> SUBSET ProfileCounts]
    /\ cellWrong \in SUBSET ProfileCounts
    /\ late \in [Visitors -> BOOLEAN]

ServedInit ==
    /\ Init
    /\ wrong = [t \in Tasks |-> {}]
    /\ cellWrong = ProfileCounts
    /\ late = [v \in Visitors |-> FALSE]

-----------------------------------------------------------------------------
(* A count call is answered with the total of the moment, or taken for a  *)
(* 0; only a call that fails raises the flag.                              *)
TotalOrZero(t, count, others) ==
    /\ \/ wrong' = [wrong EXCEPT ![t] = @ \cup others] /\ UNCHANGED needsReauth
       \/ wrong' = [wrong EXCEPT ![t] = @ \cup others \cup {count}]
    /\ UNCHANGED <<cellWrong, late>>

(* A task lets go of its payload when it is done.                          *)
LetGo(t) ==
    /\ wrong' = [wrong EXCEPT ![t] = {}]
    /\ late' = [v \in Visitors |-> v # t /\ late[v]]

MeAnswered(t) == Answered(t) /\ UNCHANGED <<wrong, cellWrong, late>>

(* A filled playlists cell gives playlists_count there and then, be it old.*)
OldCount == IF snapshot[Playlists] \in {None, upstream} THEN {} ELSE {"playlists_count"}

FollowingAnswered(t) == FollowingCounted(t) /\ TotalOrZero(t, "following", OldCount)

TallyAnswered(t) == PlaylistsTallied(t) /\ TotalOrZero(t, "playlists_count", {})

MeFailed(t) == FetchFailed(t) /\ LetGo(t) /\ UNCHANGED cellWrong

MutStoredFirst(t) ==
    /\ Store(t)
    /\ cellWrong' = IF doing[t] = Profile /\ snapshot[Profile] = None THEN wrong[t] ELSE cellWrong
    /\ LetGo(t)

(* The counts are in the payload that is stored.                           *)
Stored(t) ==
    /\ Store(t)
    /\ cellWrong' = IF doing[t] = Profile THEN wrong[t] ELSE cellWrong
    /\ LetGo(t)

-----------------------------------------------------------------------------
LoopStep(k) == Loop(k) /\ UNCHANGED <<wrong, cellWrong, late>>

Arrive(v, k) ==
    /\ Request(v, k)
    /\ late' = [late EXCEPT ![v] = snapshot[k] # None]
    /\ UNCHANGED <<wrong, cellWrong>>

ServeStep(v) ==
    /\ Serve(v)
    /\ IF pc'[v] = "idle" THEN LetGo(v) ELSE UNCHANGED <<wrong, late>>
    /\ UNCHANGED cellWrong

OwnerRefresh(a, k) == Refresh(a, k) /\ UNCHANGED <<wrong, cellWrong, late>>

HangUp(t) == Disconnect(t) /\ LetGo(t) /\ UNCHANGED cellWrong

(* The counts that a task has by now.                                      *)
Taken(t) ==
    CASE doing[t] # Profile -> {}
      [] pc[t] = "tallying" -> {"following"}
      [] pc[t] = "fetched" -> ProfileCounts
      [] OTHER -> {}

(* What has been counted is out of date.                                   *)
SpotifyMoves ==
    /\ SpotifyChanges
    /\ wrong' = [t \in Tasks |-> Taken(t)]
    /\ cellWrong' = ProfileCounts
    /\ UNCHANGED late

Around ==
    /\ Toggle \/ GoIdle \/ Relinked
    /\ UNCHANGED <<wrong, cellWrong, late>>

ServedProgress(t) ==
    \/ MeAnswered(t)
    \/ FollowingAnswered(t)
    \/ TallyAnswered(t)
    \/ MeFailed(t)
    \/ Stored(t)
    \/ t \in Kinds /\ LoopStep(t)
    \/ t \in Visitors /\ ServeStep(t)

ServedNext ==
    \/ \E t \in Tasks : ServedProgress(t) \/ HangUp(t)
    \/ \E v \in Visitors, k \in Kinds : Arrive(v, k)
    \/ \E a \in Admins, k \in Kinds : OwnerRefresh(a, k)
    \/ SpotifyMoves
    \/ Around

ServedSpec == ServedInit /\ [][ServedNext]_servedVars
ServedFairSpec == ServedSpec /\ \A t \in Tasks : WF_servedVars(ServedProgress(t))

-----------------------------------------------------------------------------
(* Criterion 19: a request that arrives once the cell is filled does not   *)
(* get past the look-up.  It is answered from the cell, or needs_reauth at *)
(* the gate, whatever the switch and Spotify do meanwhile; spotify_paused  *)
(* and upstream_unavailable reach only requests that arrived before the    *)
(* first store (even if it has come since).                                *)
ServedFromCell == \A v \in Visitors :
    late[v] => pc[v] \in {"reauth_gate", "lookup"} /\ snapshot[doing[v]] # None

FollowingFails == \E t \in Tasks : pc[t] = "following" /\ "following" \in wrong'[t]

(* Neither old data, nor an old count, nor the 0 of a failed one stays.    *)
(* Once Spotify's data is settled and fetch_profile's second call stops    *)
(* failing, the cells come to show that data, both counts included, as     *)
(* long as every loop gets a fetch through now and then.  The third call   *)
(* may fail for ever: the playlists cell has the count, and is no older    *)
(* than its last fetch.                                                    *)
CellsConverge ==
    (\A k \in Kinds : []<>(pc[k] = "fetched")) /\ <>[][~FollowingFails]_servedVars
        => <>[](cellWrong = {} /\ \A k \in Kinds : snapshot[k] = upstream)
=============================================================================
