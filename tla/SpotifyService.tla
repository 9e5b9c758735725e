---------------------------- MODULE SpotifyService ----------------------------
(***************************************************************************)
(* app/spotify_service.rs: SpotifyService::get and refresh_and_retry, run  *)
(* by many tasks at once.  One action per stretch of code between two      *)
(* awaits that other tasks can see.  The callers are the five scheduler    *)
(* tasks and the HTTP handlers (cold start, admin refresh); a handler's    *)
(* future is dropped when its client disconnects, a scheduler's never is.  *)
(***************************************************************************)
EXTENDS TokenState

CONSTANTS
    Callers,   \* the tasks that call SpotifyService::get
    Handlers,  \* those whose future the HTTP server may drop
    NoCaller   \* refresh_lock is free

ASSUME CallersAssumption == Handlers \subseteq Callers /\ NoCaller \notin Callers

VARIABLES
    pc,       \* where each caller is
    current,  \* the record a caller read first: `token`, then `current`
    next,     \* the record it retries with: `new_access`, and what it stores
    lock      \* the caller that holds refresh_lock

callerVars == <<pc, current, next, lock>>

(* The outcomes of get: Ok, and the three variants of ServiceError.        *)
Outcomes == {"ok", "needs_reauth", "upstream", "repo"}
Finished == Outcomes \cup {"idle"}
(* Where refresh_lock is held.  "minted": the server has answered the      *)
(* refresh, and its answer is not stored yet.                              *)
Critical == {"rereading", "posting", "minted"}
CallerState == Finished \cup Critical \cup {"calling", "queued", "retrying"}

CallerTypeOK ==
    /\ pc \in [Callers -> CallerState]
    /\ current \in [Callers -> Record]
    /\ next \in [Callers -> Record]
    /\ lock \in Callers \cup {NoCaller}

CallerInit ==
    /\ pc = [c \in Callers |-> "idle"]
    /\ current = [c \in Callers |-> NoRecord]
    /\ next = [c \in Callers |-> NoRecord]
    /\ lock = NoCaller

-----------------------------------------------------------------------------
GoTo(c, label) == pc' = [pc EXCEPT ![c] = label]

(* get returns: the caller's locals go out of scope.                       *)
Return(c, outcome) ==
    /\ GoTo(c, outcome)
    /\ current' = [current EXCEPT ![c] = NoRecord]
    /\ next' = [next EXCEPT ![c] = NoRecord]

Release(c) == lock' = IF lock = c THEN NoCaller ELSE lock

(* tokens.get(): the stored record, none, or a storage failure.            *)
Get(c) ==
    /\ pc[c] \in Finished
    /\ \/ /\ stored # NoRecord
          /\ GoTo(c, "calling")
          /\ current' = [current EXCEPT ![c] = stored]
          /\ UNCHANGED next
       \/ stored = NoRecord /\ Return(c, "needs_reauth")
       \/ Return(c, "repo")
    /\ UNCHANGED <<stateVars, serverVars, lock>>

(* The first get_json: 401 exactly when the access token is dead; any      *)
(* other failure is Upstream.                                              *)
FirstCall(c) ==
    /\ pc[c] = "calling"
    /\ \/ current[c].access \in liveAccess /\ Return(c, "ok")
       \/ /\ current[c].access \notin liveAccess
          /\ GoTo(c, "queued")
          /\ UNCHANGED <<current, next>>
       \/ Return(c, "upstream")
    /\ UNCHANGED <<stateVars, serverVars, lock>>

(* refresh_lock.lock(), then the latch: a caller that finds the flag up    *)
(* leaves at once.                                                         *)
MutEnterCriticalUnlatched(c) ==
    /\ pc[c] = "queued"
    /\ lock = NoCaller
    /\ lock' = c
    /\ GoTo(c, "rereading")
    /\ UNCHANGED <<stateVars, serverVars, current, next>>

MutEnterCriticalUnlocked(c) ==
    /\ pc[c] = "queued"
    /\ ~needsReauth
    /\ GoTo(c, "rereading")
    /\ UNCHANGED <<stateVars, serverVars, current, next, lock>>

EnterCritical(c) ==
    /\ pc[c] = "queued"
    /\ lock = NoCaller
    /\ \/ needsReauth /\ Return(c, "needs_reauth") /\ UNCHANGED lock
       \/ /\ ~needsReauth
          /\ lock' = c
          /\ GoTo(c, "rereading")
          /\ UNCHANGED <<current, next>>
    /\ UNCHANGED <<stateVars, serverVars>>

(* tokens.get() again, under the lock: reuse a record that has moved on,   *)
(* POST the refresh when it has not.                                       *)
MutRereadSkipped(c) ==
    /\ pc[c] = "rereading"
    /\ GoTo(c, "posting")
    /\ UNCHANGED <<stateVars, serverVars, current, next, lock>>

Reread(c) ==
    /\ pc[c] = "rereading"
    /\ \/ /\ stored # NoRecord
          /\ stored.access # current[c].access
          /\ GoTo(c, "retrying")
          /\ next' = [next EXCEPT ![c] = stored]
          /\ Release(c)
          /\ UNCHANGED current
       \/ /\ stored # NoRecord
          /\ stored.access = current[c].access
          /\ GoTo(c, "posting")
          /\ UNCHANGED <<current, next, lock>>
       \/ stored = NoRecord /\ Return(c, "needs_reauth") /\ Release(c)
       \/ Return(c, "repo") /\ Release(c)
    /\ UNCHANGED <<stateVars, serverVars>>

(* The server honours the refresh token.  When it rotates, the old refresh *)
(* token is dead from here on; otherwise the caller keeps it.              *)
RefreshGranted(c) ==
    /\ pc[c] = "posting"
    /\ current[c].refresh \in liveRefresh
    /\ MintAccess
    /\ \E refresh \in {current[c].refresh, issued + 1} :
        /\ liveRefresh' = (liveRefresh \ {current[c].refresh}) \cup {refresh}
        /\ next' = [next EXCEPT ![c] =
             [current[c] EXCEPT !.access = issued + 1, !.refresh = refresh]]
    /\ GoTo(c, "minted")
    /\ UNCHANGED <<stateVars, grants, spoiled, current, lock>>

(* invalid_grant: raise the flag, leave the stored record alone.  A dead   *)
(* refresh token stays dead, so the server's answer and its arrival are    *)
(* one step.                                                               *)
RefreshRejected(c) ==
    /\ pc[c] = "posting"
    /\ current[c].refresh \notin liveRefresh
    /\ needsReauth' = TRUE
    /\ Return(c, "needs_reauth")
    /\ Release(c)
    /\ UNCHANGED <<stored, serverVars>>

(* Transport error, other status, undecodable body: the server did nothing.*)
MutRefreshFailedKeepsLock(c) ==
    /\ pc[c] = "posting"
    /\ Return(c, "upstream")
    /\ UNCHANGED <<stateVars, serverVars, lock>>

RefreshFailed(c) ==
    /\ pc[c] = "posting"
    /\ Return(c, "upstream")
    /\ Release(c)
    /\ UNCHANGED <<stateVars, serverVars>>

(* tokens.upsert(record), then the end of the locked block.                *)
StoreRefreshed(c) ==
    /\ pc[c] = "minted"
    /\ stored' = next[c]
    /\ GoTo(c, "retrying")
    /\ Release(c)
    /\ UNCHANGED <<needsReauth, serverVars, current, next>>

(* The server answered, and the answer is lost: the connection broke, the  *)
(* body did not decode (Upstream), or the upsert failed (Repo).            *)
RefreshLost(c) ==
    /\ pc[c] = "minted"
    /\ \E outcome \in {"upstream", "repo"} : Return(c, outcome)
    /\ Release(c)
    /\ Orphan(current[c].refresh)
    /\ UNCHANGED <<stateVars, issued, grants, liveAccess, liveRefresh>>

(* The one retry: anything but success, a second 401 too, is Upstream.     *)
RetryCall(c) ==
    /\ pc[c] = "retrying"
    /\ \/ next[c].access \in liveAccess /\ Return(c, "ok")
       \/ Return(c, "upstream")
    /\ UNCHANGED <<stateVars, serverVars, lock>>

(* The client of a handler disconnects and its future is dropped, guard    *)
(* included.  Server-side effects of a refresh in flight stay.             *)
Cancel(c) ==
    /\ c \in Handlers
    /\ pc[c] \notin Finished
    /\ Return(c, "idle")
    /\ Release(c)
    /\ IF pc[c] = "minted" THEN Orphan(current[c].refresh) ELSE UNCHANGED spoiled
    /\ UNCHANGED <<stateVars, issued, grants, liveAccess, liveRefresh>>

(* What a caller does once it is scheduled and once its awaits resolve.    *)
Resume(c) ==
    \/ FirstCall(c)
    \/ Reread(c)
    \/ RefreshGranted(c)
    \/ RefreshRejected(c)
    \/ RefreshFailed(c)
    \/ StoreRefreshed(c)
    \/ RefreshLost(c)
    \/ RetryCall(c)

CallerStep(c) == Get(c) \/ EnterCritical(c) \/ Resume(c) \/ Cancel(c)
=============================================================================
