------------------------------ MODULE LoginFlow ------------------------------
(***************************************************************************)
(* /auth/spotify/login and /auth/spotify/callback (routes/auth.rs) over    *)
(* the CSRF states (app/state_store.rs).  TokenLifecycle takes a link      *)
(* attempt for one CSRF state with one callback; here the browsers may     *)
(* call back with any state, again and again, at the same time, late, and  *)
(* after a restart, and each request runs in a handler of its own.  The    *)
(* callers of SpotifyService::get run beside them, as in TokenLifecycle.   *)
(***************************************************************************)
EXTENDS StateStore, SpotifyService

CONSTANTS
    Callbacks,  \* handlers of /callback that may overlap
    NoState     \* a handler that works on no request

ASSUME FlowAssumption == NoState \notin States

VARIABLES
    handlerPc,      \* where each handler is
    handlerRecord,  \* the record it is about to store
    carries,        \* the state its request came with, once it is let through
    outcome         \* history: how the callback that used up a state ended

handlerVars == <<handlerPc, handlerRecord, carries, outcome>>
flowVars == <<stateVars, serverVars, callerVars, storeVars, handlerVars>>

(* The handlers run the code of OAuthCallback, from the exchange on.       *)
H == INSTANCE OAuthCallback
    WITH Links <- Callbacks, cbPc <- handlerPc, cbRecord <- handlerRecord

FlowTypeOK ==
    /\ StateTypeOK
    /\ CallerTypeOK
    /\ H!LinkTypeOK
    /\ carries \in [Callbacks -> States \cup {NoState}]
    /\ outcome \in [States -> H!LinkEnded]

FlowInit ==
    /\ StateInit
    /\ CallerInit
    /\ StoreInit
    /\ H!LinkInit
    /\ carries = [h \in Callbacks |-> NoState]
    /\ outcome = [s \in States |-> "idle"]

-----------------------------------------------------------------------------
(* GET /auth/spotify/login: StateStore::issue.                             *)
LoginRequest(s) ==
    /\ Issue(s)
    /\ UNCHANGED <<stateVars, serverVars, callerVars, handlerVars>>

(* GET /auth/spotify/callback?state=s: the handler goes on to the exchange *)
(* if StateStore::consume returned true, and is a 400 otherwise.           *)
LetThrough(s) == accepted'[s] > accepted[s]

CallbackRequest(h, s) ==
    /\ carries[h] = NoState
    /\ Consume(s)
    /\ \/ /\ LetThrough(s)
          /\ handlerPc' = [handlerPc EXCEPT ![h] = "exchanging"]
          /\ carries' = [carries EXCEPT ![h] = s]
          /\ UNCHANGED outcome
       \/ /\ ~LetThrough(s)
          /\ outcome' = [outcome EXCEPT ![s] = IF s \in DOMAIN entries THEN "failed" ELSE @]
          /\ UNCHANGED <<handlerPc, carries>>
    /\ UNCHANGED <<stateVars, serverVars, callerVars, handlerRecord>>

(* The rest of the handler, to its response or to where it is dropped.     *)
HandlerStep(h) ==
    /\ \/ H!CodeExchanged(h)
       \/ H!OwnerVerified(h)
       \/ H!LinkStored(h)
       \/ H!LatchCleared(h)
       \/ H!CallbackFailed(h)
       \/ H!CallbackDropped(h)
    /\ \/ /\ handlerPc'[h] \in H!LinkEnded
          /\ outcome' = [outcome EXCEPT ![carries[h]] = handlerPc'[h]]
          /\ carries' = [carries EXCEPT ![h] = NoState]
       \/ /\ handlerPc'[h] \notin H!LinkEnded
          /\ UNCHANGED <<outcome, carries>>
    /\ UNCHANGED <<callerVars, storeVars>>

(* Only the row of the tokens table outlives the process; the browsers     *)
(* still have their states.                                                *)
FlowRestart ==
    /\ StoreRestart
    /\ needsReauth' = FALSE
    /\ pc' = [c \in Callers |-> "idle"]
    /\ current' = [c \in Callers |-> NoRecord]
    /\ next' = [c \in Callers |-> NoRecord]
    /\ lock' = NoCaller
    /\ spoiled' = spoiled \cup
         ({current[c].refresh : c \in {d \in Callers : pc[d] = "minted"}} \ liveRefresh)
    /\ handlerPc' = [h \in Callbacks |-> "idle"]
    /\ handlerRecord' = [h \in Callbacks |-> NoRecord]
    /\ carries' = [h \in Callbacks |-> NoState]
    /\ outcome' = [s \in States |-> "idle"]
    /\ UNCHANGED <<stored, issued, grants, liveAccess, liveRefresh>>

FlowNext ==
    \/ \E s \in States : LoginRequest(s)
    \/ \E h \in Callbacks, s \in States : CallbackRequest(h, s)
    \/ \E h \in Callbacks : HandlerStep(h)
    \/ FlowRestart
    \/ (\E c \in Callers : CallerStep(c)) /\ UNCHANGED <<storeVars, handlerVars>>
    \/ StoreTick /\ UNCHANGED <<stateVars, serverVars, callerVars, handlerVars>>
    \/ ServerStep /\ UNCHANGED <<callerVars, storeVars, handlerVars>>

FlowSpec == FlowInit /\ [][FlowNext]_flowVars

-----------------------------------------------------------------------------
(* At most one code exchange is under way for one login, so that no two    *)
(* callbacks ever race to store tokens of the same login, however often    *)
(* the browser repeats its request.                                        *)
OneCallbackPerLogin == \A g, h \in Callbacks :
    carries[g] = carries[h] /\ carries[g] # NoState => g = h

(* A state that some handler works on is used up.                          *)
UsedUp == \A h \in Callbacks : carries[h] # NoState =>
    /\ carries[h] \notin DOMAIN entries
    /\ accepted[carries[h]] = 1

-----------------------------------------------------------------------------
(* What TokenLifecycle calls a link attempt is a CSRF state: issued, worked*)
(* on by a handler, or over.                                               *)
Worker(s) == CHOOSE h \in Callbacks : carries[h] = s
Worked(s) == \E h \in Callbacks : carries[h] = s

attemptPc == [s \in States |->
    IF Worked(s) THEN handlerPc[Worker(s)]
    ELSE IF s \in DOMAIN entries THEN "issued" ELSE outcome[s]]
attemptRecord == [s \in States |->
    IF Worked(s) THEN handlerRecord[Worker(s)] ELSE NoRecord]

Lifecycle == INSTANCE TokenLifecycle
    WITH Links <- States, cbPc <- attemptPc, cbRecord <- attemptRecord

(* Repeated, late and foreign callbacks have no effect: what the handlers  *)
(* do is what TokenLifecycle has a link attempt do, one callback for each  *)
(* issued state.                                                           *)
ImplementsLifecycle == Lifecycle!Spec
=============================================================================
