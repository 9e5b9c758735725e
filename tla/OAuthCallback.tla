---------------------------- MODULE OAuthCallback ----------------------------
(***************************************************************************)
(* routes/auth.rs: the owner's (re)link.  A link attempt is one CSRF state *)
(* of the StateStore: /login issues it, /callback consumes it and goes     *)
(* through the code exchange, the owner check, the upsert and the clearing *)
(* of AuthState.  The callback takes no lock: it runs against the refresh  *)
(* critical section of SpotifyService.                                     *)
(***************************************************************************)
EXTENDS TokenState

CONSTANT Links  \* link attempts that may overlap

VARIABLES
    cbPc,      \* where each link attempt is
    cbRecord   \* the record its callback is about to store

linkVars == <<cbPc, cbRecord>>

LinkEnded == {"idle", "linked", "failed"}
(* The callback holds tokens that are not stored yet.                      *)
LinkHolds == {"verifying", "storing"}
LinkState == LinkEnded \cup LinkHolds \cup {"issued", "exchanging", "clearing"}

LinkTypeOK ==
    /\ cbPc \in [Links -> LinkState]
    /\ cbRecord \in [Links -> Record]

LinkInit ==
    /\ cbPc = [l \in Links |-> "idle"]
    /\ cbRecord = [l \in Links |-> NoRecord]

-----------------------------------------------------------------------------
LinkTo(l, label) == cbPc' = [cbPc EXCEPT ![l] = label]

(* The callback responds: its locals go out of scope.                      *)
Respond(l, label) ==
    /\ LinkTo(l, label)
    /\ cbRecord' = [cbRecord EXCEPT ![l] = NoRecord]

(* GET /auth/spotify/login: StateStore::issue.                             *)
Login(l) ==
    /\ cbPc[l] \in LinkEnded
    /\ Respond(l, "issued")
    /\ UNCHANGED <<stateVars, serverVars>>

(* GET /auth/spotify/callback: StateStore::consume removes the state; a    *)
(* live one lets the callback go on, an expired one is a 400.              *)
BeginCallback(l) ==
    /\ cbPc[l] = "issued"
    /\ \E label \in {"exchanging", "failed"} : LinkTo(l, label)
    /\ UNCHANGED <<stateVars, serverVars, cbRecord>>

(* oauth.exchange_code: a new authorization.  A response without a refresh *)
(* token leaves unwrap_or_default(), the empty string, to be stored.       *)
CodeExchanged(l) ==
    /\ cbPc[l] = "exchanging"
    /\ MintAccess
    /\ grants < MaxGrants
    /\ grants' = grants + 1
    /\ \E refresh \in {0, issued + 1} :
        /\ liveRefresh' = liveRefresh \cup ({refresh} \ {0})
        /\ spoiled' = spoiled \cup ({refresh} \cap {0})
        /\ cbRecord' = [cbRecord EXCEPT ![l] =
             [access |-> issued + 1, refresh |-> refresh, grant |-> grants + 1]]
    /\ LinkTo(l, "verifying")
    /\ UNCHANGED stateVars

(* GET /v1/me with the new token: the owner goes on, anyone else is 403.   *)
OwnerVerified(l) ==
    /\ cbPc[l] = "verifying"
    /\ cbRecord[l].access \in liveAccess
    /\ \/ LinkTo(l, "storing") /\ UNCHANGED cbRecord
       \/ Respond(l, "failed")
    /\ UNCHANGED <<stateVars, serverVars>>

(* tokens.upsert(record).                                                  *)
MutLinkStoredPartial(l) ==
    /\ cbPc[l] = "storing"
    /\ stored' = [cbRecord[l] EXCEPT !.grant = stored.grant]
    /\ Respond(l, "clearing")
    /\ UNCHANGED <<needsReauth, serverVars>>

LinkStored(l) ==
    /\ cbPc[l] = "storing"
    /\ stored' = cbRecord[l]
    /\ Respond(l, "clearing")
    /\ UNCHANGED <<needsReauth, serverVars>>

(* auth_state.clear(): the re-link is done.                                *)
LatchCleared(l) ==
    /\ cbPc[l] = "clearing"
    /\ needsReauth' = FALSE
    /\ Respond(l, "linked")
    /\ UNCHANGED <<stored, serverVars>>

(* An await of the callback fails: exchange, /v1/me or upsert.             *)
CallbackFailed(l) ==
    /\ cbPc[l] \in LinkHolds \cup {"exchanging"}
    /\ Respond(l, "failed")
    /\ UNCHANGED <<stateVars, serverVars>>

(* The browser goes away and the callback's future is dropped, between the *)
(* upsert and the clearing too.                                            *)
CallbackDropped(l) ==
    /\ cbPc[l] \in LinkHolds \cup {"exchanging", "clearing"}
    /\ Respond(l, "idle")
    /\ UNCHANGED <<stateVars, serverVars>>

LinkStep(l) ==
    \/ Login(l)
    \/ BeginCallback(l)
    \/ CodeExchanged(l)
    \/ OwnerVerified(l)
    \/ LinkStored(l)
    \/ LatchCleared(l)
    \/ CallbackFailed(l)
    \/ CallbackDropped(l)
=============================================================================
