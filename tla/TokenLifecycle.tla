---------------------------- MODULE TokenLifecycle ----------------------------
(***************************************************************************)
(* The token lifecycle as a whole: the callers of SpotifyService::get, the *)
(* OAuth callback, Spotify's authorization server, and process restarts,   *)
(* all working on one stored record and one AuthState flag.                *)
(***************************************************************************)
EXTENDS SpotifyService, OAuthCallback

vars == <<stateVars, serverVars, callerVars, linkVars>>

Init == StateInit /\ CallerInit /\ LinkInit

(* The process dies and starts again: the row of the tokens table stays,   *)
(* the flag, the lock, the CSRF states and every task are new.             *)
Restart ==
    /\ pc' = [c \in Callers |-> "idle"]
    /\ current' = [c \in Callers |-> NoRecord]
    /\ next' = [c \in Callers |-> NoRecord]
    /\ lock' = NoCaller
    /\ cbPc' = [l \in Links |-> "idle"]
    /\ cbRecord' = [l \in Links |-> NoRecord]
    /\ needsReauth' = FALSE
    /\ spoiled' = spoiled \cup
         ({current[c].refresh : c \in {d \in Callers : pc[d] = "minted"}} \ liveRefresh)
    /\ UNCHANGED <<stored, issued, grants, liveAccess, liveRefresh>>

Next ==
    \/ ServerStep /\ UNCHANGED <<callerVars, linkVars>>
    \/ (\E c \in Callers : CallerStep(c)) /\ UNCHANGED linkVars
    \/ (\E l \in Links : LinkStep(l)) /\ UNCHANGED callerVars
    \/ Restart

Spec == Init /\ [][Next]_vars

(* The runtime polls every task that is ready, tokio's Mutex is fair, and  *)
(* every await of a caller is assumed to resolve, in some way: nothing in  *)
(* the code bounds how long Spotify takes to answer.                       *)
Fairness == \A c \in Callers :
    /\ WF_vars(Resume(c) /\ UNCHANGED linkVars)
    /\ SF_vars(EnterCritical(c) /\ UNCHANGED linkVars)

FairSpec == Spec /\ Fairness

-----------------------------------------------------------------------------
(* Every variable holds values of the kind the code gives it.              *)
TypeOK == StateTypeOK /\ CallerTypeOK /\ LinkTypeOK

(* Once a refresh token was found dead, no caller is in the refresh        *)
(* critical section, so none can POST that token again, until the callback *)
(* or a restart lowers the flag: auth_state is read and raised only under  *)
(* refresh_lock (spotify_service.rs, refresh_and_retry).                   *)
NoFlightWhileLatched ==
    needsReauth => \A c \in Callers : pc[c] \notin Critical

(* The flag is raised only for a refresh token that died outside the       *)
(* service's control, or that the callback never got.  It is never raised  *)
(* because another caller of this process had rotated the token first:     *)
(* that is what the re-read under refresh_lock is for.                     *)
LatchIsWarranted ==
    [][~needsReauth /\ needsReauth' =>
         \E c \in Callers : pc[c] = "posting" /\ current[c].refresh \in spoiled]_vars

(* Within one authorization the stored access token never goes back to an  *)
(* older one: two refreshes never overtake each other on the way to the    *)
(* upsert.                                                                 *)
WithinGrantForward ==
    [][stored'.grant = stored.grant => stored'.access >= stored.access]_vars

(* Every call of get ends, in Ok or in an error, provided Spotify's        *)
(* answers arrive: no caller waits for ever on refresh_lock.               *)
GetTerminates ==
    \A c \in Callers : (pc[c] \notin Finished) ~> (pc[c] \in Finished)

(* domain/auth_state.rs says the flag is "whether the stored refresh token *)
(* has been rejected", and routes/auth.rs that a successful re-link clears *)
(* it: when the flag goes up, and no callback is about to lower it, the    *)
(* server does not honour the refresh token that is stored.                *)
LatchBlamesStored ==
    [][~needsReauth /\ needsReauth' =>
         \/ stored.refresh \notin liveRefresh
         \/ \E l \in Links : cbPc[l] = "clearing"]_vars

(* Where that claim holds: the only other thing the flag can blame is the  *)
(* refresh token of an authorization that a callback has replaced while    *)
(* its refresh was in flight.                                              *)
BlamesStoredUnlessRelinked ==
    [][~needsReauth /\ needsReauth' =>
         \/ stored.refresh \notin liveRefresh
         \/ \E c \in Callers : pc[c] = "posting" /\ current[c].grant # stored.grant]_vars

-----------------------------------------------------------------------------
(* The lifecycle implements RefreshCell: the refresh in flight is the      *)
(* record the holder of refresh_lock took to the server.                   *)
InFlight == {c \in Callers : pc[c] \in {"posting", "minted"}}
flightRecord == IF lock \in InFlight THEN current[lock] ELSE NoRecord

Cell == INSTANCE RefreshCell
    WITH cell <- stored, latched <- needsReauth, flight <- flightRecord

(* One refresh at a time, from the record that is stored, and what each    *)
(* way out of it may change.                                               *)
ImplementsRefreshCell == Cell!CellSpec

-----------------------------------------------------------------------------
(* The inductive invariant.                                                *)

(* refresh_lock is held exactly where the code holds its guard.            *)
LockInv == \A c \in Callers : (lock = c) <=> (pc[c] \in Critical)

(* Whoever has numbers took them from a response the server sent.          *)
Issued(r) ==
    /\ r.access \in 0..issued /\ r.refresh \in 0..issued /\ r.grant \in 0..grants
    /\ r.access = 0 => r = NoRecord

IssuedInv ==
    /\ Issued(stored)
    /\ \A c \in Callers : Issued(current[c]) /\ Issued(next[c])
    /\ \A l \in Links : Issued(cbRecord[l])
    /\ liveRefresh \subseteq 1..issued

(* Where a caller works with the record it read, it has one.               *)
HasRecordInv == \A c \in Callers :
    pc[c] \in Critical \cup {"calling", "queued"} => current[c] # NoRecord

(* An access token identifies the record it came with: a caller that finds *)
(* its access token still stored finds its own record.                     *)
SameAccessInv == \A c \in Callers :
    current[c].access = stored.access => current[c] = stored

(* A refresh in flight is that of the stored record, unless the callback   *)
(* has stored another authorization over it.                               *)
FlightInv == \A c \in Callers :
    pc[c] \in {"posting", "minted"} /\ current[c].grant = stored.grant
        => current[c] = stored

(* An answered refresh brings an access token that nobody has seen, for    *)
(* the same authorization.                                                 *)
MintedInv == \A c \in Callers : pc[c] = "minted" =>
    /\ next[c].grant = current[c].grant
    /\ next[c].access > current[c].access
    /\ next[c].access # stored.access
    /\ \A d \in Callers : next[c].access # current[d].access

(* What a callback holds is new in every part.                             *)
Shares(r, s) ==
    \/ r.access = s.access
    \/ r.grant = s.grant
    \/ r.refresh = s.refresh /\ r.refresh # 0

CallbackInv == \A l \in Links : cbPc[l] \in LinkHolds =>
    /\ ~Shares(cbRecord[l], NoRecord)
    /\ ~Shares(cbRecord[l], stored)
    /\ \A c \in Callers : ~Shares(cbRecord[l], current[c])
    /\ \A c \in Callers : pc[c] = "minted" => ~Shares(cbRecord[l], next[c])
    /\ \A m \in Links \ {l} : cbPc[m] \in LinkHolds => ~Shares(cbRecord[l], cbRecord[m])

(* A refresh token that is stored, about to be stored or on its way to the *)
(* server is honoured or spoiled: never one that this service has already  *)
(* replaced by its successor.                                              *)
Usable(refresh) == refresh \in liveRefresh \cup spoiled

UsableInv ==
    /\ \/ stored = NoRecord
       \/ Usable(stored.refresh)
       \/ \E c \in Callers : pc[c] = "minted" /\ current[c].refresh = stored.refresh
    /\ \A c \in Callers : pc[c] = "posting" => Usable(current[c].refresh)
    /\ \A c \in Callers : pc[c] = "minted" => Usable(next[c].refresh)
    /\ \A l \in Links : cbPc[l] \in LinkHolds => Usable(cbRecord[l].refresh)

(* The invariant that every step of the lifecycle preserves, and that the  *)
(* properties above follow from.                                           *)
IInv ==
    /\ TypeOK
    /\ NoFlightWhileLatched
    /\ LockInv
    /\ IssuedInv
    /\ HasRecordInv
    /\ SameAccessInv
    /\ FlightInv
    /\ MintedInv
    /\ CallbackInv
    /\ UsableInv
=============================================================================
