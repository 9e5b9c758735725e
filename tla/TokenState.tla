------------------------------ MODULE TokenState ------------------------------
(***************************************************************************)
(* The state the OAuth token lifecycle works on, and the world outside it: *)
(* the one row of the `tokens` table, the in-memory AuthState flag, and    *)
(* Spotify's authorization server, which mints, rotates and kills tokens.  *)
(*                                                                         *)
(* A token is a number.  Every token response of the server takes the next *)
(* number of the counter `issued`: it names the new access token, and the  *)
(* new refresh token too when the response carries one.  Number 0 is the   *)
(* absent refresh token, which the callback stores as the empty string.    *)
(* `grant` numbers the owner's authorizations: it stands for the columns   *)
(* scope and owner_id, which a refresh carries over and a link replaces.   *)
(***************************************************************************)
EXTENDS Integers

CONSTANTS
    MaxIssued,  \* bound of the model: token responses the server ever sends
    MaxGrants   \* bound of the model: authorizations the owner ever gives

ASSUME BoundsAssumption == MaxIssued \in Nat /\ MaxGrants \in Nat

VARIABLES
    stored,       \* the row of the tokens table, NoRecord when there is none
    needsReauth,  \* AuthState::needs_reauth
    issued,       \* server: number of the last token response
    grants,       \* server: number of the last authorization
    liveAccess,   \* server: access tokens it honours
    liveRefresh,  \* server: refresh tokens it honours
    spoiled       \* history: refresh tokens that died, or never were, for a
                  \* reason no lock of the service guards against (see below)

stateVars == <<stored, needsReauth>>
serverVars == <<issued, grants, liveAccess, liveRefresh, spoiled>>

Record == [access: Nat, refresh: Nat, grant: Nat]
NoRecord == [access |-> 0, refresh |-> 0, grant |-> 0]

StateTypeOK ==
    /\ stored \in Record
    /\ needsReauth \in BOOLEAN
    /\ issued \in Nat
    /\ grants \in Nat
    /\ liveAccess \subseteq Nat
    /\ liveRefresh \subseteq Nat
    /\ spoiled \subseteq Nat

(* The process starts with the flag down, on an empty database or on one   *)
(* that an earlier process left linked.                                    *)
StateInit ==
    /\ needsReauth = FALSE
    /\ \E first \in {0, 1} :
        /\ stored = [access |-> first, refresh |-> first, grant |-> first]
        /\ issued = first
        /\ grants = first
        /\ liveAccess = IF first = 1 THEN {1} ELSE {}
        /\ liveRefresh = IF first = 1 THEN {1} ELSE {}
        /\ spoiled = {}

-----------------------------------------------------------------------------
(* The server answers a token request: the response carries access token   *)
(* issued + 1.                                                             *)
MintAccess ==
    /\ issued < MaxIssued
    /\ issued' = issued + 1
    /\ liveAccess' = liveAccess \cup {issued + 1}

(* A refresh token that is dead without the service having stored its      *)
(* successor: the reply that carried the successor was lost on the way.    *)
Orphan(refresh) == spoiled' = spoiled \cup ({refresh} \ liveRefresh)

(* An access token reaches the end of its hour.                            *)
AccessExpires(access) ==
    /\ access \in liveAccess
    /\ liveAccess' = liveAccess \ {access}
    /\ UNCHANGED <<stateVars, issued, grants, liveRefresh, spoiled>>

(* The owner, or Spotify, revokes a refresh token.                         *)
GrantRevoked(refresh) ==
    /\ refresh \in liveRefresh
    /\ liveRefresh' = liveRefresh \ {refresh}
    /\ spoiled' = spoiled \cup {refresh}
    /\ UNCHANGED <<stateVars, issued, grants, liveAccess>>

ServerStep ==
    \/ \E access \in liveAccess : AccessExpires(access)
    \/ \E refresh \in liveRefresh : GrantRevoked(refresh)
=============================================================================
