------------------------- MODULE TokenLifecycleProofs -------------------------
(***************************************************************************)
(* Proofs about TokenLifecycle, for any number of callers and of link      *)
(* attempts.  First the type invariant, then the inductive invariant IInv, *)
(* then what follows from it.                                              *)
(***************************************************************************)
EXTENDS TokenLifecycle, TLAPS

LEMMA NoRecordIsRecord == NoRecord \in Record
  BY DEF NoRecord, Record

LEMMA RecordFields ==
    ASSUME NEW r \in Record
    PROVE  r.access \in Nat /\ r.refresh \in Nat /\ r.grant \in Nat
  BY DEF Record

-----------------------------------------------------------------------------
(* The type invariant.                                                     *)

LEMMA TypeInit == Init => TypeOK
<1> SUFFICES ASSUME Init PROVE TypeOK
  OBVIOUS
<1>1. StateTypeOK
  <2>1. PICK first \in {0, 1} :
          /\ stored = [access |-> first, refresh |-> first, grant |-> first]
          /\ issued = first
          /\ grants = first
          /\ liveAccess = IF first = 1 THEN {1} ELSE {}
          /\ liveRefresh = IF first = 1 THEN {1} ELSE {}
          /\ spoiled = {}
    BY DEF Init, StateInit
  <2>2. needsReauth = FALSE
    BY DEF Init, StateInit
  <2>3. first \in Nat /\ liveAccess \subseteq {1} /\ liveRefresh \subseteq {1}
    BY <2>1
  <2>4. stored \in Record
    BY <2>1, <2>3 DEF Record
  <2> QED
    BY <2>1, <2>2, <2>3, <2>4 DEF StateTypeOK
<1>2. CallerTypeOK
  BY NoRecordIsRecord DEF Init, CallerInit, CallerTypeOK, CallerState, Finished
<1>3. LinkTypeOK
  BY NoRecordIsRecord DEF Init, LinkInit, LinkTypeOK, LinkState, LinkEnded
<1> QED
  BY <1>1, <1>2, <1>3 DEF TypeOK

(* A caller's return and the release of the lock keep the types.           *)
LEMMA ReturnType ==
    ASSUME CallerTypeOK, NEW c \in Callers, NEW outcome \in Finished,
           Return(c, outcome), Release(c) \/ UNCHANGED lock
    PROVE  CallerTypeOK'
  BY NoRecordIsRecord DEF CallerTypeOK, Return, GoTo, Release, CallerState

LEMMA RespondType ==
    ASSUME LinkTypeOK, NEW l \in Links, NEW label \in LinkState, Respond(l, label)
    PROVE  LinkTypeOK'
  BY NoRecordIsRecord DEF LinkTypeOK, Respond, LinkTo

LEMMA ServerType ==
    ASSUME TypeOK, ServerStep, UNCHANGED <<callerVars, linkVars>>
    PROVE  TypeOK'
  BY DEF TypeOK, StateTypeOK, CallerTypeOK, LinkTypeOK, ServerStep, AccessExpires,
         GrantRevoked, stateVars, callerVars, linkVars

LEMMA CallerType ==
    ASSUME TypeOK, NEW c \in Callers, CallerStep(c), UNCHANGED linkVars
    PROVE  TypeOK'
<1> USE DEF TypeOK, stateVars, serverVars
<1>0. LinkTypeOK'
  BY DEF LinkTypeOK, linkVars
<1>r. current[c] \in Record /\ next[c] \in Record /\ current[c].refresh \in Nat
  BY RecordFields DEF CallerTypeOK
<1>f. Outcomes \subseteq Finished /\ "idle" \in Finished
  BY DEF Outcomes, Finished
<1>1. CASE Get(c)
  <2>1. StateTypeOK'
    BY <1>1 DEF Get, StateTypeOK
  <2>2. CallerTypeOK'
    BY <1>1, <1>f, ReturnType DEF Get, GoTo, StateTypeOK, CallerTypeOK, CallerState, Outcomes
  <2> QED
    BY <1>0, <2>1, <2>2
<1>2. CASE FirstCall(c)
  <2>1. StateTypeOK'
    BY <1>2 DEF FirstCall, StateTypeOK
  <2>2. CallerTypeOK'
    BY <1>2, <1>f, ReturnType DEF FirstCall, GoTo, CallerTypeOK, CallerState, Outcomes
  <2> QED
    BY <1>0, <2>1, <2>2
<1>3. CASE EnterCritical(c)
  <2>1. StateTypeOK'
    BY <1>3 DEF EnterCritical, StateTypeOK
  <2>2. CallerTypeOK'
    BY <1>3, <1>f, ReturnType
       DEF EnterCritical, GoTo, CallerTypeOK, CallerState, Critical, Outcomes
  <2> QED
    BY <1>0, <2>1, <2>2
<1>4. CASE Reread(c)
  <2>1. StateTypeOK'
    BY <1>4 DEF Reread, StateTypeOK
  <2>2. CallerTypeOK'
    BY <1>4, <1>f, ReturnType
       DEF Reread, GoTo, Release, StateTypeOK, CallerTypeOK, CallerState, Critical, Outcomes
  <2> QED
    BY <1>0, <2>1, <2>2
<1>5. CASE RefreshGranted(c)
  <2>1. PICK refresh \in {current[c].refresh, issued + 1} :
          /\ liveRefresh' = (liveRefresh \ {current[c].refresh}) \cup {refresh}
          /\ next' = [next EXCEPT ![c] =
               [current[c] EXCEPT !.access = issued + 1, !.refresh = refresh]]
    BY <1>5 DEF RefreshGranted
  <2>2. issued + 1 \in Nat /\ refresh \in Nat
    BY <1>r DEF StateTypeOK
  <2>3. StateTypeOK'
    BY <1>5, <2>1, <2>2 DEF RefreshGranted, MintAccess, StateTypeOK
  <2>4. [current[c] EXCEPT !.access = issued + 1, !.refresh = refresh] \in Record
    BY <1>r, <2>2 DEF Record
  <2>5. CallerTypeOK'
    BY <1>5, <2>1, <2>4 DEF RefreshGranted, GoTo, CallerTypeOK, CallerState, Critical
  <2> QED
    BY <1>0, <2>3, <2>5
<1>6. CASE RefreshRejected(c)
  <2>1. StateTypeOK'
    BY <1>6 DEF RefreshRejected, StateTypeOK
  <2>2. CallerTypeOK'
    BY <1>6, <1>f, ReturnType DEF RefreshRejected, Outcomes
  <2> QED
    BY <1>0, <2>1, <2>2
<1>7. CASE RefreshFailed(c)
  <2>1. StateTypeOK'
    BY <1>7 DEF RefreshFailed, StateTypeOK
  <2>2. CallerTypeOK'
    BY <1>7, <1>f, ReturnType DEF RefreshFailed, Outcomes
  <2> QED
    BY <1>0, <2>1, <2>2
<1>8. CASE StoreRefreshed(c)
  <2>1. StateTypeOK'
    BY <1>8, <1>r DEF StoreRefreshed, StateTypeOK
  <2>2. CallerTypeOK'
    BY <1>8 DEF StoreRefreshed, GoTo, Release, CallerTypeOK, CallerState
  <2> QED
    BY <1>0, <2>1, <2>2
<1>9. CASE RefreshLost(c)
  <2>1. StateTypeOK'
    BY <1>9, <1>r DEF RefreshLost, Orphan, StateTypeOK
  <2>2. CallerTypeOK'
    BY <1>9, <1>f, ReturnType DEF RefreshLost, Outcomes
  <2> QED
    BY <1>0, <2>1, <2>2
<1>10. CASE RetryCall(c)
  <2>1. StateTypeOK'
    BY <1>10 DEF RetryCall, StateTypeOK
  <2>2. CallerTypeOK'
    BY <1>10, <1>f, ReturnType DEF RetryCall, Outcomes
  <2> QED
    BY <1>0, <2>1, <2>2
<1>11. CASE Cancel(c)
  <2>1. StateTypeOK'
    BY <1>11, <1>r DEF Cancel, Orphan, StateTypeOK
  <2>2. CallerTypeOK'
    BY <1>11, <1>f, ReturnType DEF Cancel
  <2> QED
    BY <1>0, <2>1, <2>2
<1> QED
  BY <1>1, <1>2, <1>3, <1>4, <1>5, <1>6, <1>7, <1>8, <1>9, <1>10, <1>11
     DEF CallerStep, Resume

LEMMA LinkType ==
    ASSUME TypeOK, NEW l \in Links, LinkStep(l), UNCHANGED callerVars
    PROVE  TypeOK'
<1> USE DEF TypeOK, stateVars, serverVars
<1>0. CallerTypeOK'
  BY DEF CallerTypeOK, callerVars
<1>s. LinkEnded \cup LinkHolds \cup {"issued", "exchanging", "clearing"} \subseteq LinkState
  BY DEF LinkState
<1>1. CASE Login(l) \/ CallbackFailed(l) \/ CallbackDropped(l)
  <2>1. LinkTypeOK'
    BY <1>1, <1>s, RespondType
       DEF Login, CallbackFailed, CallbackDropped, LinkEnded
  <2> QED
    BY <1>0, <1>1, <2>1 DEF Login, CallbackFailed, CallbackDropped, StateTypeOK
<1>2. CASE BeginCallback(l) \/ OwnerVerified(l)
  <2>1. LinkTypeOK'
    BY <1>2, <1>s, RespondType
       DEF BeginCallback, OwnerVerified, LinkTo, LinkTypeOK, LinkEnded, LinkHolds
  <2> QED
    BY <1>0, <1>2, <2>1 DEF BeginCallback, OwnerVerified, StateTypeOK
<1>3. CASE CodeExchanged(l)
  <2>1. PICK refresh \in {0, issued + 1} :
          /\ liveRefresh' = liveRefresh \cup ({refresh} \ {0})
          /\ spoiled' = spoiled \cup ({refresh} \cap {0})
          /\ cbRecord' = [cbRecord EXCEPT ![l] =
               [access |-> issued + 1, refresh |-> refresh, grant |-> grants + 1]]
    BY <1>3 DEF CodeExchanged
  <2>2. issued + 1 \in Nat /\ refresh \in Nat /\ grants + 1 \in Nat
    BY DEF StateTypeOK
  <2>3. StateTypeOK'
    BY <1>3, <2>1, <2>2 DEF CodeExchanged, MintAccess, StateTypeOK
  <2>4. LinkTypeOK'
    BY <1>3, <1>s, <2>1, <2>2 DEF CodeExchanged, LinkTo, LinkTypeOK, LinkHolds, Record
  <2> QED
    BY <1>0, <2>3, <2>4
<1>4. CASE LinkStored(l)
  BY <1>0, <1>4, <1>s, RespondType DEF LinkStored, StateTypeOK, LinkTypeOK
<1>5. CASE LatchCleared(l)
  BY <1>0, <1>5, <1>s, RespondType DEF LatchCleared, StateTypeOK, LinkEnded
<1> QED
  BY <1>1, <1>2, <1>3, <1>4, <1>5 DEF LinkStep

LEMMA RestartType == TypeOK /\ Restart => TypeOK'
<1> SUFFICES ASSUME TypeOK, Restart PROVE TypeOK'
  OBVIOUS
<1>1. StateTypeOK'
  <2>1. \A c \in Callers : current[c].refresh \in Nat
    BY RecordFields DEF TypeOK, CallerTypeOK
  <2> QED
    BY <2>1 DEF TypeOK, StateTypeOK, Restart
<1>2. CallerTypeOK' /\ LinkTypeOK'
  BY NoRecordIsRecord
     DEF Restart, CallerTypeOK, LinkTypeOK, CallerState, Finished, LinkState, LinkEnded
<1> QED
  BY <1>1, <1>2 DEF TypeOK

LEMMA TypeStep == TypeOK /\ [Next]_vars => TypeOK'
<1> SUFFICES ASSUME TypeOK, [Next]_vars PROVE TypeOK'
  OBVIOUS
<1>1. CASE UNCHANGED vars
  BY <1>1 DEF TypeOK, StateTypeOK, CallerTypeOK, LinkTypeOK, vars, stateVars, serverVars,
              callerVars, linkVars
<1> QED
  BY <1>1, ServerType, CallerType, LinkType, RestartType DEF Next

(* Every variable keeps the kind of value the code gives it, whatever the  *)
(* callers, the callbacks and the server do.                               *)
THEOREM TypeCorrect == Spec => []TypeOK
  BY TypeInit, TypeStep, PTL DEF Spec

-----------------------------------------------------------------------------
(* The inductive invariant.  Most steps only take one caller, or one link  *)
(* attempt, to another place: Leave and LinkQuiet deal with those once.    *)

LEMMA InvInit == Init => IInv
<1> SUFFICES ASSUME Init PROVE IInv
  OBVIOUS
<1>1. TypeOK
  BY TypeInit
<1>2. /\ \A c \in Callers : pc[c] = "idle" /\ current[c] = NoRecord /\ next[c] = NoRecord
      /\ \A l \in Links : cbPc[l] = "idle" /\ cbRecord[l] = NoRecord
      /\ lock = NoCaller /\ ~needsReauth
  BY DEF Init, StateInit, CallerInit, LinkInit
<1>3. PICK first \in {0, 1} :
        /\ stored = [access |-> first, refresh |-> first, grant |-> first]
        /\ issued = first
        /\ grants = first
        /\ liveRefresh = IF first = 1 THEN {1} ELSE {}
  BY DEF Init, StateInit
<1>4. NoFlightWhileLatched /\ LockInv /\ HasRecordInv /\ FlightInv /\ MintedInv /\ CallbackInv
  BY <1>2, CallersAssumption
     DEF NoFlightWhileLatched, LockInv, HasRecordInv, FlightInv, MintedInv, CallbackInv,
         Critical, LinkHolds
<1>5. IssuedInv
  BY <1>2, <1>3 DEF IssuedInv, Issued, NoRecord
<1>6. SameAccessInv
  BY <1>2, <1>3 DEF SameAccessInv, NoRecord
<1>7. UsableInv
  BY <1>2, <1>3 DEF UsableInv, Usable, NoRecord, LinkHolds
<1> QED
  BY <1>1, <1>4, <1>5, <1>6, <1>7 DEF IInv

(* A caller returns: it drops its locals and the lock, if it held it.      *)
LEMMA Leave ==
    ASSUME IInv, TypeOK', NEW c \in Callers, NEW outcome \in Finished,
           Return(c, outcome), Release(c),
           UNCHANGED <<stored, issued, grants, liveRefresh, cbPc, cbRecord>>,
           spoiled \subseteq spoiled',
           pc[c] = "minted" => current[c].refresh \in liveRefresh' \cup spoiled',
           needsReauth' => needsReauth \/ lock = c
    PROVE  IInv'
<1>0. /\ pc \in [Callers -> CallerState]
      /\ current \in [Callers -> Record]
      /\ next \in [Callers -> Record]
      /\ stored \in Record /\ issued \in Nat /\ grants \in Nat
  BY DEF IInv, TypeOK, StateTypeOK, CallerTypeOK
<1>1. /\ pc' = [pc EXCEPT ![c] = outcome]
      /\ current' = [current EXCEPT ![c] = NoRecord]
      /\ next' = [next EXCEPT ![c] = NoRecord]
  BY DEF Return, GoTo
<1>2. outcome \notin Critical \cup {"calling", "queued"}
  BY DEF Finished, Outcomes, Critical
<1>3. NoFlightWhileLatched' /\ LockInv'
  BY <1>0, <1>1, <1>2, CallersAssumption DEF IInv, NoFlightWhileLatched, LockInv, Release
<1>4. IssuedInv'
  BY <1>0, <1>1 DEF IInv, IssuedInv, Issued, NoRecord
<1>5. HasRecordInv'
  BY <1>0, <1>1, <1>2 DEF IInv, HasRecordInv
<1>6. SameAccessInv'
  BY <1>0, <1>1 DEF IInv, IssuedInv, Issued, SameAccessInv, NoRecord
<1>7. FlightInv'
  BY <1>0, <1>1, <1>2 DEF IInv, FlightInv, Critical
<1>8. MintedInv'
  <2> SUFFICES ASSUME NEW d \in Callers, pc'[d] = "minted"
               PROVE  /\ next'[d].grant = current'[d].grant
                      /\ next'[d].access > current'[d].access
                      /\ next'[d].access # stored'.access
                      /\ \A e \in Callers : next'[d].access # current'[e].access
    BY DEF MintedInv
  <2>1. d # c /\ pc[d] = "minted"
    BY <1>0, <1>1, <1>2 DEF Critical
  <2>2. next'[d] = next[d] /\ current'[d] = current[d]
    BY <1>0, <1>1, <2>1
  <2>3. next[d].access # NoRecord.access
    BY <1>0, <2>1, RecordFields DEF IInv, MintedInv, NoRecord
  <2> QED
    BY <1>0, <1>1, <2>1, <2>2, <2>3 DEF IInv, MintedInv
<1>9. CallbackInv'
  BY <1>0, <1>1, <1>2 DEF IInv, CallbackInv, Critical
<1>10. UsableInv'
  <2>1. ASSUME NEW r, Usable(r) PROVE r \in liveRefresh' \cup spoiled'
    BY <2>1 DEF Usable
  <2>2. \A d \in Callers : d # c => pc'[d] = pc[d] /\ current'[d] = current[d] /\ next'[d] = next[d]
    BY <1>0, <1>1
  <2>3. pc'[c] \notin {"posting", "minted"}
    BY <1>0, <1>1, <1>2 DEF Critical
  <2>4. \/ stored' = NoRecord
        \/ stored'.refresh \in liveRefresh' \cup spoiled'
        \/ \E d \in Callers : pc'[d] = "minted" /\ current'[d].refresh = stored'.refresh
    <3>1. CASE \E d \in Callers : pc[d] = "minted" /\ current[d].refresh = stored.refresh
      <4>1. PICK d \in Callers : pc[d] = "minted" /\ current[d].refresh = stored.refresh
        BY <3>1
      <4>2. CASE d = c
        BY <4>1, <4>2
      <4>3. CASE d # c
        BY <4>1, <4>3, <2>2
      <4> QED
        BY <4>2, <4>3
    <3> QED
      BY <2>1, <3>1 DEF IInv, UsableInv
  <2>5. \A d \in Callers : pc'[d] = "posting" => current'[d].refresh \in liveRefresh' \cup spoiled'
    BY <2>1, <2>2, <2>3 DEF IInv, UsableInv
  <2>6. \A d \in Callers : pc'[d] = "minted" => next'[d].refresh \in liveRefresh' \cup spoiled'
    BY <2>1, <2>2, <2>3 DEF IInv, UsableInv
  <2>7. \A l \in Links : cbPc'[l] \in LinkHolds => cbRecord'[l].refresh \in liveRefresh' \cup spoiled'
    BY <2>1 DEF IInv, UsableInv
  <2> QED
    BY <2>4, <2>5, <2>6, <2>7 DEF UsableInv, Usable
<1> QED
  BY <1>3, <1>4, <1>5, <1>6, <1>7, <1>8, <1>9, <1>10 DEF IInv

(* A link attempt moves without storing anything: it ends, or goes on with *)
(* what it holds.                                                          *)
LEMMA LinkQuiet ==
    ASSUME IInv, TypeOK', NEW l \in Links, NEW label \in LinkState, LinkTo(l, label),
           \/ label \notin LinkHolds /\ cbRecord' = [cbRecord EXCEPT ![l] = NoRecord]
           \/ label \notin LinkHolds /\ UNCHANGED cbRecord
           \/ cbPc[l] \in LinkHolds /\ UNCHANGED cbRecord,
           UNCHANGED <<stored, issued, grants, liveRefresh, spoiled, callerVars>>,
           needsReauth' => needsReauth
    PROVE  IInv'
<1>0. cbPc \in [Links -> LinkState] /\ cbRecord \in [Links -> Record]
  BY DEF IInv, TypeOK, LinkTypeOK
<1>1. cbPc' = [cbPc EXCEPT ![l] = label]
  BY DEF LinkTo
<1>2. \A m \in Links : cbPc'[m] \in LinkHolds =>
         cbPc[m] \in LinkHolds /\ cbRecord'[m] = cbRecord[m]
  BY <1>0, <1>1
<1>3. /\ NoFlightWhileLatched' /\ LockInv' /\ HasRecordInv'
      /\ SameAccessInv' /\ FlightInv' /\ MintedInv'
  BY DEF IInv, NoFlightWhileLatched, LockInv, HasRecordInv, SameAccessInv, FlightInv,
         MintedInv, callerVars
<1>4. IssuedInv'
  <2>1. \A m \in Links : cbRecord'[m] = cbRecord[m] \/ cbRecord'[m] = NoRecord
    BY <1>0, <1>1
  <2>2. issued \in Nat /\ grants \in Nat
    BY DEF IInv, TypeOK, StateTypeOK
  <2> QED
    BY <2>1, <2>2 DEF IInv, IssuedInv, Issued, NoRecord, callerVars
<1>5. CallbackInv'
  BY <1>2 DEF IInv, CallbackInv, callerVars
<1>6. UsableInv'
  BY <1>2 DEF IInv, UsableInv, Usable, callerVars
<1> QED
  BY <1>3, <1>4, <1>5, <1>6 DEF IInv

(* The server acts on its own: a refresh token that it revokes is spoiled. *)
LEMMA ServerInv ==
    ASSUME IInv, ServerStep, UNCHANGED <<callerVars, linkVars>>
    PROVE  IInv'
<1>1. TypeOK'
  BY ServerType DEF IInv
<1>2. /\ UNCHANGED <<stored, needsReauth, issued, grants, pc, current, next, lock, cbPc, cbRecord>>
      /\ liveRefresh' \subseteq liveRefresh
      /\ liveRefresh \cup spoiled \subseteq liveRefresh' \cup spoiled'
  BY DEF ServerStep, AccessExpires, GrantRevoked, stateVars, callerVars, linkVars
<1>3. /\ NoFlightWhileLatched' /\ LockInv' /\ HasRecordInv' /\ SameAccessInv'
      /\ FlightInv' /\ MintedInv' /\ CallbackInv'
  BY <1>2 DEF IInv, NoFlightWhileLatched, LockInv, HasRecordInv, SameAccessInv, FlightInv,
              MintedInv, CallbackInv
<1>4. IssuedInv'
  BY <1>2 DEF IInv, IssuedInv, Issued
<1>5. UsableInv'
  BY <1>2 DEF IInv, UsableInv, Usable
<1> QED
  BY <1>1, <1>3, <1>4, <1>5 DEF IInv

(* A restart forgets the flag and every task, and keeps the row.           *)
LEMMA RestartInv == ASSUME IInv, Restart PROVE IInv'
<1>1. TypeOK'
  BY RestartType DEF IInv
<1>2. /\ \A c \in Callers : pc'[c] = "idle" /\ current'[c] = NoRecord /\ next'[c] = NoRecord
      /\ \A l \in Links : cbPc'[l] = "idle" /\ cbRecord'[l] = NoRecord
      /\ lock' = NoCaller /\ ~needsReauth'
      /\ UNCHANGED <<stored, issued, grants, liveRefresh>>
  BY DEF Restart
<1>3. /\ NoFlightWhileLatched' /\ LockInv' /\ HasRecordInv' /\ FlightInv'
      /\ MintedInv' /\ CallbackInv'
  BY <1>2, CallersAssumption
     DEF NoFlightWhileLatched, LockInv, HasRecordInv, FlightInv, MintedInv, CallbackInv,
         Critical, LinkHolds
<1>4. IssuedInv' /\ SameAccessInv'
  <2>1. issued \in Nat /\ grants \in Nat /\ stored \in Record
    BY DEF IInv, TypeOK, StateTypeOK
  <2> QED
    BY <1>2, <2>1 DEF IInv, IssuedInv, Issued, SameAccessInv, NoRecord
<1>5. UsableInv'
  <2>1. \/ stored = NoRecord
        \/ stored.refresh \in liveRefresh' \cup spoiled'
    BY <1>2 DEF IInv, UsableInv, Usable, Restart
  <2> QED
    BY <1>2, <2>1 DEF UsableInv, Usable, LinkHolds
<1> QED
  BY <1>1, <1>3, <1>4, <1>5 DEF IInv

(* A caller on its way to the server, or to the retry, moves on with the   *)
(* record it read; it reaches the server only with the stored one.         *)
LEMMA Walk ==
    ASSUME IInv, TypeOK', LockInv', NoFlightWhileLatched',
           NEW c \in Callers, NEW label \in {"queued", "rereading", "posting", "retrying"},
           pc[c] \in {"calling", "queued", "rereading"}, GoTo(c, label),
           UNCHANGED <<stateVars, serverVars, current, linkVars>>,
           next' = [next EXCEPT ![c] = stored] \/ UNCHANGED next,
           label = "posting" => current[c] = stored /\ Usable(stored.refresh)
    PROVE  IInv'
<1>0. pc \in [Callers -> CallerState] /\ next \in [Callers -> Record]
  BY DEF IInv, TypeOK, CallerTypeOK
<1>1. pc' = [pc EXCEPT ![c] = label]
  BY DEF GoTo
<1>2. UNCHANGED <<stored, issued, grants, liveRefresh, spoiled, current, cbPc, cbRecord>>
  BY DEF stateVars, serverVars, linkVars
<1>3. \A d \in Callers : pc'[d] = "minted" => pc[d] = "minted" /\ next'[d] = next[d]
  BY <1>0, <1>1
<1>4. IssuedInv'
  BY <1>0, <1>2 DEF IInv, IssuedInv, Issued
<1>5. HasRecordInv'
  BY <1>0, <1>1, <1>2 DEF IInv, HasRecordInv, Critical
<1>6. SameAccessInv'
  BY <1>2 DEF IInv, SameAccessInv
<1>7. FlightInv'
  BY <1>0, <1>1, <1>2 DEF IInv, FlightInv
<1>8. MintedInv'
  BY <1>2, <1>3 DEF IInv, MintedInv
<1>9. CallbackInv'
  BY <1>2, <1>3 DEF IInv, CallbackInv
<1>10. UsableInv'
  <2>1. \A d \in Callers : pc[d] = "minted" => pc'[d] = "minted"
    BY <1>0, <1>1
  <2>2. \A d \in Callers : pc'[d] = "posting" => Usable(current[d].refresh)
    BY <1>0, <1>1 DEF IInv, UsableInv
  <2> QED
    BY <1>2, <1>3, <2>1, <2>2 DEF IInv, UsableInv, Usable
<1> QED
  BY <1>4, <1>5, <1>6, <1>7, <1>8, <1>9, <1>10 DEF IInv

(* tokens.get(): the caller takes a copy of the stored record.             *)
LEMMA GetInv ==
    ASSUME IInv, NEW c \in Callers, Get(c), UNCHANGED linkVars
    PROVE  IInv'
<1>0. /\ TypeOK'
      /\ pc \in [Callers -> CallerState]
      /\ current \in [Callers -> Record]
      /\ stored \in Record
  BY CallerType DEF IInv, TypeOK, StateTypeOK, CallerTypeOK, CallerStep
<1>1. /\ UNCHANGED <<stored, needsReauth, issued, grants, liveRefresh, spoiled, lock, cbPc, cbRecord>>
      /\ lock # c
  BY DEF IInv, LockInv, Get, stateVars, serverVars, linkVars, Finished, Outcomes, Critical
<1>2. CASE stored # NoRecord /\ GoTo(c, "calling")
           /\ current' = [current EXCEPT ![c] = stored] /\ UNCHANGED next
  <2>0. /\ pc'[c] = "calling" /\ current'[c] = stored
        /\ \A d \in Callers : d # c => pc'[d] = pc[d] /\ current'[d] = current[d]
    BY <1>0, <1>2 DEF GoTo
  <2>1. \A d \in Callers : \/ pc'[d] = pc[d] /\ current'[d] = current[d]
                           \/ pc'[d] = "calling" /\ current'[d] = stored
    BY <2>0
  <2>2. \A d \in Callers : pc'[d] = "minted" => pc[d] = "minted" /\ current'[d] = current[d]
    BY <2>1
  <2>3. NoFlightWhileLatched' /\ LockInv'
    BY <1>1, <2>0 DEF IInv, NoFlightWhileLatched, LockInv, Critical
  <2>4. IssuedInv' /\ SameAccessInv'
    BY <1>1, <1>2, <2>1 DEF IInv, IssuedInv, Issued, SameAccessInv
  <2>5. HasRecordInv'
    BY <1>2, <2>1 DEF IInv, HasRecordInv
  <2>6. FlightInv'
    BY <1>1, <2>1 DEF IInv, FlightInv
  <2>7. MintedInv'
    BY <1>1, <1>2, <2>1, <2>2 DEF IInv, MintedInv
  <2>8. CallbackInv'
    BY <1>1, <1>2, <2>1, <2>2 DEF IInv, CallbackInv
  <2>9. UsableInv'
    <3>1. \A d \in Callers : pc[d] = "minted" => pc'[d] = "minted" /\ current'[d] = current[d]
      BY <1>0, <1>2 DEF Get, GoTo, Finished, Outcomes
    <3> QED
      BY <1>1, <1>2, <2>1, <2>2, <3>1 DEF IInv, UsableInv, Usable
  <2> QED
    BY <1>0, <2>3, <2>4, <2>5, <2>6, <2>7, <2>8, <2>9 DEF IInv
<1>3. CASE \E outcome \in Outcomes : Return(c, outcome)
  <2>1. PICK outcome \in Finished : Return(c, outcome)
    BY <1>3 DEF Finished
  <2>2. Release(c) /\ pc[c] # "minted"
    BY <1>1 DEF Release, Get, Finished, Outcomes
  <2> QED
    BY <1>0, <1>1, <2>1, <2>2, Leave
<1> QED
  BY <1>2, <1>3 DEF Get, Outcomes

(* Every way of leaving get other than from the first read.                *)
LEMMA LeaveInv ==
    ASSUME IInv, NEW c \in Callers, NEW outcome \in Finished, Return(c, outcome),
           CallerStep(c), UNCHANGED linkVars,
           \/ FirstCall(c) \/ EnterCritical(c) \/ Reread(c) \/ RefreshRejected(c)
           \/ RefreshFailed(c) \/ RefreshLost(c) \/ RetryCall(c) \/ Cancel(c)
    PROVE  IInv'
<1>0. TypeOK' /\ LockInv /\ pc \in [Callers -> CallerState]
  BY CallerType DEF IInv, TypeOK, CallerTypeOK
<1>1. /\ UNCHANGED <<stored, issued, grants, liveRefresh, cbPc, cbRecord>>
      /\ spoiled \subseteq spoiled'
  BY DEF FirstCall, EnterCritical, Reread, RefreshRejected, RefreshFailed, RefreshLost,
         RetryCall, Cancel, Orphan, stateVars, serverVars, linkVars
<1>2. pc[c] = "minted" => current[c].refresh \in liveRefresh' \cup spoiled'
  BY DEF FirstCall, EnterCritical, Reread, RefreshRejected, RefreshFailed, RefreshLost,
         RetryCall, Cancel, Orphan
<1>3. needsReauth' => needsReauth \/ lock = c
  BY <1>0 DEF LockInv, FirstCall, EnterCritical, Reread, RefreshRejected, RefreshFailed,
              RefreshLost, RetryCall, Cancel, stateVars, Critical
<1>4. Release(c)
  <2>1. pc'[c] \in Finished
    BY <1>0 DEF Return, GoTo
  <2>2. CASE FirstCall(c) \/ EnterCritical(c) \/ RetryCall(c)
    <3>1. lock # c
      BY <1>0, <2>2 DEF LockInv, FirstCall, EnterCritical, RetryCall, Critical
    <3>2. UNCHANGED lock
      BY <1>0, <2>1, <2>2 DEF FirstCall, EnterCritical, RetryCall, GoTo, Finished, Outcomes
    <3> QED
      BY <3>1, <3>2 DEF Release
  <2>3. CASE Reread(c)
    BY <1>0, <2>1, <2>3 DEF Reread, GoTo, Finished, Outcomes
  <2> QED
    BY <2>2, <2>3 DEF RefreshRejected, RefreshFailed, RefreshLost, Cancel
<1> QED
  BY <1>0, <1>1, <1>2, <1>3, <1>4, Leave

(* The server grants the refresh: its answer is new in every part, and the *)
(* refresh token it replaces is that of nobody but the holder of the lock. *)
LEMMA GrantedInv ==
    ASSUME IInv, NEW c \in Callers, RefreshGranted(c), UNCHANGED linkVars
    PROVE  IInv'
<1>0. /\ TypeOK'
      /\ pc \in [Callers -> CallerState]
      /\ current \in [Callers -> Record]
      /\ next \in [Callers -> Record]
      /\ stored \in Record /\ issued \in Nat /\ grants \in Nat
  BY CallerType DEF IInv, TypeOK, StateTypeOK, CallerTypeOK, CallerStep, Resume
<1>1. PICK refresh \in {current[c].refresh, issued + 1} :
        /\ liveRefresh' = (liveRefresh \ {current[c].refresh}) \cup {refresh}
        /\ next' = [next EXCEPT ![c] =
             [current[c] EXCEPT !.access = issued + 1, !.refresh = refresh]]
  BY DEF RefreshGranted
<1>2. /\ pc[c] = "posting" /\ pc' = [pc EXCEPT ![c] = "minted"]
      /\ issued' = issued + 1
      /\ current[c].refresh \in liveRefresh
      /\ UNCHANGED <<stored, needsReauth, grants, spoiled, current, lock, cbPc, cbRecord>>
  BY DEF RefreshGranted, MintAccess, GoTo, stateVars, linkVars
<1>3. /\ next'[c].access = issued + 1
      /\ next'[c].refresh = refresh
      /\ next'[c].grant = current[c].grant
      /\ \A d \in Callers : d # c => next'[d] = next[d] /\ pc'[d] = pc[d]
  BY <1>0, <1>1, <1>2 DEF Record
<1>4. \A d \in Callers : d # c => pc[d] \notin Critical
  BY <1>2 DEF IInv, LockInv, Critical
<1>5. NoFlightWhileLatched' /\ LockInv' /\ HasRecordInv' /\ SameAccessInv' /\ FlightInv'
  BY <1>0, <1>2 DEF IInv, NoFlightWhileLatched, LockInv, HasRecordInv, SameAccessInv,
                    FlightInv, Critical
<1>6. IssuedInv'
  <2>1. ASSUME NEW r, Issued(r)
        PROVE  /\ r.access \in 0..issued' /\ r.refresh \in 0..issued' /\ r.grant \in 0..grants'
               /\ r.access = 0 => r = NoRecord
    BY <1>0, <1>2, <2>1 DEF Issued
  <2>2. /\ next'[c].access \in 1..issued' /\ next'[c].refresh \in 0..issued'
        /\ next'[c].grant \in 0..grants'
    BY <1>0, <1>1, <1>2, <1>3 DEF IInv, IssuedInv, Issued
  <2>3. \A d \in Callers : Issued(next[d])
    BY DEF IInv, IssuedInv
  <2>4. \A d \in Callers :
          /\ next'[d].access \in 0..issued' /\ next'[d].refresh \in 0..issued'
          /\ next'[d].grant \in 0..grants'
          /\ next'[d].access = 0 => next'[d] = NoRecord
    BY <1>0, <1>2, <1>3, <2>1, <2>2, <2>3
  <2>5. liveRefresh' \subseteq 1..issued'
    BY <1>0, <1>1, <1>2 DEF IInv, IssuedInv
  <2> QED
    BY <1>2, <2>1, <2>4, <2>5 DEF IInv, IssuedInv, Issued
<1>7. MintedInv'
  <2>1. current[c].access <= issued /\ stored.access <= issued
    BY <1>0 DEF IInv, IssuedInv, Issued
  <2>2. \A d \in Callers : current[d].access <= issued /\ current[d].access \in Nat
    BY <1>0, RecordFields DEF IInv, IssuedInv, Issued
  <2>3. \A d \in Callers : pc'[d] = "minted" => d = c
    BY <1>3, <1>4 DEF Critical
  <2>4. stored.access \in Nat
    BY <1>0, RecordFields
  <2> QED
    BY <1>0, <1>2, <1>3, <2>1, <2>2, <2>3, <2>4 DEF MintedInv
<1>8. ASSUME NEW l \in Links, cbPc[l] \in LinkHolds
      PROVE  /\ ~Shares(cbRecord[l], next'[c])
             /\ cbRecord[l].refresh # current[c].refresh \/ cbRecord[l].refresh = 0
  <2>1. ~Shares(cbRecord[l], current[c])
    BY <1>8 DEF IInv, CallbackInv
  <2>2. cbRecord[l].access <= issued /\ cbRecord[l].refresh <= issued
    BY <1>0 DEF IInv, IssuedInv, Issued
  <2>3. cbRecord[l].access \in Nat /\ cbRecord[l].refresh \in Nat
    BY RecordFields DEF IInv, TypeOK, LinkTypeOK
  <2> QED
    BY <1>0, <1>1, <1>3, <2>1, <2>2, <2>3 DEF Shares
<1>9. CallbackInv'
  <2>1. \A d \in Callers : pc'[d] = "minted" => d = c
    BY <1>3, <1>4 DEF Critical
  <2> QED
    BY <1>2, <1>8, <2>1 DEF IInv, CallbackInv
<1>10. UsableInv'
  <2>1. ASSUME NEW r, Usable(r), r # current[c].refresh
        PROVE  r \in liveRefresh' \cup spoiled'
    BY <1>1, <1>2, <2>1 DEF Usable
  <2>2. \/ stored' = NoRecord
        \/ stored'.refresh \in liveRefresh' \cup spoiled'
        \/ \E d \in Callers : pc'[d] = "minted" /\ current'[d].refresh = stored'.refresh
    <3>1. pc'[c] = "minted"
      BY <1>0, <1>2
    <3>2. ~ \E d \in Callers : pc[d] = "minted"
      BY <1>2, <1>4 DEF Critical
    <3>3. CASE stored.refresh = current[c].refresh
      BY <1>2, <3>1, <3>3
    <3>4. CASE stored.refresh # current[c].refresh
      BY <1>2, <2>1, <3>2, <3>4 DEF IInv, UsableInv
    <3> QED
      BY <3>3, <3>4
  <2>3. \A d \in Callers : pc'[d] # "posting"
    BY <1>0, <1>2, <1>3, <1>4 DEF Critical
  <2>4. \A d \in Callers : pc'[d] = "minted" => next'[d].refresh \in liveRefresh' \cup spoiled'
    BY <1>1, <1>3, <1>4 DEF Critical
  <2>5. ASSUME NEW l \in Links, cbPc'[l] \in LinkHolds
        PROVE  cbRecord'[l].refresh \in liveRefresh' \cup spoiled'
    <3>1. cbPc[l] \in LinkHolds /\ Usable(cbRecord[l].refresh)
      BY <1>2, <2>5 DEF IInv, UsableInv
    <3>2. cbRecord[l].refresh # current[c].refresh \/ current[c].refresh = 0
      BY <1>8, <3>1
    <3>3. current[c].refresh # 0
      BY <1>2 DEF IInv, IssuedInv
    <3> QED
      BY <1>2, <2>1, <3>1, <3>2, <3>3
  <2> QED
    BY <2>2, <2>3, <2>4, <2>5 DEF UsableInv, Usable
<1> QED
  BY <1>0, <1>5, <1>6, <1>7, <1>9, <1>10 DEF IInv

(* The upsert of a refresh: the record that lands is new to everyone but   *)
(* the holder of the lock.                                                 *)
LEMMA RefreshedInv ==
    ASSUME IInv, NEW c \in Callers, StoreRefreshed(c), UNCHANGED linkVars
    PROVE  IInv'
<1>0. /\ TypeOK'
      /\ pc \in [Callers -> CallerState]
      /\ current \in [Callers -> Record]
      /\ next \in [Callers -> Record]
  BY CallerType DEF IInv, TypeOK, CallerTypeOK, CallerStep, Resume
<1>1. /\ pc[c] = "minted" /\ pc' = [pc EXCEPT ![c] = "retrying"]
      /\ stored' = next[c]
      /\ lock = c /\ lock' = NoCaller
      /\ UNCHANGED <<needsReauth, issued, grants, liveRefresh, spoiled, current, next, cbPc, cbRecord>>
  BY DEF IInv, LockInv, StoreRefreshed, GoTo, Release, serverVars, linkVars, Critical
<1>2. \A d \in Callers : pc'[d] \notin Critical
  BY <1>0, <1>1 DEF IInv, LockInv, Critical
<1>3. NoFlightWhileLatched' /\ LockInv'
  BY <1>1, <1>2, CallersAssumption DEF NoFlightWhileLatched, LockInv
<1>4. IssuedInv'
  BY <1>1 DEF IInv, IssuedInv, Issued
<1>5. HasRecordInv'
  BY <1>0, <1>1, <1>2 DEF IInv, HasRecordInv, Critical
<1>6. SameAccessInv'
  BY <1>1 DEF IInv, MintedInv, SameAccessInv
<1>7. FlightInv' /\ MintedInv'
  BY <1>2 DEF FlightInv, MintedInv, Critical
<1>8. CallbackInv'
  BY <1>1, <1>2 DEF IInv, CallbackInv, Critical
<1>9. UsableInv'
  BY <1>1, <1>2 DEF IInv, UsableInv, Usable, Critical
<1> QED
  BY <1>0, <1>3, <1>4, <1>5, <1>6, <1>7, <1>8, <1>9 DEF IInv

(* The code exchange: a new authorization, new tokens.                     *)
LEMMA ExchangedInv ==
    ASSUME IInv, NEW l \in Links, CodeExchanged(l), UNCHANGED callerVars
    PROVE  IInv'
<1>0. /\ TypeOK'
      /\ cbPc \in [Links -> LinkState]
      /\ cbRecord \in [Links -> Record]
      /\ issued \in Nat /\ grants \in Nat
  BY LinkType DEF IInv, TypeOK, StateTypeOK, LinkTypeOK, LinkStep
<1>1. PICK refresh \in {0, issued + 1} :
        /\ liveRefresh' = liveRefresh \cup ({refresh} \ {0})
        /\ spoiled' = spoiled \cup ({refresh} \cap {0})
        /\ cbRecord' = [cbRecord EXCEPT ![l] =
             [access |-> issued + 1, refresh |-> refresh, grant |-> grants + 1]]
  BY DEF CodeExchanged
<1>2. /\ cbPc[l] = "exchanging" /\ cbPc' = [cbPc EXCEPT ![l] = "verifying"]
      /\ issued' = issued + 1 /\ grants' = grants + 1
      /\ UNCHANGED <<stored, needsReauth, pc, current, next, lock>>
  BY DEF CodeExchanged, MintAccess, LinkTo, stateVars, callerVars
<1>3. /\ cbRecord'[l] = [access |-> issued + 1, refresh |-> refresh, grant |-> grants + 1]
      /\ \A m \in Links : m # l => cbRecord'[m] = cbRecord[m] /\ cbPc'[m] = cbPc[m]
  BY <1>0, <1>1, <1>2
<1>4. ASSUME NEW r \in Record, Issued(r)
      PROVE  /\ ~Shares(cbRecord'[l], r) /\ ~Shares(r, cbRecord'[l])
             /\ r.access \in 0..issued' /\ r.refresh \in 0..issued' /\ r.grant \in 0..grants'
  BY <1>0, <1>1, <1>2, <1>3, <1>4 DEF Issued, Shares
<1>5. /\ stored \in Record /\ Issued(stored)
      /\ \A c \in Callers : /\ current[c] \in Record /\ Issued(current[c])
                           /\ next[c] \in Record /\ Issued(next[c])
      /\ \A m \in Links : cbRecord[m] \in Record /\ Issued(cbRecord[m])
      /\ Issued(NoRecord)
  BY <1>0 DEF IInv, TypeOK, StateTypeOK, CallerTypeOK, IssuedInv, Issued, NoRecord
<1>6. /\ NoFlightWhileLatched' /\ LockInv' /\ HasRecordInv' /\ SameAccessInv'
      /\ FlightInv' /\ MintedInv'
  BY <1>2 DEF IInv, NoFlightWhileLatched, LockInv, HasRecordInv, SameAccessInv, FlightInv,
              MintedInv
<1>7. IssuedInv'
  <2>1. ASSUME NEW r \in Record, Issued(r)
        PROVE  /\ r.access \in 0..issued' /\ r.refresh \in 0..issued' /\ r.grant \in 0..grants'
               /\ r.access = 0 => r = NoRecord
    BY <1>4, <2>1 DEF Issued
  <2>2. \A m \in Links :
          /\ cbRecord'[m].access \in 0..issued' /\ cbRecord'[m].refresh \in 0..issued'
          /\ cbRecord'[m].grant \in 0..grants'
          /\ cbRecord'[m].access = 0 => cbRecord'[m] = NoRecord
    <3>1. /\ cbRecord'[l].access \in 1..issued' /\ cbRecord'[l].refresh \in 0..issued'
          /\ cbRecord'[l].grant \in 0..grants'
      BY <1>0, <1>1, <1>2, <1>3
    <3> QED
      BY <1>3, <1>5, <2>1, <3>1
  <2>3. liveRefresh' \subseteq 1..issued'
    BY <1>0, <1>1, <1>2 DEF IInv, IssuedInv
  <2> QED
    BY <1>2, <1>5, <2>1, <2>2, <2>3 DEF IssuedInv, Issued
<1>8. CallbackInv'
  <2>1. ASSUME NEW m \in Links, cbPc'[m] \in LinkHolds
        PROVE  /\ ~Shares(cbRecord'[m], NoRecord)
               /\ ~Shares(cbRecord'[m], stored)
               /\ \A c \in Callers : ~Shares(cbRecord'[m], current[c])
               /\ \A c \in Callers : pc[c] = "minted" => ~Shares(cbRecord'[m], next[c])
    BY <1>3, <1>4, <1>5, <2>1, NoRecordIsRecord DEF IInv, CallbackInv
  <2>2. ASSUME NEW m \in Links, NEW k \in Links \ {m},
               cbPc'[m] \in LinkHolds, cbPc'[k] \in LinkHolds
        PROVE  ~Shares(cbRecord'[m], cbRecord'[k])
    BY <1>3, <1>4, <1>5, <2>2 DEF IInv, CallbackInv
  <2> QED
    BY <1>2, <2>1, <2>2 DEF CallbackInv
<1>9. UsableInv'
  <2>1. ASSUME NEW r, Usable(r) PROVE r \in liveRefresh' \cup spoiled'
    BY <1>1, <2>1 DEF Usable
  <2>2. refresh \in liveRefresh' \cup spoiled'
    BY <1>1
  <2>3. \A m \in Links : cbPc'[m] \in LinkHolds => cbRecord'[m].refresh \in liveRefresh' \cup spoiled'
    BY <1>3, <2>1, <2>2 DEF IInv, UsableInv
  <2> QED
    BY <1>2, <2>1, <2>3 DEF IInv, UsableInv, Usable
<1> QED
  BY <1>0, <1>6, <1>7, <1>8, <1>9 DEF IInv

(* The upsert of a link: a record that shares nothing with any other.      *)
LEMMA LinkedInv ==
    ASSUME IInv, NEW l \in Links, LinkStored(l), UNCHANGED callerVars
    PROVE  IInv'
<1>0. /\ TypeOK'
      /\ cbPc \in [Links -> LinkState]
      /\ cbRecord \in [Links -> Record]
  BY LinkType DEF IInv, TypeOK, LinkTypeOK, LinkStep
<1>1. /\ cbPc[l] = "storing" /\ cbPc' = [cbPc EXCEPT ![l] = "clearing"]
      /\ cbRecord' = [cbRecord EXCEPT ![l] = NoRecord]
      /\ stored' = cbRecord[l]
      /\ UNCHANGED <<needsReauth, issued, grants, liveRefresh, spoiled, pc, current, next, lock>>
  BY DEF LinkStored, Respond, LinkTo, serverVars, callerVars
<1>2. \A m \in Links : cbPc'[m] \in LinkHolds =>
         m # l /\ cbPc[m] \in LinkHolds /\ cbRecord'[m] = cbRecord[m]
  BY <1>0, <1>1 DEF LinkHolds
<1>3. cbPc[l] \in LinkHolds
  BY <1>1 DEF LinkHolds
<1>4. NoFlightWhileLatched' /\ LockInv' /\ HasRecordInv'
  BY <1>1 DEF IInv, NoFlightWhileLatched, LockInv, HasRecordInv
<1>5. IssuedInv'
  <2>1. Issued(NoRecord)
    BY DEF IInv, TypeOK, StateTypeOK, Issued, NoRecord
  <2>2. \A m \in Links : Issued(cbRecord[m]) /\ (cbRecord'[m] = cbRecord[m] \/ cbRecord'[m] = NoRecord)
    BY <1>0, <1>1 DEF IInv, IssuedInv
  <2> QED
    BY <1>1, <2>1, <2>2 DEF IInv, IssuedInv, Issued
<1>6. SameAccessInv' /\ FlightInv'
  BY <1>1, <1>3 DEF IInv, CallbackInv, Shares, SameAccessInv, FlightInv
<1>7. MintedInv'
  BY <1>1, <1>3 DEF IInv, MintedInv, CallbackInv, Shares
<1>8. CallbackInv'
  BY <1>1, <1>2, <1>3 DEF IInv, CallbackInv
<1>9. UsableInv'
  BY <1>1, <1>2, <1>3 DEF IInv, UsableInv, Usable
<1> QED
  BY <1>0, <1>4, <1>5, <1>6, <1>7, <1>8, <1>9 DEF IInv

LEMMA CallerInv ==
    ASSUME IInv, NEW c \in Callers, CallerStep(c), UNCHANGED linkVars
    PROVE  IInv'
<1>0. TypeOK' /\ pc \in [Callers -> CallerState] /\ stored \in Record
  BY CallerType DEF IInv, TypeOK, StateTypeOK, CallerTypeOK
<1>o. Outcomes \subseteq Finished /\ "idle" \in Finished
  BY DEF Finished
<1>1. CASE Get(c)
  BY <1>1, GetInv
<1>2. CASE FirstCall(c)
  <2>1. CASE \E outcome \in Outcomes : Return(c, outcome)
    BY <1>2, <1>o, <2>1, LeaveInv
  <2>2. CASE GoTo(c, "queued") /\ UNCHANGED <<current, next>>
    <3>1. pc[c] = "calling" /\ pc' = [pc EXCEPT ![c] = "queued"] /\ UNCHANGED <<stateVars, serverVars, lock>>
      BY <1>2, <2>2 DEF FirstCall, GoTo
    <3>2. NoFlightWhileLatched' /\ LockInv'
      BY <1>0, <3>1 DEF IInv, NoFlightWhileLatched, LockInv, Critical, stateVars
    <3> QED
      BY <1>0, <2>2, <3>1, <3>2, Walk
  <2> QED
    BY <1>2, <2>1, <2>2 DEF FirstCall, Outcomes
<1>3. CASE EnterCritical(c)
  <2>1. CASE Return(c, "needs_reauth")
    BY <1>3, <1>o, <2>1, LeaveInv DEF Outcomes
  <2>2. CASE ~needsReauth /\ lock' = c /\ GoTo(c, "rereading") /\ UNCHANGED <<current, next>>
    <3>1. /\ pc[c] = "queued" /\ pc' = [pc EXCEPT ![c] = "rereading"] /\ lock = NoCaller
          /\ UNCHANGED <<stateVars, serverVars>>
      BY <1>3, <2>2 DEF EnterCritical, GoTo
    <3>2. NoFlightWhileLatched'
      BY <2>2, <3>1 DEF NoFlightWhileLatched, stateVars
    <3>3. LockInv'
      BY <1>0, <2>2, <3>1, CallersAssumption DEF IInv, LockInv, Critical
    <3> QED
      BY <1>0, <2>2, <3>1, <3>2, <3>3, Walk
  <2> QED
    BY <1>3, <2>1, <2>2 DEF EnterCritical
<1>4. CASE Reread(c)
  <2>0. pc[c] = "rereading" /\ lock = c /\ ~needsReauth /\ UNCHANGED <<stateVars, serverVars>>
    BY <1>4 DEF IInv, LockInv, NoFlightWhileLatched, Reread, Critical
  <2>1. CASE \E outcome \in Outcomes : Return(c, outcome)
    BY <1>4, <1>o, <2>1, LeaveInv
  <2>2. CASE /\ GoTo(c, "retrying") /\ next' = [next EXCEPT ![c] = stored]
             /\ Release(c) /\ UNCHANGED current
    <3>1. pc' = [pc EXCEPT ![c] = "retrying"] /\ lock' = NoCaller
      BY <2>0, <2>2 DEF GoTo, Release
    <3>2. NoFlightWhileLatched'
      BY <2>0 DEF NoFlightWhileLatched, stateVars
    <3>3. LockInv'
      BY <1>0, <2>0, <3>1, CallersAssumption DEF IInv, LockInv, Critical
    <3> QED
      BY <1>0, <2>0, <2>2, <3>2, <3>3, Walk
  <2>3. CASE /\ stored # NoRecord /\ stored.access = current[c].access
             /\ GoTo(c, "posting") /\ UNCHANGED <<current, next, lock>>
    <3>1. current[c] = stored
      BY <2>3 DEF IInv, SameAccessInv
    <3>2. Usable(stored.refresh)
      BY <2>0, <2>3 DEF IInv, UsableInv, LockInv, Critical
    <3>3. NoFlightWhileLatched'
      BY <2>0 DEF NoFlightWhileLatched, stateVars
    <3>4. LockInv'
      BY <1>0, <2>0, <2>3 DEF IInv, LockInv, Critical, GoTo
    <3> QED
      BY <1>0, <2>0, <2>3, <3>1, <3>2, <3>3, <3>4, Walk
  <2> QED
    BY <1>4, <2>1, <2>2, <2>3 DEF Reread, Outcomes
<1>5. CASE RefreshGranted(c)
  BY <1>5, GrantedInv
<1>6. CASE RefreshRejected(c) \/ RefreshFailed(c) \/ RefreshLost(c) \/ RetryCall(c)
  <2>1. \E outcome \in Outcomes : Return(c, outcome)
    BY <1>6 DEF RefreshRejected, RefreshFailed, RefreshLost, RetryCall, Outcomes
  <2> QED
    BY <1>6, <1>o, <2>1, LeaveInv
<1>7. CASE StoreRefreshed(c)
  BY <1>7, RefreshedInv
<1>8. CASE Cancel(c)
  BY <1>8, <1>o, LeaveInv DEF Cancel
<1> QED
  BY <1>1, <1>2, <1>3, <1>4, <1>5, <1>6, <1>7, <1>8 DEF CallerStep, Resume

LEMMA LinkInv ==
    ASSUME IInv, NEW l \in Links, LinkStep(l), UNCHANGED callerVars
    PROVE  IInv'
<1>0. TypeOK'
  BY LinkType DEF IInv
<1>s. /\ LinkEnded \cup LinkHolds \cup {"issued", "exchanging", "clearing"} \subseteq LinkState
      /\ LinkHolds \cap (LinkEnded \cup {"issued", "exchanging", "clearing"}) = {}
  BY DEF LinkState, LinkEnded, LinkHolds
<1>1. CASE Login(l) \/ CallbackFailed(l) \/ CallbackDropped(l)
  <2>1. PICK label \in {"issued", "failed", "idle"} : Respond(l, label)
    BY <1>1 DEF Login, CallbackFailed, CallbackDropped
  <2>2. label \in LinkState /\ label \notin LinkHolds
    BY <1>s, <2>1 DEF LinkEnded
  <2>3. UNCHANGED <<stateVars, serverVars>>
    BY <1>1 DEF Login, CallbackFailed, CallbackDropped
  <2> QED
    BY <1>0, <2>1, <2>2, <2>3, LinkQuiet DEF Respond, stateVars, serverVars
<1>2. CASE BeginCallback(l)
  <2>1. PICK label \in {"exchanging", "failed"} : LinkTo(l, label)
    BY <1>2 DEF BeginCallback
  <2>2. label \in LinkState /\ label \notin LinkHolds
    BY <1>s, <2>1 DEF LinkEnded
  <2> QED
    BY <1>0, <1>2, <2>1, <2>2, LinkQuiet DEF BeginCallback, stateVars, serverVars
<1>3. CASE CodeExchanged(l)
  BY <1>3, ExchangedInv
<1>4. CASE OwnerVerified(l)
  <2>1. UNCHANGED <<stateVars, serverVars>> /\ cbPc[l] \in LinkHolds
    BY <1>4 DEF OwnerVerified, LinkHolds
  <2>2. CASE LinkTo(l, "storing") /\ UNCHANGED cbRecord
    BY <1>0, <1>s, <2>1, <2>2, LinkQuiet DEF LinkHolds, stateVars, serverVars
  <2>3. CASE Respond(l, "failed")
    BY <1>0, <1>s, <2>1, <2>3, LinkQuiet DEF LinkEnded, Respond, stateVars, serverVars
  <2> QED
    BY <1>4, <2>2, <2>3 DEF OwnerVerified
<1>5. CASE LinkStored(l)
  BY <1>5, LinkedInv
<1>6. CASE LatchCleared(l)
  BY <1>0, <1>6, <1>s, LinkQuiet DEF LatchCleared, Respond, LinkEnded, serverVars
<1> QED
  BY <1>1, <1>2, <1>3, <1>4, <1>5, <1>6 DEF LinkStep

LEMMA InvStep == IInv /\ [Next]_vars => IInv'
<1> SUFFICES ASSUME IInv, [Next]_vars PROVE IInv'
  OBVIOUS
<1>1. CASE UNCHANGED vars
  <2>1. TypeOK'
    BY TypeStep DEF IInv
  <2> QED
    BY <1>1, <2>1
       DEF vars, stateVars, serverVars, callerVars, linkVars, IInv, NoFlightWhileLatched,
           LockInv, IssuedInv, Issued, HasRecordInv, SameAccessInv, FlightInv, MintedInv,
           CallbackInv, UsableInv, Usable
<1> QED
  BY <1>1, ServerInv, CallerInv, LinkInv, RestartInv DEF Next

(* The whole inductive invariant, for every number of callers and links.   *)
THEOREM Invariance == Spec => []IInv
  BY InvInit, InvStep, PTL DEF Spec

(* Once a refresh token was found dead nobody POSTs it again before the    *)
(* callback or a restart lowers the flag.                                  *)
THEOREM LatchStopsFlights == Spec => []NoFlightWhileLatched
<1>1. IInv => NoFlightWhileLatched
  BY DEF IInv
<1> QED
  BY <1>1, Invariance, PTL

-----------------------------------------------------------------------------
(* Action properties.                                                      *)

(* Only the rejection of a POST raises the flag.                           *)
LEMMA OnlyRejectionRaises ==
    ASSUME [Next]_vars, ~needsReauth, needsReauth'
    PROVE  \E c \in Callers : RefreshRejected(c)
<1>1. CASE ServerStep
  BY <1>1 DEF ServerStep, AccessExpires, GrantRevoked, stateVars
<1>2. ASSUME NEW c \in Callers, CallerStep(c) PROVE RefreshRejected(c)
  BY <1>2 DEF CallerStep, Resume, Get, FirstCall, EnterCritical, Reread, RefreshGranted,
              RefreshFailed, StoreRefreshed, RefreshLost, RetryCall, Cancel, stateVars
<1>3. ASSUME NEW l \in Links, LinkStep(l) PROVE FALSE
  BY <1>3 DEF LinkStep, Login, BeginCallback, CodeExchanged, OwnerVerified, LinkStored,
              LatchCleared, CallbackFailed, CallbackDropped, stateVars
<1>4. CASE Restart \/ UNCHANGED vars
  BY <1>4 DEF Restart, vars, stateVars
<1> QED
  BY <1>1, <1>2, <1>3, <1>4 DEF Next

(* The flag goes up only for a refresh token that is spoiled, never for    *)
(* one that another caller of the service had rotated.                     *)
THEOREM WarrantedLatch == Spec => LatchIsWarranted
<1>1. ASSUME IInv, [Next]_vars, ~needsReauth, needsReauth'
      PROVE  \E c \in Callers : pc[c] = "posting" /\ current[c].refresh \in spoiled
  <2>1. PICK c \in Callers : RefreshRejected(c)
    BY <1>1, OnlyRejectionRaises
  <2>2. pc[c] = "posting" /\ current[c].refresh \notin liveRefresh
    BY <2>1 DEF RefreshRejected
  <2> QED
    BY <1>1, <2>2 DEF IInv, UsableInv, Usable
<1> QED
  BY <1>1, Invariance, PTL DEF Spec, LatchIsWarranted

(* The refresh that raises the flag is that of the stored record, or of an *)
(* authorization that is no longer the stored one.                         *)
THEOREM BlamedRecord == Spec => BlamesStoredUnlessRelinked
<1>1. ASSUME IInv, [Next]_vars, ~needsReauth, needsReauth'
      PROVE  \/ stored.refresh \notin liveRefresh
             \/ \E c \in Callers : pc[c] = "posting" /\ current[c].grant # stored.grant
  <2>1. PICK c \in Callers : RefreshRejected(c)
    BY <1>1, OnlyRejectionRaises
  <2>2. pc[c] = "posting" /\ current[c].refresh \notin liveRefresh
    BY <2>1 DEF RefreshRejected
  <2>3. current[c].grant = stored.grant => current[c] = stored
    BY <1>1, <2>2 DEF IInv, FlightInv
  <2> QED
    BY <2>2, <2>3
<1> QED
  BY <1>1, Invariance, PTL DEF Spec, BlamesStoredUnlessRelinked

(* Who changes the stored record: the upsert of a refresh, or of a link.   *)
LEMMA StoredChanges ==
    ASSUME [Next]_vars, stored' # stored
    PROVE  \/ \E c \in Callers : StoreRefreshed(c)
           \/ \E l \in Links : LinkStored(l)
<1>1. CASE ServerStep
  BY <1>1 DEF ServerStep, AccessExpires, GrantRevoked, stateVars
<1>2. ASSUME NEW c \in Callers, CallerStep(c) PROVE StoreRefreshed(c)
  BY <1>2 DEF CallerStep, Resume, Get, FirstCall, EnterCritical, Reread, RefreshGranted,
              RefreshRejected, RefreshFailed, RefreshLost, RetryCall, Cancel, stateVars
<1>3. ASSUME NEW l \in Links, LinkStep(l) PROVE LinkStored(l)
  BY <1>3 DEF LinkStep, Login, BeginCallback, CodeExchanged, OwnerVerified,
              LatchCleared, CallbackFailed, CallbackDropped, stateVars
<1>4. CASE Restart \/ UNCHANGED vars
  BY <1>4 DEF Restart, vars, stateVars
<1> QED
  BY <1>1, <1>2, <1>3, <1>4 DEF Next

(* The upsert of a refresh lands a newer access token of the authorization *)
(* that the refresh departed from.                                         *)
LEMMA StoreLandsNewer ==
    ASSUME IInv, NEW c \in Callers, StoreRefreshed(c)
    PROVE  /\ stored'.grant = current[c].grant
           /\ stored'.access > current[c].access
           /\ current[c].grant = stored.grant => current[c] = stored
  BY DEF IInv, MintedInv, FlightInv, StoreRefreshed

(* The upsert of a link brings another authorization.                      *)
LEMMA LinkBringsAnother ==
    ASSUME IInv, NEW l \in Links, LinkStored(l)
    PROVE  stored'.grant # stored.grant
  BY DEF IInv, CallbackInv, Shares, LinkStored, LinkHolds

(* Within one authorization the stored access token only moves forward.    *)
THEOREM StoredForward == Spec => WithinGrantForward
<1>1. ASSUME IInv, [Next]_vars, stored'.grant = stored.grant
      PROVE  stored'.access >= stored.access
  <2>0. stored.access \in Nat /\ stored'.access \in Nat
    BY <1>1, TypeStep, RecordFields DEF IInv, TypeOK, StateTypeOK
  <2>1. CASE stored' = stored
    BY <2>0, <2>1
  <2>2. ASSUME NEW c \in Callers, StoreRefreshed(c) PROVE stored'.access >= stored.access
    BY <1>1, <2>0, <2>2, StoreLandsNewer
  <2>3. ASSUME NEW l \in Links, LinkStored(l) PROVE FALSE
    BY <1>1, <2>3, LinkBringsAnother
  <2> QED
    BY <1>1, <2>1, <2>2, <2>3, StoredChanges
<1> QED
  BY <1>1, Invariance, PTL DEF Spec, WithinGrantForward

-----------------------------------------------------------------------------
(* The refinement: TokenLifecycle implements RefreshCell.                  *)

LEMMA RefinementInit == Init => Cell!CellInit
  BY TypeInit
     DEF Init, StateInit, CallerInit, TypeOK, StateTypeOK, Cell!CellInit, Cell!CellRecord,
         Cell!Empty, Record, flightRecord, InFlight, NoRecord

(* The flight departs, lands or ends with the caller that holds the lock.  *)
LEMMA FlightOf ==
    ASSUME IInv, NEW c \in Callers, pc[c] \in {"posting", "minted"}
    PROVE  lock = c /\ flightRecord = current[c] /\ flightRecord # NoRecord
  BY DEF IInv, LockInv, HasRecordInv, Critical, flightRecord, InFlight

LEMMA NoFlight ==
    ASSUME LockInv, \A c \in Callers : lock = c => pc[c] = "rereading"
    PROVE  flightRecord = NoRecord
  BY DEF flightRecord, InFlight

(* A step that moves neither the holder of the lock nor its record leaves  *)
(* the flight where it is.                                                 *)
LEMMA FlightStays ==
    ASSUME IInv, UNCHANGED lock,
           \A c \in Callers : lock = c => pc'[c] = pc[c] /\ current'[c] = current[c]
    PROVE  flightRecord' = flightRecord
  BY DEF IInv, TypeOK, CallerTypeOK, flightRecord, InFlight

(* The callers' steps, seen from the cell.                                 *)
LEMMA CallerRefines ==
    ASSUME IInv, IInv', NEW c \in Callers, CallerStep(c), UNCHANGED linkVars
    PROVE  [Cell!CellNext]_Cell!cellVars
<1>0. /\ pc \in [Callers -> CallerState] /\ current \in [Callers -> Record]
      /\ LockInv /\ LockInv' /\ c # NoCaller
  BY CallersAssumption DEF IInv, TypeOK, CallerTypeOK
<1>1. CASE Get(c) \/ FirstCall(c) \/ RetryCall(c)
  <2>1. /\ UNCHANGED <<stateVars, lock>> /\ lock # c
    BY <1>0, <1>1 DEF LockInv, Get, FirstCall, RetryCall, Finished, Outcomes, Critical
  <2>2. \A d \in Callers : d # c => pc'[d] = pc[d] /\ current'[d] = current[d]
    BY <1>0, <1>1 DEF Get, FirstCall, RetryCall, GoTo, Return
  <2> QED
    BY <2>1, <2>2, FlightStays DEF Cell!cellVars, stateVars
<1>2. CASE EnterCritical(c)
  <2>1. lock = NoCaller /\ UNCHANGED stateVars /\ (lock' = NoCaller \/ lock' = c)
    BY <1>2 DEF EnterCritical
  <2>2. lock' = c => pc'[c] = "rereading"
    BY <1>0, <1>2 DEF EnterCritical, GoTo
  <2>3. flightRecord = NoRecord /\ flightRecord' = NoRecord
    BY <1>0, <2>1, <2>2, CallersAssumption DEF flightRecord, InFlight
  <2> QED
    BY <2>1, <2>3 DEF Cell!cellVars, stateVars
<1>3. CASE Reread(c)
  <2>1. lock = c /\ pc[c] = "rereading" /\ ~needsReauth /\ UNCHANGED stateVars
    BY <1>0, <1>3 DEF IInv, LockInv, NoFlightWhileLatched, Reread, Critical
  <2>2. flightRecord = NoRecord
    BY <2>1 DEF flightRecord, InFlight
  <2>3. CASE Release(c)
    <3>1. flightRecord' = NoRecord
      BY <2>1, <2>3, CallersAssumption DEF Release, flightRecord, InFlight
    <3> QED
      BY <2>1, <2>2, <3>1 DEF Cell!cellVars, stateVars
  <2>4. CASE /\ stored # NoRecord /\ stored.access = current[c].access
             /\ GoTo(c, "posting") /\ UNCHANGED <<current, lock>>
    <3>1. current[c] = stored
      BY <2>4 DEF IInv, SameAccessInv
    <3>2. pc'[c] = "posting" /\ lock' = c /\ current'[c] = stored
      BY <1>0, <2>1, <2>4, <3>1 DEF GoTo
    <3>3. flightRecord' = stored
      BY <3>2 DEF flightRecord, InFlight
    <3>4. Cell!Depart
      BY <2>1, <2>2, <2>4, <3>3 DEF Cell!Depart, Cell!Empty, NoRecord, stateVars
    <3> QED
      BY <3>4 DEF Cell!CellNext
  <2> QED
    BY <1>3, <2>3, <2>4 DEF Reread
<1>4. CASE RefreshGranted(c)
  <2>1. pc[c] = "posting" /\ pc'[c] = "minted" /\ UNCHANGED <<stateVars, current, lock>>
    BY <1>0, <1>4 DEF RefreshGranted, GoTo
  <2>2. lock = c /\ flightRecord = current[c]
    BY <2>1, FlightOf
  <2>3. flightRecord' = current[c]
    BY <2>1, <2>2 DEF flightRecord, InFlight
  <2> QED
    BY <2>1, <2>2, <2>3 DEF Cell!cellVars, stateVars
<1>5. CASE RefreshRejected(c)
  <2>1. flightRecord # NoRecord /\ lock = c
    BY <1>5, FlightOf DEF RefreshRejected
  <2>2. flightRecord' = NoRecord
    BY <1>5, <2>1, CallersAssumption DEF RefreshRejected, Release, flightRecord, InFlight
  <2>3. Cell!Reject
    BY <1>5, <2>1, <2>2 DEF RefreshRejected, Cell!Reject, Cell!Empty, NoRecord
  <2> QED
    BY <2>3 DEF Cell!CellNext
<1>6. CASE StoreRefreshed(c)
  <2>1. flightRecord # NoRecord /\ flightRecord = current[c] /\ lock = c
    BY <1>6, FlightOf DEF StoreRefreshed
  <2>2. flightRecord' = NoRecord /\ UNCHANGED needsReauth
    BY <1>6, <2>1, CallersAssumption DEF StoreRefreshed, Release, flightRecord, InFlight
  <2>3. stored' \in Cell!CellRecord
    BY DEF IInv, TypeOK, StateTypeOK, Record, Cell!CellRecord
  <2>4. Cell!Land
    BY <1>6, <2>1, <2>2, <2>3, StoreLandsNewer DEF Cell!Land, Cell!Empty, NoRecord
  <2> QED
    BY <2>4 DEF Cell!CellNext
<1>7. CASE RefreshFailed(c) \/ RefreshLost(c) \/ (Cancel(c) /\ pc[c] \in {"posting", "minted"})
  <2>1. flightRecord # NoRecord /\ lock = c
    BY <1>7, FlightOf DEF RefreshFailed, RefreshLost
  <2>2. flightRecord' = NoRecord /\ UNCHANGED stateVars
    BY <1>7, <2>1, CallersAssumption
       DEF RefreshFailed, RefreshLost, Cancel, Release, flightRecord, InFlight
  <2>3. Cell!Abort
    BY <2>1, <2>2 DEF Cell!Abort, Cell!Empty, NoRecord, stateVars
  <2> QED
    BY <2>3 DEF Cell!CellNext
<1>8. CASE Cancel(c) /\ pc[c] \notin {"posting", "minted"}
  <2>1. UNCHANGED stateVars /\ Release(c) /\ Return(c, "idle")
    BY <1>8 DEF Cancel
  <2>2. CASE lock = c
    <3>1. flightRecord = NoRecord /\ flightRecord' = NoRecord
      BY <1>8, <2>1, <2>2, CallersAssumption DEF Release, flightRecord, InFlight
    <3> QED
      BY <2>1, <3>1 DEF Cell!cellVars, stateVars
  <2>3. CASE lock # c
    <3>1. UNCHANGED lock /\ \A d \in Callers : d # c => pc'[d] = pc[d] /\ current'[d] = current[d]
      BY <1>0, <2>1, <2>3 DEF Release, Return, GoTo
    <3> QED
      BY <2>1, <2>3, <3>1, FlightStays DEF Cell!cellVars, stateVars
  <2> QED
    BY <2>2, <2>3
<1> QED
  BY <1>1, <1>2, <1>3, <1>4, <1>5, <1>6, <1>7, <1>8 DEF CallerStep, Resume

(* A link relinks the cell, then clears its latch.                         *)
LEMMA LinkRefines ==
    ASSUME IInv, IInv', NEW l \in Links, LinkStep(l), UNCHANGED callerVars
    PROVE  [Cell!CellNext]_Cell!cellVars
<1>1. flightRecord' = flightRecord
  BY FlightStays DEF callerVars
<1>2. CASE LinkStored(l)
  <2>1. stored' \in Cell!CellRecord
    BY DEF IInv, TypeOK, StateTypeOK, Record, Cell!CellRecord
  <2>2. Cell!Relink
    BY <1>1, <1>2, <2>1, LinkBringsAnother DEF Cell!Relink, LinkStored
  <2> QED
    BY <2>2 DEF Cell!CellNext
<1>3. CASE LatchCleared(l)
  BY <1>1, <1>3 DEF LatchCleared, Cell!Clear, Cell!CellNext
<1>4. CASE UNCHANGED stateVars
  BY <1>1, <1>4 DEF stateVars, Cell!cellVars
<1> QED
  BY <1>2, <1>3, <1>4
     DEF LinkStep, Login, BeginCallback, CodeExchanged, OwnerVerified, CallbackFailed,
         CallbackDropped

LEMMA RefinementStep ==
    IInv /\ IInv' /\ [Next]_vars => [Cell!CellNext]_Cell!cellVars
<1> SUFFICES ASSUME IInv, IInv', [Next]_vars PROVE [Cell!CellNext]_Cell!cellVars
  OBVIOUS
<1>1. CASE ServerStep /\ UNCHANGED <<callerVars, linkVars>>
  <2>1. flightRecord' = flightRecord
    BY <1>1, FlightStays DEF callerVars
  <2> QED
    BY <1>1, <2>1 DEF ServerStep, AccessExpires, GrantRevoked, stateVars, Cell!cellVars
<1>2. CASE Restart
  <2>1. flightRecord' = NoRecord
    BY <1>2, CallersAssumption DEF Restart, flightRecord, InFlight
  <2>2. Cell!Restart
    BY <1>2, <2>1 DEF Restart, Cell!Restart, Cell!Empty, NoRecord
  <2> QED
    BY <2>2 DEF Cell!CellNext
<1>3. CASE UNCHANGED vars
  BY <1>3 DEF vars, stateVars, callerVars, flightRecord, InFlight, Cell!cellVars
<1> QED
  BY <1>1, <1>2, <1>3, CallerRefines, LinkRefines DEF Next

(* The token lifecycle implements RefreshCell: at most one refresh at a    *)
(* time, from the stored record, with the effects the cell allows.         *)
THEOREM Refinement == Spec => ImplementsRefreshCell
  BY RefinementInit, RefinementStep, Invariance, PTL
     DEF Spec, ImplementsRefreshCell, Cell!CellSpec

=============================================================================
