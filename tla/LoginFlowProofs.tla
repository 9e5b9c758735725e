---------------------------- MODULE LoginFlowProofs ----------------------------
(***************************************************************************)
(* Logins and callback handlers, for any number of both: the handlers keep *)
(* to the state store, whose theorems then hold of them; no two of them    *)
(* work on one login; and they implement the link attempts TokenLifecycle  *)
(* assumes, so that its theorems hold of them.                             *)
(***************************************************************************)
EXTENDS LoginFlow, StateStoreProofs, TokenLifecycleProofs

-----------------------------------------------------------------------------
LEMMA FlowStoreStep == [FlowNext]_flowVars => [StoreNext]_storeVars
BY DEF FlowNext, StoreNext, LoginRequest, CallbackRequest, HandlerStep, FlowRestart, flowVars,
       storeVars

(* The handlers change the map by issue and consume only, so what was      *)
(* proved about the store holds of the flow.                               *)
THEOREM FlowKeepsStore == FlowSpec => StoreSpec
<1>1. FlowInit => StoreInit
  BY DEF FlowInit
<1> QED
  BY <1>1, FlowStoreStep, PTL DEF FlowSpec, StoreSpec

-----------------------------------------------------------------------------
(* A handler works exactly while it carries a state.                       *)
WorksInv == \A h \in Callbacks :
    /\ carries[h] # NoState <=> handlerPc[h] \notin H!LinkEnded
    /\ handlerPc[h] # "issued"
    /\ carries[h] = NoState => handlerRecord[h] = NoRecord

FlowShape ==
    /\ carries \in [Callbacks -> States \cup {NoState}]
    /\ handlerPc \in [Callbacks -> H!LinkState]
    /\ handlerRecord = [h \in Callbacks |-> handlerRecord[h]]
    /\ outcome \in [States -> H!LinkEnded]
    /\ NoState \notin States

(* The entry of a carried state is gone, whence no second handler gets it. *)
FlowInv ==
    /\ StoreInv
    /\ FlowShape
    /\ WorksInv
    /\ UsedUp
    /\ OneCallbackPerLogin

LEMMA SameNoRecord == NoRecord = H!NoRecord
BY DEF NoRecord, H!NoRecord

LEMMA InitFlow == FlowInit => FlowInv
<1> SUFFICES ASSUME FlowInit PROVE FlowInv
  OBVIOUS
<1>1. StoreInv
  BY InitStore DEF FlowInit
<1>2. FlowShape /\ WorksInv
  BY FlowAssumption, SameNoRecord
     DEF FlowInit, FlowShape, WorksInv, H!LinkInit, H!LinkState, H!LinkEnded, H!LinkHolds
<1> QED
  BY <1>1, <1>2 DEF FlowInv, FlowInit, UsedUp, OneCallbackPerLogin

LEMMA LoginKeeps == ASSUME FlowInv, NEW s \in States, LoginRequest(s) PROVE FlowInv'
<1>1. StoreInv'
  BY IssueKeeps DEF LoginRequest, FlowInv
<1>2. FlowShape' /\ WorksInv' /\ OneCallbackPerLogin'
  BY DEF LoginRequest, handlerVars, FlowInv, FlowShape, WorksInv, OneCallbackPerLogin
<1>3. UsedUp'
  <2>1. ASSUME NEW h \in Callbacks, carries[h] # NoState PROVE carries[h] # s
    BY <2>1 DEF FlowInv, FlowShape, StoreInv, PendingInv, UsedUp, LoginRequest, Issue
  <2> QED
    BY <2>1 DEF LoginRequest, Issue, handlerVars, FlowInv, UsedUp
<1> QED
  BY <1>1, <1>2, <1>3 DEF FlowInv

(* The callback that is let through is the first: nobody has used up s.    *)
LEMMA Fresh ==
    ASSUME FlowInv, NEW s \in States, Consume(s), LetThrough(s)
    PROVE  s \in DOMAIN entries /\ accepted[s] = 0 /\ accepted'[s] = 1
BY DEF FlowInv, StoreInv, PendingInv, Consume, LetThrough

LEMMA CallbackKeeps ==
    ASSUME FlowInv, NEW h \in Callbacks, NEW s \in States, CallbackRequest(h, s) PROVE FlowInv'
<1>1. StoreInv'
  BY ConsumeKeeps DEF CallbackRequest, FlowInv
<1>2. /\ DOMAIN entries' = DOMAIN entries \ {s}
      /\ \A t \in States \ {s} : accepted'[t] = accepted[t]
      /\ s \notin DOMAIN entries => accepted'[s] = accepted[s]
  BY DEF CallbackRequest, Consume, Without, FlowInv, StoreInv, PendingInv
<1>3. CASE LetThrough(s)
  <2>1. /\ handlerPc' = [handlerPc EXCEPT ![h] = "exchanging"]
        /\ carries' = [carries EXCEPT ![h] = s]
        /\ UNCHANGED <<outcome, handlerRecord>>
    BY <1>3 DEF CallbackRequest
  <2>2. s \in DOMAIN entries /\ accepted'[s] = 1
    BY <1>3, Fresh DEF CallbackRequest
  <2>3. \A g \in Callbacks : carries[g] # s
    BY <2>2, FlowAssumption DEF FlowInv, UsedUp
  <2>4. FlowShape' /\ WorksInv'
    BY <2>1 DEF FlowInv, FlowShape, WorksInv, H!LinkState, H!LinkEnded, H!LinkHolds
  <2>5. UsedUp'
    BY <1>2, <2>1, <2>2, <2>3 DEF FlowInv, FlowShape, UsedUp
  <2>6. OneCallbackPerLogin'
    BY <2>1, <2>3 DEF FlowInv, FlowShape, OneCallbackPerLogin
  <2> QED
    BY <1>1, <2>4, <2>5, <2>6 DEF FlowInv
<1>4. CASE ~LetThrough(s)
  <2>1. /\ UNCHANGED <<handlerPc, handlerRecord, carries>>
        /\ outcome' = [outcome EXCEPT ![s] = IF s \in DOMAIN entries THEN "failed" ELSE @]
    BY <1>4 DEF CallbackRequest
  <2>2. FlowShape' /\ WorksInv' /\ OneCallbackPerLogin'
    BY <2>1 DEF FlowInv, FlowShape, WorksInv, OneCallbackPerLogin, H!LinkEnded
  <2>3. UsedUp'
    BY <1>2, <2>1 DEF FlowInv, FlowShape, UsedUp
  <2> QED
    BY <1>1, <2>2, <2>3 DEF FlowInv
<1> QED
  BY <1>3, <1>4

(* What a step of a handler does to its own variables.                     *)
LEMMA HandlerShape ==
    ASSUME FlowInv, NEW h \in Callbacks, HandlerStep(h)
    PROVE  /\ carries[h] # NoState
           /\ handlerPc' = [handlerPc EXCEPT ![h] = handlerPc'[h]]
           /\ handlerPc'[h] \in H!LinkState \ {"issued"}
           /\ handlerRecord' = [handlerRecord EXCEPT ![h] = handlerRecord'[h]]
           /\ handlerPc'[h] \in H!LinkEnded => handlerRecord'[h] = NoRecord
<1> USE DEF H!LinkState, H!LinkEnded, H!LinkHolds, H!LinkTo, H!Respond
<1>1. carries[h] # NoState
  BY DEF HandlerStep, FlowInv, WorksInv, H!CodeExchanged, H!OwnerVerified, H!LinkStored,
         H!LatchCleared, H!CallbackFailed, H!CallbackDropped
<1>2. CASE H!CodeExchanged(h)
  BY <1>1, <1>2 DEF FlowInv, FlowShape, H!CodeExchanged
<1>3. CASE H!OwnerVerified(h)
  BY <1>1, <1>3, SameNoRecord DEF FlowInv, FlowShape, H!OwnerVerified
<1>4. CASE H!LinkStored(h) \/ H!LatchCleared(h)
  BY <1>1, <1>4, SameNoRecord DEF FlowInv, FlowShape, H!LinkStored, H!LatchCleared
<1>5. CASE H!CallbackFailed(h) \/ H!CallbackDropped(h)
  BY <1>1, <1>5, SameNoRecord DEF FlowInv, FlowShape, H!CallbackFailed, H!CallbackDropped
<1> QED
  BY <1>2, <1>3, <1>4, <1>5 DEF HandlerStep

LEMMA HandlerKeeps ==
    ASSUME FlowInv, NEW h \in Callbacks, HandlerStep(h) PROVE FlowInv'
<1>1. StoreInv' /\ UNCHANGED storeVars
  BY StoreStep DEF HandlerStep, FlowInv
<1>2. /\ handlerPc' = [handlerPc EXCEPT ![h] = handlerPc'[h]]
      /\ handlerPc'[h] \in H!LinkState \ {"issued"}
      /\ handlerRecord' = [handlerRecord EXCEPT ![h] = handlerRecord'[h]]
      /\ handlerPc'[h] \in H!LinkEnded => handlerRecord'[h] = NoRecord
      /\ carries[h] \in States
  BY HandlerShape DEF FlowInv, FlowShape
<1>3. \/ /\ handlerPc'[h] \in H!LinkEnded
         /\ outcome' = [outcome EXCEPT ![carries[h]] = handlerPc'[h]]
         /\ carries' = [carries EXCEPT ![h] = NoState]
      \/ /\ handlerPc'[h] \notin H!LinkEnded
         /\ UNCHANGED <<outcome, carries>>
  BY DEF HandlerStep
<1>4. FlowShape'
  BY <1>2, <1>3 DEF FlowInv, FlowShape
<1>5. WorksInv'
  BY <1>2, <1>3, HandlerShape DEF FlowInv, FlowShape, WorksInv
<1>6. UsedUp' /\ OneCallbackPerLogin'
  BY <1>1, <1>3 DEF FlowInv, FlowShape, UsedUp, OneCallbackPerLogin, storeVars
<1> QED
  BY <1>1, <1>4, <1>5, <1>6 DEF FlowInv

LEMMA RestartKeeps == ASSUME FlowInv, FlowRestart PROVE FlowInv'
<1>1. StoreInv'
  BY StoreStep DEF FlowRestart, FlowInv, StoreNext
<1>2. FlowShape' /\ WorksInv' /\ UsedUp' /\ OneCallbackPerLogin'
  BY DEF FlowRestart, FlowInv, FlowShape, WorksInv, UsedUp, OneCallbackPerLogin,
         H!LinkState, H!LinkEnded
<1> QED
  BY <1>1, <1>2 DEF FlowInv

LEMMA OutsideKeeps ==
    ASSUME FlowInv, StoreTick \/ UNCHANGED storeVars, UNCHANGED handlerVars PROVE FlowInv'
<1>1. StoreInv'
  BY StoreStep DEF FlowInv, StoreNext
<1>2. DOMAIN entries' = DOMAIN entries /\ accepted' = accepted
  BY DEF StoreTick, storeVars
<1> QED
  BY <1>1, <1>2 DEF FlowInv, FlowShape, WorksInv, UsedUp, OneCallbackPerLogin, handlerVars

LEMMA FlowStep == FlowInv /\ [FlowNext]_flowVars => FlowInv'
<1> SUFFICES ASSUME FlowInv, [FlowNext]_flowVars PROVE FlowInv'
  OBVIOUS
<1>1. CASE \E s \in States : LoginRequest(s)
  BY <1>1, LoginKeeps
<1>2. CASE \E h \in Callbacks, s \in States : CallbackRequest(h, s)
  BY <1>2, CallbackKeeps
<1>3. CASE \E h \in Callbacks : HandlerStep(h)
  BY <1>3, HandlerKeeps
<1>4. CASE FlowRestart
  BY <1>4, RestartKeeps
<1>5. CASE (StoreTick /\ UNCHANGED handlerVars) \/ UNCHANGED <<storeVars, handlerVars>>
  BY <1>5, OutsideKeeps
<1> QED
  BY <1>1, <1>2, <1>3, <1>4, <1>5 DEF FlowNext, flowVars

(* routes/auth.rs, callback: however often a browser repeats it, one       *)
(* handler at most is past the check of one state.                         *)
THEOREM OneHandler == FlowSpec => []OneCallbackPerLogin
<1>1. FlowInv => OneCallbackPerLogin
  BY DEF FlowInv
<1> QED
  BY <1>1, InitFlow, FlowStep, PTL DEF FlowSpec

(* StateStore::consume, under the handlers: each state lets one through.   *)
THEOREM FlowOnceOnly == FlowSpec => []SingleUse
BY FlowKeepsStore, OnceOnly, PTL

(* ... and none with a state that is foreign, or past its expiry.          *)
THEOREM FlowNothingLate == FlowSpec => NoneLate
BY FlowKeepsStore, NothingLate, PTL

-----------------------------------------------------------------------------
(* The refinement.  While a handler works on a state it is the attempt of  *)
(* that state; otherwise the attempt is in the map, or over.               *)

LEMMA WorkedNow ==
    ASSUME FlowInv, NEW h \in Callbacks, NEW s \in States, carries[h] = s
    PROVE  attemptPc[s] = handlerPc[h] /\ attemptRecord[s] = handlerRecord[h]
<1>1. Worked(s) /\ Worker(s) = h
  BY DEF Worked, Worker, FlowInv, FlowShape, OneCallbackPerLogin
<1> QED
  BY <1>1 DEF attemptPc, attemptRecord

LEMMA WorkedNext ==
    ASSUME FlowInv', NEW h \in Callbacks, NEW s \in States, carries'[h] = s
    PROVE  attemptPc'[s] = handlerPc'[h] /\ attemptRecord'[s] = handlerRecord'[h]
<1>1. Worked(s)' /\ Worker(s)' = h
  BY DEF Worked, Worker, FlowInv, FlowShape, OneCallbackPerLogin
<1> QED
  BY <1>1 DEF attemptPc, attemptRecord

LEMMA RestingNow ==
    ASSUME NEW s \in States, \A h \in Callbacks : carries[h] # s
    PROVE  /\ attemptPc[s] = IF s \in DOMAIN entries THEN "issued" ELSE outcome[s]
           /\ attemptRecord[s] = NoRecord
BY DEF attemptPc, attemptRecord, Worked

LEMMA RestingNext ==
    ASSUME NEW s \in States, \A h \in Callbacks : carries'[h] # s
    PROVE  /\ attemptPc'[s] = IF s \in DOMAIN entries' THEN "issued" ELSE outcome'[s]
           /\ attemptRecord'[s] = NoRecord
BY DEF attemptPc, attemptRecord, Worked

(* A state that a step leaves alone, with the handler that carries it.     *)
LEMMA AttemptKept ==
    ASSUME FlowInv, FlowInv', NEW s \in States,
           \A h \in Callbacks : carries'[h] = s <=> carries[h] = s,
           \A h \in Callbacks : carries[h] = s =>
               handlerPc'[h] = handlerPc[h] /\ handlerRecord'[h] = handlerRecord[h],
           s \in DOMAIN entries' <=> s \in DOMAIN entries, outcome'[s] = outcome[s]
    PROVE  attemptPc'[s] = attemptPc[s] /\ attemptRecord'[s] = attemptRecord[s]
<1>1. CASE \E h \in Callbacks : carries[h] = s
  <2>1. PICK h \in Callbacks : carries[h] = s
    BY <1>1
  <2> QED
    BY <2>1, WorkedNow, WorkedNext
<1>2. CASE ~\E h \in Callbacks : carries[h] = s
  BY <1>2, RestingNow, RestingNext
<1> QED
  BY <1>1, <1>2

LEMMA AttemptFunctions ==
    /\ attemptPc = [s \in States |-> attemptPc[s]]
    /\ attemptRecord = [s \in States |-> attemptRecord[s]]
    /\ attemptPc' = [s \in States |-> attemptPc'[s]]
    /\ attemptRecord' = [s \in States |-> attemptRecord'[s]]
BY DEF attemptPc, attemptRecord

(* So a step that touches one state alone changes one attempt alone.       *)
LEMMA OneAttempt ==
    ASSUME NEW s \in States,
           \A t \in States \ {s} :
               attemptPc'[t] = attemptPc[t] /\ attemptRecord'[t] = attemptRecord[t]
    PROVE  /\ attemptPc' = [attemptPc EXCEPT ![s] = attemptPc'[s]]
           /\ attemptRecord' = [attemptRecord EXCEPT ![s] = attemptRecord'[s]]
BY AttemptFunctions

LEMMA NoAttempt ==
    ASSUME \A t \in States :
               attemptPc'[t] = attemptPc[t] /\ attemptRecord'[t] = attemptRecord[t]
    PROVE  UNCHANGED <<attemptPc, attemptRecord>>
BY AttemptFunctions

LEMMA InitMaps == FlowInit => Lifecycle!Init
<1> SUFFICES ASSUME FlowInit PROVE Lifecycle!Init
  OBVIOUS
<1>1. \A h \in Callbacks, s \in States : carries[h] # s
  BY FlowAssumption DEF FlowInit
<1>2. attemptPc = [s \in States |-> "idle"] /\ attemptRecord = [s \in States |-> NoRecord]
  BY <1>1, RestingNow, AttemptFunctions DEF FlowInit, StoreInit
<1>3. Lifecycle!LinkInit
  BY <1>2 DEF Lifecycle!LinkInit, Lifecycle!NoRecord, NoRecord
<1>4. Lifecycle!CallerInit
  BY DEF FlowInit, CallerInit, Lifecycle!CallerInit, NoRecord, Lifecycle!NoRecord
<1>5. Lifecycle!StateInit
  BY DEF FlowInit, StateInit, Lifecycle!StateInit
<1> QED
  BY <1>3, <1>4, <1>5 DEF Lifecycle!Init

LEMMA LoginMaps ==
    ASSUME FlowInv, FlowInv', NEW s \in States, LoginRequest(s) PROVE Lifecycle!Login(s)
<1>1. /\ s \notin DOMAIN entries /\ DOMAIN entries' = DOMAIN entries \cup {s}
      /\ UNCHANGED <<carries, handlerPc, handlerRecord, outcome, stateVars, serverVars>>
  BY DEF LoginRequest, Issue, handlerVars, FlowInv, StoreInv, PendingInv
<1>2. \A h \in Callbacks : carries[h] # s
  BY <1>1, FlowAssumption DEF LoginRequest, Issue, FlowInv, UsedUp, StoreInv, PendingInv
<1>3. attemptPc[s] \in H!LinkEnded /\ attemptPc'[s] = "issued" /\ attemptRecord'[s] = NoRecord
  BY <1>1, <1>2, RestingNow, RestingNext DEF FlowInv, FlowShape
<1>4. /\ attemptPc' = [attemptPc EXCEPT ![s] = "issued"]
      /\ attemptRecord' = [attemptRecord EXCEPT ![s] = NoRecord]
  BY <1>1, <1>3, AttemptKept, OneAttempt
<1> QED
  BY <1>1, <1>3, <1>4
     DEF Lifecycle!Login, Lifecycle!Respond, Lifecycle!LinkTo, Lifecycle!LinkEnded, H!LinkEnded,
         Lifecycle!NoRecord, NoRecord, Lifecycle!stateVars, Lifecycle!serverVars, stateVars,
         serverVars

LEMMA CallbackMaps ==
    ASSUME FlowInv, FlowInv', NEW h \in Callbacks, NEW s \in States, CallbackRequest(h, s)
    PROVE  Lifecycle!BeginCallback(s) \/ UNCHANGED <<attemptPc, attemptRecord>>
<1>1. /\ DOMAIN entries' = DOMAIN entries \ {s}
      /\ UNCHANGED <<handlerRecord, stateVars, serverVars>>
      /\ carries[h] = NoState
  BY DEF CallbackRequest, Consume, Without
<1>2. CASE s \in DOMAIN entries
  <2>1. \A g \in Callbacks : carries[g] # s
    BY <1>2, FlowAssumption DEF FlowInv, UsedUp
  <2>2. attemptPc[s] = "issued" /\ attemptRecord[s] = NoRecord
    BY <1>2, <2>1, RestingNow
  <2>3. /\ attemptPc'[s] \in {"exchanging", "failed"} /\ attemptRecord'[s] = NoRecord
        /\ \A t \in States \ {s} : outcome'[t] = outcome[t]
        /\ \A g \in Callbacks \ {h} : carries'[g] = carries[g] /\ handlerPc'[g] = handlerPc[g]
        /\ carries'[h] \in {NoState, s}
    <3>1. CASE LetThrough(s)
      <4>1. carries'[h] = s /\ handlerPc'[h] = "exchanging" /\ handlerRecord'[h] = NoRecord
        BY <1>1, <3>1 DEF CallbackRequest, FlowInv, FlowShape, WorksInv
      <4>2. attemptPc'[s] = "exchanging" /\ attemptRecord'[s] = NoRecord
        BY <4>1, WorkedNext
      <4> QED
        BY <3>1, <4>1, <4>2 DEF CallbackRequest, FlowInv, FlowShape
    <3>2. CASE ~LetThrough(s)
      <4>1. UNCHANGED <<carries, handlerPc>> /\ outcome'[s] = "failed"
            /\ \A t \in States \ {s} : outcome'[t] = outcome[t]
        BY <1>2, <3>2 DEF CallbackRequest, FlowInv, FlowShape
      <4>2. attemptPc'[s] = "failed" /\ attemptRecord'[s] = NoRecord
        BY <1>1, <2>1, <4>1, RestingNext
      <4> QED
        BY <1>1, <4>1, <4>2
    <3> QED
      BY <3>1, <3>2
  <2>4. ASSUME NEW t \in States \ {s}
        PROVE  attemptPc'[t] = attemptPc[t] /\ attemptRecord'[t] = attemptRecord[t]
    BY <1>1, <2>3, AttemptKept, FlowAssumption
  <2>5. /\ attemptPc' = [attemptPc EXCEPT ![s] = attemptPc'[s]]
        /\ attemptRecord' = [attemptRecord EXCEPT ![s] = attemptRecord'[s]]
    BY <2>4, OneAttempt
  <2>6. attemptRecord' = attemptRecord
    BY <2>2, <2>3, <2>5, AttemptFunctions
  <2> QED
    BY <1>1, <2>2, <2>3, <2>5, <2>6
       DEF Lifecycle!BeginCallback, Lifecycle!LinkTo, Lifecycle!stateVars, Lifecycle!serverVars,
           stateVars, serverVars
<1>3. CASE s \notin DOMAIN entries
  <2>1. UNCHANGED <<handlerPc, carries, outcome>> /\ DOMAIN entries' = DOMAIN entries
    <3>1. ~LetThrough(s)
      BY <1>3, Fresh DEF CallbackRequest
    <3> QED
      BY <1>1, <1>3, <3>1 DEF CallbackRequest, FlowInv, FlowShape
  <2> QED
    BY <1>1, <2>1, AttemptKept, NoAttempt
<1> QED
  BY <1>2, <1>3

(* A step of a handler is the same step of the attempt it works on.        *)
LEMMA HandlerAttempt ==
    ASSUME FlowInv, FlowInv', NEW h \in Callbacks, HandlerStep(h)
    PROVE  /\ carries[h] \in States
           /\ attemptPc[carries[h]] = handlerPc[h]
           /\ attemptRecord[carries[h]] = handlerRecord[h]
           /\ attemptPc' = [attemptPc EXCEPT ![carries[h]] = handlerPc'[h]]
           /\ attemptRecord' = [attemptRecord EXCEPT ![carries[h]] = handlerRecord'[h]]
<1> DEFINE s == carries[h]
<1>1. s \in States
  BY HandlerShape DEF FlowInv, FlowShape
<1>2. attemptPc[s] = handlerPc[h] /\ attemptRecord[s] = handlerRecord[h]
  BY <1>1, WorkedNow
<1>3. s \notin DOMAIN entries' /\ UNCHANGED entries
  BY <1>1, FlowAssumption DEF HandlerStep, storeVars, FlowInv, UsedUp
<1>4. \A g \in Callbacks \ {h} : /\ carries[g] # s /\ carries'[g] = carries[g]
                                 /\ handlerPc'[g] = handlerPc[g]
                                 /\ handlerRecord'[g] = handlerRecord[g]
  BY <1>1, HandlerShape, FlowAssumption DEF HandlerStep, FlowInv, FlowShape, OneCallbackPerLogin
<1>5. attemptPc'[s] = handlerPc'[h] /\ attemptRecord'[s] = handlerRecord'[h]
  <2>1. CASE handlerPc'[h] \in H!LinkEnded
    <3>1. carries'[h] = NoState /\ outcome'[s] = handlerPc'[h] /\ handlerRecord'[h] = NoRecord
      BY <1>1, <2>1, HandlerShape DEF HandlerStep, FlowInv, FlowShape
    <3>2. \A g \in Callbacks : carries'[g] # s
      BY <1>1, <1>4, <3>1, FlowAssumption
    <3> QED
      BY <1>1, <1>3, <3>1, <3>2, RestingNext
  <2>2. CASE handlerPc'[h] \notin H!LinkEnded
    <3>1. carries'[h] = s
      BY <2>2 DEF HandlerStep
    <3> QED
      BY <1>1, <3>1, WorkedNext
  <2> QED
    BY <2>1, <2>2
<1>6. ASSUME NEW t \in States \ {s}
      PROVE  attemptPc'[t] = attemptPc[t] /\ attemptRecord'[t] = attemptRecord[t]
  <2>1. carries'[h] \in {s, NoState} /\ outcome'[t] = outcome[t]
    BY <1>1, <1>6 DEF HandlerStep, FlowInv, FlowShape
  <2> QED
    BY <1>3, <1>4, <1>6, <2>1, AttemptKept, FlowAssumption
<1>7. /\ attemptPc' = [attemptPc EXCEPT ![s] = attemptPc'[s]]
      /\ attemptRecord' = [attemptRecord EXCEPT ![s] = attemptRecord'[s]]
  BY <1>1, <1>6, OneAttempt
<1> QED
  BY <1>1, <1>2, <1>5, <1>7

LEMMA HandlerMaps ==
    ASSUME FlowInv, FlowInv', NEW h \in Callbacks, HandlerStep(h)
    PROVE  Lifecycle!LinkStep(carries[h])
<1> DEFINE s == carries[h]
<1> USE DEF H!LinkHolds, H!stateVars, H!serverVars, H!MintAccess, Lifecycle!LinkHolds,
            Lifecycle!stateVars, Lifecycle!serverVars, Lifecycle!MintAccess
<1>1. /\ s \in States /\ attemptPc[s] = handlerPc[h] /\ attemptRecord[s] = handlerRecord[h]
      /\ attemptPc' = [attemptPc EXCEPT ![s] = handlerPc'[h]]
      /\ attemptRecord' = [attemptRecord EXCEPT ![s] = handlerRecord'[h]]
  BY HandlerAttempt
<1>2. /\ handlerPc = [g \in Callbacks |-> handlerPc[g]]
      /\ handlerRecord = [g \in Callbacks |-> handlerRecord[g]]
  BY DEF FlowInv, FlowShape
<1>3. ASSUME NEW label, H!LinkTo(h, label) PROVE Lifecycle!LinkTo(s, label)
  BY <1>1, <1>2, <1>3 DEF H!LinkTo, Lifecycle!LinkTo
<1>4. ASSUME NEW r, handlerRecord' = [handlerRecord EXCEPT ![h] = r]
      PROVE  attemptRecord' = [attemptRecord EXCEPT ![s] = r]
  BY <1>1, <1>2, <1>4
<1>5. ASSUME NEW label, H!Respond(h, label) PROVE Lifecycle!Respond(s, label)
  BY <1>3, <1>4, <1>5 DEF H!Respond, Lifecycle!Respond, H!NoRecord, Lifecycle!NoRecord
<1>6. ASSUME UNCHANGED handlerRecord PROVE UNCHANGED attemptRecord
  BY <1>1, <1>6, AttemptFunctions
<1>7. CASE H!CodeExchanged(h)
  <2>1. PICK refresh \in {0, issued + 1} :
          /\ liveRefresh' = liveRefresh \cup ({refresh} \ {0})
          /\ spoiled' = spoiled \cup ({refresh} \cap {0})
          /\ handlerRecord' = [handlerRecord EXCEPT ![h] =
               [access |-> issued + 1, refresh |-> refresh, grant |-> grants + 1]]
    BY <1>7 DEF H!CodeExchanged
  <2>2. attemptRecord' = [attemptRecord EXCEPT ![s] =
          [access |-> issued + 1, refresh |-> refresh, grant |-> grants + 1]]
    BY <1>4, <2>1
  <2>3. Lifecycle!CodeExchanged(s)
    BY <1>1, <1>3, <1>7, <2>1, <2>2 DEF H!CodeExchanged, Lifecycle!CodeExchanged
  <2> QED
    BY <2>3 DEF Lifecycle!LinkStep
<1>8. CASE H!OwnerVerified(h)
  BY <1>1, <1>3, <1>5, <1>6, <1>8
     DEF H!OwnerVerified, Lifecycle!OwnerVerified, Lifecycle!LinkStep
<1>9. CASE H!LinkStored(h)
  BY <1>1, <1>5, <1>9 DEF H!LinkStored, Lifecycle!LinkStored, Lifecycle!LinkStep
<1>10. CASE H!LatchCleared(h)
  BY <1>1, <1>5, <1>10 DEF H!LatchCleared, Lifecycle!LatchCleared, Lifecycle!LinkStep
<1>11. CASE H!CallbackFailed(h)
  BY <1>1, <1>5, <1>11 DEF H!CallbackFailed, Lifecycle!CallbackFailed, Lifecycle!LinkStep
<1>12. CASE H!CallbackDropped(h)
  BY <1>1, <1>5, <1>12 DEF H!CallbackDropped, Lifecycle!CallbackDropped, Lifecycle!LinkStep
<1> QED
  BY <1>7, <1>8, <1>9, <1>10, <1>11, <1>12 DEF HandlerStep

LEMMA RestartMaps == ASSUME FlowRestart PROVE Lifecycle!Restart
<1>1. \A h \in Callbacks, s \in States : carries'[h] # s
  BY FlowAssumption DEF FlowRestart
<1>2. attemptPc' = [s \in States |-> "idle"] /\ attemptRecord' = [s \in States |-> NoRecord]
  BY <1>1, RestingNext, AttemptFunctions DEF FlowRestart, StoreRestart
<1> QED
  BY <1>2 DEF FlowRestart, Lifecycle!Restart, NoRecord, Lifecycle!NoRecord

LEMMA OutsideMaps ==
    ASSUME FlowInv, FlowInv', UNCHANGED handlerVars,
           DOMAIN entries' = DOMAIN entries
    PROVE  UNCHANGED <<attemptPc, attemptRecord>>
BY AttemptKept, NoAttempt DEF handlerVars

LEMMA ServerMaps ==
    ASSUME ServerStep PROVE Lifecycle!ServerStep
BY DEF ServerStep, AccessExpires, GrantRevoked, stateVars, Lifecycle!ServerStep,
       Lifecycle!AccessExpires, Lifecycle!GrantRevoked, Lifecycle!stateVars

(* The callers of get are the same on both sides.                          *)
LEMMA CallerMaps ==
    ASSUME NEW c \in Callers, CallerStep(c) PROVE Lifecycle!CallerStep(c)
<1> USE DEF GoTo, Return, Release, NoRecord, Finished, Outcomes, Orphan, MintAccess,
            stateVars, serverVars, Lifecycle!GoTo, Lifecycle!Return, Lifecycle!Release,
            Lifecycle!NoRecord, Lifecycle!Finished, Lifecycle!Outcomes, Lifecycle!Orphan,
            Lifecycle!MintAccess, Lifecycle!stateVars, Lifecycle!serverVars
<1>1. Get(c) => Lifecycle!Get(c)
  BY DEF Get, Lifecycle!Get
<1>2. EnterCritical(c) => Lifecycle!EnterCritical(c)
  BY DEF EnterCritical, Lifecycle!EnterCritical
<1>3. FirstCall(c) => Lifecycle!FirstCall(c)
  BY DEF FirstCall, Lifecycle!FirstCall
<1>4. Reread(c) => Lifecycle!Reread(c)
  BY DEF Reread, Lifecycle!Reread
<1>5. RefreshGranted(c) => Lifecycle!RefreshGranted(c)
  BY DEF RefreshGranted, Lifecycle!RefreshGranted
<1>6. RefreshRejected(c) => Lifecycle!RefreshRejected(c)
  BY DEF RefreshRejected, Lifecycle!RefreshRejected
<1>7. RefreshFailed(c) => Lifecycle!RefreshFailed(c)
  BY DEF RefreshFailed, Lifecycle!RefreshFailed
<1>8. StoreRefreshed(c) => Lifecycle!StoreRefreshed(c)
  BY DEF StoreRefreshed, Lifecycle!StoreRefreshed
<1>9. RefreshLost(c) => Lifecycle!RefreshLost(c)
  BY DEF RefreshLost, Lifecycle!RefreshLost
<1>10. RetryCall(c) => Lifecycle!RetryCall(c)
  BY DEF RetryCall, Lifecycle!RetryCall
<1>11. Cancel(c) => Lifecycle!Cancel(c)
  BY DEF Cancel, Lifecycle!Cancel
<1>12. Resume(c) => Lifecycle!Resume(c)
  BY <1>3, <1>4, <1>5, <1>6, <1>7, <1>8, <1>9, <1>10 DEF Resume, Lifecycle!Resume
<1> QED
  BY <1>1, <1>2, <1>11, <1>12 DEF CallerStep, Lifecycle!CallerStep

LEMMA FlowMaps ==
    ASSUME FlowInv, FlowInv', [FlowNext]_flowVars PROVE [Lifecycle!Next]_(Lifecycle!vars)
<1> USE DEF callerVars, Lifecycle!callerVars
<1>1. CASE \E s \in States : LoginRequest(s)
  BY <1>1, LoginMaps DEF LoginRequest, Lifecycle!Next, Lifecycle!LinkStep
<1>2. CASE \E h \in Callbacks, s \in States : CallbackRequest(h, s)
  <2>1. UNCHANGED <<stateVars, serverVars, callerVars>>
    BY <1>2 DEF CallbackRequest
  <2> QED
    BY <1>2, <2>1, CallbackMaps
       DEF Lifecycle!Next, Lifecycle!LinkStep, Lifecycle!vars, Lifecycle!linkVars,
           Lifecycle!stateVars, Lifecycle!serverVars, stateVars, serverVars
<1>3. CASE \E h \in Callbacks : HandlerStep(h)
  <2>1. UNCHANGED callerVars
    BY <1>3 DEF HandlerStep
  <2> QED
    BY <1>3, <2>1, HandlerMaps, HandlerAttempt DEF Lifecycle!Next
<1>4. CASE FlowRestart
  BY <1>4, RestartMaps DEF Lifecycle!Next
<1>5. CASE (\E c \in Callers : CallerStep(c)) /\ UNCHANGED <<storeVars, handlerVars>>
  <2>1. UNCHANGED <<attemptPc, attemptRecord>>
    BY <1>5, OutsideMaps DEF storeVars
  <2>2. \E c \in Callers : Lifecycle!CallerStep(c)
    BY <1>5, CallerMaps
  <2> QED
    BY <2>1, <2>2 DEF Lifecycle!Next, Lifecycle!linkVars
<1>6. CASE StoreTick /\ UNCHANGED <<stateVars, serverVars, callerVars, handlerVars>>
  <2>1. UNCHANGED <<attemptPc, attemptRecord>>
    BY <1>6, OutsideMaps DEF StoreTick
  <2> QED
    BY <1>6, <2>1
       DEF Lifecycle!vars, Lifecycle!linkVars, Lifecycle!stateVars, Lifecycle!serverVars,
           stateVars, serverVars
<1>7. CASE ServerStep /\ UNCHANGED <<callerVars, storeVars, handlerVars>>
  <2>1. UNCHANGED <<attemptPc, attemptRecord>>
    BY <1>7, OutsideMaps DEF storeVars
  <2> QED
    BY <1>7, <2>1, ServerMaps DEF Lifecycle!Next, Lifecycle!linkVars
<1>8. CASE UNCHANGED flowVars
  <2>1. UNCHANGED <<attemptPc, attemptRecord>>
    BY <1>8, OutsideMaps DEF flowVars, storeVars
  <2> QED
    BY <1>8, <2>1
       DEF flowVars, Lifecycle!vars, Lifecycle!linkVars, Lifecycle!stateVars,
           Lifecycle!serverVars, stateVars, serverVars
<1> QED
  BY <1>1, <1>2, <1>3, <1>4, <1>5, <1>6, <1>7, <1>8 DEF FlowNext

(* login, callback and the state store do what TokenLifecycle has its link *)
(* attempts do: what is proved there of attempts holds of real requests.   *)
THEOREM FlowRefinement == FlowSpec => ImplementsLifecycle
<1>1. FlowInv /\ FlowInv' /\ [FlowNext]_flowVars => [Lifecycle!Next]_(Lifecycle!vars)
  BY FlowMaps
<1> QED
  BY <1>1, InitFlow, InitMaps, FlowStep, PTL DEF FlowSpec, ImplementsLifecycle, Lifecycle!Spec

-----------------------------------------------------------------------------
(* The theorems about TokenLifecycle, of the flow.  Its variables cbPc and *)
(* cbRecord, which the flow does not have, stand for the attempts derived  *)
(* from its own, and Links for the states: they restrict no behaviour.     *)
Tracked == cbPc = attemptPc /\ cbRecord = attemptRecord

LEMMA LinkTracked ==
    ASSUME Tracked, Tracked', NEW s \in States, Lifecycle!LinkStep(s) PROVE LinkStep(s)
<1> USE DEF Tracked, LinkTo, Respond, LinkEnded, LinkHolds, NoRecord, MintAccess, stateVars,
            serverVars, Lifecycle!LinkTo, Lifecycle!Respond, Lifecycle!LinkEnded,
            Lifecycle!LinkHolds, Lifecycle!NoRecord, Lifecycle!MintAccess,
            Lifecycle!stateVars, Lifecycle!serverVars
<1>1. Lifecycle!Login(s) => Login(s)
  BY DEF Login, Lifecycle!Login
<1>2. Lifecycle!BeginCallback(s) => BeginCallback(s)
  BY DEF BeginCallback, Lifecycle!BeginCallback
<1>3. Lifecycle!CodeExchanged(s) => CodeExchanged(s)
  BY DEF CodeExchanged, Lifecycle!CodeExchanged
<1>4. Lifecycle!OwnerVerified(s) => OwnerVerified(s)
  BY DEF OwnerVerified, Lifecycle!OwnerVerified
<1>5. Lifecycle!LinkStored(s) => LinkStored(s)
  BY DEF LinkStored, Lifecycle!LinkStored
<1>6. Lifecycle!LatchCleared(s) => LatchCleared(s)
  BY DEF LatchCleared, Lifecycle!LatchCleared
<1>7. Lifecycle!CallbackFailed(s) => CallbackFailed(s)
  BY DEF CallbackFailed, Lifecycle!CallbackFailed
<1>8. Lifecycle!CallbackDropped(s) => CallbackDropped(s)
  BY DEF CallbackDropped, Lifecycle!CallbackDropped
<1> QED
  BY <1>1, <1>2, <1>3, <1>4, <1>5, <1>6, <1>7, <1>8 DEF LinkStep, Lifecycle!LinkStep

LEMMA StepTracked ==
    ASSUME Links = States, Tracked, Tracked', FlowInv, FlowInv', [FlowNext]_flowVars
    PROVE  [Next]_vars
<1> USE DEF Tracked, linkVars
<1>1. CASE \E s \in States : LoginRequest(s)
  <2>1. PICK s \in States : LoginRequest(s)
    BY <1>1
  <2>2. LinkStep(s)
    BY <2>1, LoginMaps, LinkTracked DEF Lifecycle!LinkStep
  <2> QED
    BY <2>1, <2>2 DEF LoginRequest, Next
<1>2. CASE \E h \in Callbacks, s \in States : CallbackRequest(h, s)
  <2>1. PICK h \in Callbacks, s \in States : CallbackRequest(h, s)
    BY <1>2
  <2>2. UNCHANGED <<stateVars, serverVars, callerVars>>
    BY <2>1 DEF CallbackRequest
  <2>3. LinkStep(s) \/ UNCHANGED <<attemptPc, attemptRecord>>
    BY <2>1, CallbackMaps, LinkTracked DEF Lifecycle!LinkStep
  <2> QED
    BY <2>2, <2>3 DEF Next, vars
<1>3. CASE \E h \in Callbacks : HandlerStep(h)
  <2>1. PICK h \in Callbacks : HandlerStep(h)
    BY <1>3
  <2>2. carries[h] \in Links /\ LinkStep(carries[h])
    BY <2>1, HandlerAttempt, HandlerMaps, LinkTracked
  <2> QED
    BY <2>1, <2>2 DEF HandlerStep, Next
<1>4. CASE FlowRestart
  <2>1. Lifecycle!Restart
    BY <1>4, RestartMaps
  <2>2. Restart
    BY <2>1 DEF Restart, Lifecycle!Restart, NoRecord, Lifecycle!NoRecord
  <2> QED
    BY <2>2 DEF Next
<1> DEFINE Beside ==
      /\ UNCHANGED handlerVars /\ DOMAIN entries' = DOMAIN entries
      /\ \/ \E c \in Callers : CallerStep(c)
         \/ ServerStep /\ UNCHANGED callerVars
         \/ UNCHANGED <<stateVars, serverVars, callerVars>>
<1>5. CASE Beside
  <2>1. UNCHANGED linkVars
    BY <1>5, OutsideMaps
  <2> QED
    BY <1>5, <2>1 DEF Next, vars
<1>6. \/ \E s \in States : LoginRequest(s)
      \/ \E h \in Callbacks, s \in States : CallbackRequest(h, s)
      \/ \E h \in Callbacks : HandlerStep(h)
      \/ FlowRestart
      \/ Beside
  BY DEF FlowNext, StoreTick, storeVars, flowVars
<1> QED
  BY <1>1, <1>2, <1>3, <1>4, <1>5, <1>6

LEMMA FlowTracked == ASSUME Links = States PROVE FlowSpec /\ []Tracked => Spec
<1>1. FlowInit /\ Tracked => Init
  <2> SUFFICES ASSUME FlowInit, Tracked PROVE Init
    OBVIOUS
  <2>1. Lifecycle!LinkInit
    BY InitMaps DEF Lifecycle!Init
  <2> QED
    BY <2>1 DEF Lifecycle!LinkInit, LinkInit, Init, FlowInit, Tracked, NoRecord,
                Lifecycle!NoRecord
<1>2. Tracked /\ Tracked' /\ FlowInv /\ FlowInv' /\ [FlowNext]_flowVars => [Next]_vars
  BY StepTracked
<1> QED
  BY <1>1, <1>2, InitFlow, FlowStep, PTL DEF FlowSpec, Spec

(* routes/auth.rs and spotify_service.rs together, for any callers, logins *)
(* and handlers: while the flag is up nobody POSTs a refresh token.        *)
THEOREM FlowLatchStops ==
    ASSUME Links = States PROVE FlowSpec /\ []Tracked => []NoFlightWhileLatched
BY FlowTracked, LatchStopsFlights, PTL

(* ... the flag goes up only for a token that died outside the service's   *)
(* control, whichever callbacks are repeated, late or run at once.         *)
THEOREM FlowWarrantedLatch ==
    ASSUME Links = States PROVE FlowSpec /\ []Tracked => LatchIsWarranted
BY FlowTracked, WarrantedLatch, PTL

(* ... it blames the stored record, unless a re-link came in between.      *)
THEOREM FlowBlamedRecord ==
    ASSUME Links = States PROVE FlowSpec /\ []Tracked => BlamesStoredUnlessRelinked
BY FlowTracked, BlamedRecord, PTL

(* ... and rows of one authorization are stored in the order of issue.     *)
THEOREM FlowStoredForward ==
    ASSUME Links = States PROVE FlowSpec /\ []Tracked => WithinGrantForward
BY FlowTracked, StoredForward, PTL

(* From the browser's request to the row of the tokens table: the service  *)
(* does one refresh at a time, from the record that is stored.             *)
THEOREM FlowRefreshes ==
    ASSUME Links = States PROVE FlowSpec /\ []Tracked => ImplementsRefreshCell
BY FlowTracked, Refinement, PTL
=============================================================================
