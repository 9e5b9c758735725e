---------------------------- MODULE StateStoreProofs ----------------------------
(***************************************************************************)
(* The CSRF states, for any set of them, any Ttl and any history of        *)
(* callbacks, repeats, restarts and waits.                                 *)
(***************************************************************************)
EXTENDS StateStore, TLAPS

StoreInv == PendingInv /\ SingleUse

LEMMA InitStore == StoreInit => StoreInv
<1> SUFFICES ASSUME StoreInit PROVE StoreInv
  OBVIOUS
<1> USE TtlAssumption DEF StoreInit
<1>1. \A s \in States : accepted[s] = 0
  OBVIOUS
<1>2. age \in [States -> 0..Forget] /\ accepted \in [States -> Nat]
  OBVIOUS
<1>3. DOMAIN entries = {} /\ drawn = {}
  OBVIOUS
<1> QED
  BY <1>1, <1>2, <1>3 DEF StoreInv, PendingInv, SingleUse

LEMMA IssueKeeps == ASSUME StoreInv, NEW s \in States, Issue(s) PROVE StoreInv'
<1> USE TtlAssumption
<1>1. /\ s \notin drawn /\ drawn' = drawn \cup {s} /\ accepted' = accepted
      /\ age' = [age EXCEPT ![s] = 0]
      /\ DOMAIN entries' = DOMAIN entries \cup {s}
      /\ entries'[s] = Ttl
      /\ \A t \in DOMAIN entries : t # s => entries'[t] = entries[t]
  BY DEF Issue
<1>2. age' \in [States -> 0..Forget] /\ age'[s] = 0
      /\ \A t \in States : t # s => age'[t] = age[t]
  BY <1>1 DEF StoreInv, PendingInv
<1>3. \A t \in DOMAIN entries' : entries'[t] = Ttl - age'[t]
  BY <1>1, <1>2 DEF StoreInv, PendingInv
<1>4. \A t \in DOMAIN entries' : accepted'[t] = 0
  BY <1>1 DEF StoreInv, PendingInv
<1> QED
  BY <1>1, <1>2, <1>3, <1>4 DEF StoreInv, PendingInv, SingleUse

(* The entry goes with the callback that finds it, whatever the outcome.   *)
LEMMA ConsumeKeeps == ASSUME StoreInv, NEW s \in States, Consume(s) PROVE StoreInv'
<1>1. /\ drawn' = drawn /\ age' = age
      /\ DOMAIN entries' = DOMAIN entries \ {s}
      /\ \A t \in DOMAIN entries' : entries'[t] = entries[t]
  BY DEF Consume, Without
<1>2. /\ accepted' \in [States -> Nat]
      /\ \A t \in States : t # s => accepted'[t] = accepted[t]
      /\ s \in DOMAIN entries => accepted'[s] \in {0, 1}
      /\ s \notin DOMAIN entries => accepted'[s] = accepted[s]
  BY DEF Consume, StoreInv, PendingInv
<1>3. \A t \in States \ drawn' : accepted'[t] = 0
  BY <1>1, <1>2 DEF StoreInv, PendingInv
<1>4. SingleUse'
  BY <1>2 DEF StoreInv, SingleUse
<1> QED
  BY <1>1, <1>2, <1>3, <1>4 DEF StoreInv, PendingInv

LEMMA TickKeeps == ASSUME StoreInv, StoreTick PROVE StoreInv'
<1> USE TtlAssumption
<1>1. /\ drawn' = drawn /\ accepted' = accepted
      /\ DOMAIN entries' = DOMAIN entries
      /\ \A t \in DOMAIN entries :
           entries'[t] = IF entries[t] > Ttl - Forget THEN entries[t] - 1 ELSE entries[t]
      /\ \A t \in States :
           age'[t] = IF t \in drawn /\ age[t] < Forget THEN age[t] + 1 ELSE age[t]
  BY DEF StoreTick
<1>2. age' \in [States -> 0..Forget]
  <2>1. \A t \in States : age[t] \in 0..Forget
    BY DEF StoreInv, PendingInv
  <2> QED
    BY <2>1 DEF StoreTick
<1>3. ASSUME NEW t \in DOMAIN entries PROVE entries'[t] = Ttl - age'[t]
  <2>1. t \in drawn /\ t \in States /\ age[t] \in 0..Forget /\ entries[t] = Ttl - age[t]
    BY DEF StoreInv, PendingInv
  <2>2. entries[t] > Ttl - Forget <=> age[t] < Forget
    BY <2>1
  <2>3. CASE age[t] < Forget
    <3>1. entries'[t] = entries[t] - 1 /\ age'[t] = age[t] + 1
      BY <1>1, <2>1, <2>2, <2>3
    <3> QED
      BY <2>1, <3>1
  <2>4. CASE ~(age[t] < Forget)
    BY <1>1, <2>1, <2>2, <2>4
  <2> QED
    BY <2>3, <2>4
<1> QED
  BY <1>1, <1>2, <1>3 DEF StoreInv, PendingInv, SingleUse

LEMMA StoreStep == StoreInv /\ [StoreNext]_storeVars => StoreInv'
<1> SUFFICES ASSUME StoreInv, [StoreNext]_storeVars PROVE StoreInv'
  OBVIOUS
<1>1. CASE \E s \in States : Issue(s) \/ Consume(s)
  BY <1>1, IssueKeeps, ConsumeKeeps
<1>2. CASE StoreRestart
  BY <1>2 DEF StoreRestart, StoreInv, PendingInv, SingleUse
<1>3. CASE StoreTick
  BY <1>3, TickKeeps
<1>4. CASE UNCHANGED storeVars
  BY <1>4 DEF storeVars, StoreInv, PendingInv, SingleUse
<1> QED
  BY <1>1, <1>2, <1>3, <1>4 DEF StoreNext

(* StateStore::consume lets each issued state through once at most, also   *)
(* when callbacks with it repeat before, across and after a restart.       *)
THEOREM OnceOnly == StoreSpec => []SingleUse
<1>1. StoreInv => SingleUse
  BY DEF StoreInv
<1> QED
  BY <1>1, InitStore, StoreStep, PTL DEF StoreSpec

(* StateStore::consume lets nothing through that issue() did not hand out, *)
(* nor anything at Ttl or later.                                           *)
THEOREM NothingLate == StoreSpec => NoneLate
<1>1. ASSUME StoreInv, [StoreNext]_storeVars, NEW s \in States, accepted'[s] > accepted[s]
      PROVE  s \in drawn /\ age[s] < Ttl
  <2>1. accepted[s] \in Nat /\ accepted'[s] # accepted[s]
    BY <1>1 DEF StoreInv, PendingInv
  <2>2. PICK t \in States : Consume(t)
    BY <1>1, <2>1 DEF StoreNext, Issue, StoreRestart, StoreTick, storeVars
  <2>3. t = s /\ s \in DOMAIN entries /\ entries[s] > 0
    BY <1>1, <2>1, <2>2 DEF Consume, StoreInv, PendingInv
  <2>4. s \in drawn /\ entries[s] = Ttl - age[s] /\ age[s] \in Nat
    BY <1>1, <2>3 DEF StoreInv, PendingInv
  <2>5. age[s] < Ttl
    BY <2>3, <2>4, TtlAssumption
  <2> QED
    BY <2>4, <2>5
<1>2. StoreInv /\ [StoreNext]_storeVars =>
        [\A s \in States : accepted'[s] > accepted[s] => s \in drawn /\ age[s] < Ttl]_storeVars
  BY <1>1
<1> QED
  BY <1>2, InitStore, StoreStep, PTL DEF StoreSpec, NoneLate

(* What StateStore's map holds: only issued states, none of them used, and *)
(* each with what is left of its Ttl.                                      *)
THEOREM PendingInvariance == StoreSpec => []PendingInv
<1>1. StoreInv => PendingInv
  BY DEF StoreInv
<1> QED
  BY <1>1, InitStore, StoreStep, PTL DEF StoreSpec
=============================================================================
