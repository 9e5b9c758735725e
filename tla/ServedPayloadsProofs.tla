-------------------------- MODULE ServedPayloadsProofs --------------------------
(***************************************************************************)
(* Requests that find their cell filled, for any endpoints, requests and   *)
(* owner's refreshes.  A request marked late is at the reauth gate or the  *)
(* look-up, and the cell it asks for is filled: no step of DataPlane       *)
(* empties a cell, so the look-up answers it.                              *)
(***************************************************************************)
EXTENDS ServedPayloads, DataPlaneProofs

ServedInv == PlaneInv /\ ServedTypeOK /\ ServedFromCell

LEMMA InitServed == ServedInit => ServedInv
<1> SUFFICES ASSUME ServedInit PROVE ServedInv
  OBVIOUS
<1>1. PlaneInv
  BY InitPlane DEF ServedInit
<1>2. ServedTypeOK /\ ServedFromCell
  BY DEF ServedInit, ServedTypeOK, ServedFromCell
<1> QED
  BY <1>1, <1>2 DEF ServedInv

(* What a request leaves behind in wrong and late is of their types.       *)
LEMMA LetGoTypes ==
    ASSUME ServedTypeOK, NEW t \in Tasks, LetGo(t)
    PROVE  /\ wrong' \in [Tasks -> SUBSET ProfileCounts]
           /\ late' \in [Visitors -> BOOLEAN]
BY DEF ServedTypeOK, LetGo

(* Every step is one of DataPlane's, or takes none.                        *)
LEMMA ServedIsPlane ==
    ASSUME [ServedNext]_servedVars PROVE [Next]_planeVars
BY DEF ServedNext, ServedProgress, MeAnswered, FollowingAnswered, TallyAnswered, MeFailed,
       Stored, LoopStep, ServeStep, HangUp, Arrive, OwnerRefresh, SpotifyMoves, Around, servedVars,
       Next, Progress, Fetch

LEMMA ServedTypes ==
    ASSUME ServedInv, [ServedNext]_servedVars PROVE ServedTypeOK'
<1> USE DEF ServedInv
<1>1. CASE \E t \in Tasks : MeAnswered(t) \/ (t \in Kinds /\ LoopStep(t))
  BY <1>1 DEF MeAnswered, LoopStep, ServedTypeOK
<1>2. ASSUME NEW t \in Tasks, NEW count \in ProfileCounts,
             NEW others \in SUBSET ProfileCounts, TotalOrZero(t, count, others)
      PROVE  ServedTypeOK'
  BY <1>2 DEF TotalOrZero, ServedTypeOK
<1>3. CASE \E t \in Tasks : FollowingAnswered(t) \/ TallyAnswered(t)
  <2>1. OldCount \in SUBSET ProfileCounts /\ {} \in SUBSET ProfileCounts
    BY DEF OldCount, ProfileCounts
  <2> QED
    BY <1>2, <1>3, <2>1 DEF FollowingAnswered, TallyAnswered, ProfileCounts
<1>4. CASE \E t \in Tasks : MeFailed(t) \/ HangUp(t)
  BY <1>4, LetGoTypes DEF MeFailed, HangUp, ServedTypeOK
<1>5. CASE \E t \in Tasks : Stored(t)
  <2>1. PICK t \in Tasks : Stored(t)
    BY <1>5
  <2>2. cellWrong' \in SUBSET ProfileCounts
    BY <2>1 DEF Stored, ServedTypeOK
  <2> QED
    BY <2>1, <2>2, LetGoTypes DEF Stored, ServedTypeOK
<1>6. CASE \E t \in Visitors : ServeStep(t)
  BY <1>6, LetGoTypes, TaskFacts DEF ServeStep, ServedTypeOK
<1>7. CASE \E v \in Visitors, k \in Kinds : Arrive(v, k)
  BY <1>7 DEF Arrive, ServedTypeOK
<1>8. CASE (\E a \in Admins, k \in Kinds : OwnerRefresh(a, k)) \/ Around
  BY <1>8 DEF OwnerRefresh, Around, ServedTypeOK
<1>9. CASE SpotifyMoves
  BY <1>9 DEF SpotifyMoves, Taken, ProfileCounts, ServedTypeOK
<1>10. CASE UNCHANGED servedVars
  BY <1>10 DEF servedVars, ServedTypeOK
<1> QED
  BY <1>1, <1>3, <1>4, <1>5, <1>6, <1>7, <1>8, <1>9, <1>10 DEF ServedNext, ServedProgress

(* A request that stays where it is stays late only if it was.             *)
LEMMA Undisturbed ==
    ASSUME ServedInv, [Next]_planeVars, NEW v \in Visitors, late'[v] => late[v],
           late[v] => pc'[v] = pc[v] /\ doing'[v] = doing[v]
    PROVE  late'[v] => pc'[v] \in {"reauth_gate", "lookup"} /\ snapshot'[doing'[v]] # None
<1>1. doing[v] \in Kinds
  BY TaskFacts DEF ServedInv, PlaneInv, TypeOK
<1> QED
  BY <1>1, FilledStays DEF ServedInv, ServedFromCell

LEMMA ServedStep ==
    ASSUME ServedInv, [ServedNext]_servedVars, NEW v \in Visitors
    PROVE  late'[v] => pc'[v] \in {"reauth_gate", "lookup"} /\ snapshot'[doing'[v]] # None
<1> USE TaskFacts DEF ServedInv
<1>0. [Next]_planeVars
  BY ServedIsPlane
<1>a. /\ pc \in [Tasks -> TaskState] /\ doing \in [Tasks -> Kinds]
      /\ late \in [Visitors -> BOOLEAN] /\ v \in Tasks /\ v \notin Kinds
  BY PlaneAssumption DEF PlaneInv, TypeOK, ServedTypeOK
<1>b. late[v] => pc[v] \in {"reauth_gate", "lookup"} /\ snapshot[doing[v]] # None
  BY DEF ServedFromCell
<1>1. ASSUME NEW t \in Tasks, Fetch(t), late'[v] => late[v]
      PROVE  late'[v] => pc'[v] \in {"reauth_gate", "lookup"} /\ snapshot'[doing'[v]] # None
  <2>1. late[v] => t # v
    BY <1>1, <1>b DEF Fetch, Answered, FollowingCounted, PlaylistsTallied, FetchFailed, Store
  <2>2. late[v] => pc'[v] = pc[v] /\ doing'[v] = doing[v]
    BY <1>1, <1>a, <2>1 DEF Fetch, Answered, FollowingCounted, PlaylistsTallied,
         FetchFailed, Store, Finish, GoTo
  <2> QED
    BY <1>0, <1>1, <2>2, Undisturbed
<1>2. CASE \E t \in Tasks : \/ MeAnswered(t) \/ FollowingAnswered(t) \/ TallyAnswered(t)
                            \/ MeFailed(t) \/ Stored(t)
  <2>1. PICK t \in Tasks : Fetch(t) /\ (late'[v] => late[v])
    BY <1>2, <1>a DEF MeAnswered, FollowingAnswered, TallyAnswered, MeFailed, Stored, LetGo,
         TotalOrZero, Fetch
  <2> QED
    BY <1>1, <2>1
<1>3. CASE \E k \in Kinds : LoopStep(k)
  <2>1. late' = late /\ pc'[v] = pc[v] /\ doing' = doing
    BY <1>3, <1>a DEF LoopStep, Loop, LoopTop, LoopReauthGate, LoopToggleGate, Move,
         BeginFetch, GoTo
  <2> QED
    BY <1>0, <2>1, Undisturbed
<1>4. CASE \E u \in Visitors : ServeStep(u)
  <2>1. PICK u \in Visitors : ServeStep(u)
    BY <1>4
  <2>2. late'[v] => late[v]
    BY <2>1, <1>a DEF ServeStep, LetGo
  <2>3. CASE u # v
    <3>1. pc'[v] = pc[v] /\ doing'[v] = doing[v]
      BY <2>1, <2>3, <1>a DEF ServeStep, Serve, ServeReauthGate, ServeLookup,
           ServeToggleGate, Move, Respond, Finish, BeginFetch, GoTo
    <3> QED
      BY <1>0, <2>2, <3>1, Undisturbed
  <2>4. CASE u = v
    <3>1. CASE pc'[v] = "idle"
      BY <2>1, <2>4, <3>1, <1>a DEF ServeStep, LetGo
    <3>2. CASE pc'[v] # "idle" /\ late[v]
      <4>1. pc'[v] = "lookup" /\ doing' = doing /\ snapshot' = snapshot
        BY <2>1, <2>4, <3>2, <1>a, <1>b DEF ServeStep, Serve, ServeReauthGate, ServeLookup,
             ServeToggleGate, Move, Respond, Finish, GoTo
      <4> QED
        BY <4>1, <3>2, <1>b
    <3> QED
      BY <3>1, <3>2, <2>2
  <2> QED
    BY <2>3, <2>4
<1>5. CASE \E t \in Tasks : HangUp(t)
  <2>1. PICK t \in Tasks : HangUp(t)
    BY <1>5
  <2>2. late'[v] => late[v] /\ t # v
    BY <2>1, <1>a DEF HangUp, LetGo
  <2>3. t # v => pc'[v] = pc[v] /\ doing'[v] = doing[v]
    BY <2>1, <1>a DEF HangUp, Disconnect, Respond, Finish, GoTo
  <2>4. CASE t = v
    BY <2>2, <2>4
  <2> QED
    BY <1>0, <2>2, <2>3, <2>4, Undisturbed
<1>6. CASE \E u \in Visitors, k \in Kinds : Arrive(u, k)
  <2>1. PICK u \in Visitors, k \in Kinds : Arrive(u, k)
    BY <1>6
  <2>2. CASE u = v
    <3>1. /\ late'[v] <=> snapshot[k] # None
          /\ pc'[v] = "reauth_gate" /\ doing'[v] = k /\ snapshot' = snapshot
      BY <2>1, <2>2, <1>a DEF Arrive, Request
    <3> QED
      BY <3>1
  <2>3. CASE u # v
    <3>1. late'[v] = late[v] /\ doing'[v] = doing[v] /\ (late[v] => pc'[v] = pc[v])
      BY <2>1, <2>3, <1>a, <1>b DEF Arrive, Request
    <3> QED
      BY <1>0, <3>1, Undisturbed
  <2> QED
    BY <2>2, <2>3
<1>7. CASE \E a \in Admins, k \in Kinds : OwnerRefresh(a, k)
  <2>1. PICK a \in Admins, k \in Kinds : OwnerRefresh(a, k)
    BY <1>7
  <2>2. a # v /\ late' = late
    BY <2>1, PlaneAssumption DEF OwnerRefresh
  <2>3. pc'[v] = pc[v] /\ doing'[v] = doing[v]
    BY <2>1, <2>2, <1>a DEF OwnerRefresh, Refresh, BeginFetch, GoTo
  <2> QED
    BY <1>0, <2>2, <2>3, Undisturbed
<1>8. CASE SpotifyMoves \/ Around \/ UNCHANGED servedVars
  <2>1. late' = late /\ pc' = pc /\ doing' = doing
    BY <1>8 DEF SpotifyMoves, Around, Toggle, SpotifyChanges, GoIdle, Relinked, servedVars, planeVars
  <2> QED
    BY <1>0, <2>1, Undisturbed
<1> QED
  BY <1>2, <1>3, <1>4, <1>5, <1>6, <1>7, <1>8 DEF ServedNext, ServedProgress

(* v1.rs, serve: a snapshot that was there when the request came is what   *)
(* the request is answered with, however the fetches and failures of other *)
(* tasks, the switch and the flag interleave with it.                      *)
THEOREM AnsweredFromCell == ServedSpec => []ServedFromCell
<1>1. ServedInv /\ [ServedNext]_servedVars => ServedInv'
  BY ServedIsPlane, PlaneStep, ServedTypes, ServedStep DEF ServedInv, ServedFromCell
<1>2. ServedInv => ServedFromCell
  BY DEF ServedInv
<1> QED
  BY <1>1, <1>2, InitServed, PTL DEF ServedSpec
=============================================================================
