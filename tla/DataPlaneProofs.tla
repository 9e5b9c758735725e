---------------------------- MODULE DataPlaneProofs ----------------------------
(***************************************************************************)
(* The snapshot cells, for any endpoints, any number of /v1 requests and   *)
(* owner's refreshes, and any history of Spotify's data.                   *)
(*                                                                         *)
(* The invariant is PlaneInv: whoever holds a payload and was not          *)
(* overtaken since its fetch began holds nothing older than the cell it    *)
(* will store into.  A store that takes a cell back is then the store of a *)
(* task that was overtaken, and no store empties a cell.                   *)
(***************************************************************************)
EXTENDS DataPlane, TLAPS

LEMMA TaskFacts ==
    /\ Playlists \in Kinds
    /\ Kinds \subseteq Tasks /\ Visitors \subseteq Tasks /\ Admins \subseteq Tasks
    /\ MaxVersion \in Nat /\ MaxVersion > 0
    /\ \A t \in Tasks : Home(t) \in Kinds
BY PlaneAssumption DEF Tasks, Home

LEMMA InitPlane == Init => PlaneInv
<1> SUFFICES ASSUME Init PROVE PlaneInv
  OBVIOUS
<1> USE TaskFacts DEF Init, None
<1>1. TypeOK
  <2>1. snapshot \in [Kinds -> Versions \cup {None}] /\ payload \in [Tasks -> Versions \cup {None}]
    OBVIOUS
  <2>2. enabled \in BOOLEAN /\ needsReauth \in BOOLEAN /\ active \in BOOLEAN
    OBVIOUS
  <2>3. upstream \in Versions
    BY DEF Versions
  <2>4. pc \in [Tasks -> TaskState]
    BY DEF TaskState
  <2>5. doing \in [Tasks -> Kinds] /\ outrun \in [Tasks -> BOOLEAN]
    OBVIOUS
  <2> QED
    BY <2>1, <2>2, <2>3, <2>4, <2>5 DEF TypeOK
<1>2. FreshInv
  BY DEF FreshInv, InFetch, Calling
<1> QED
  BY <1>1, <1>2 DEF PlaneInv

(* A step that leaves the cells, Spotify's data, the payloads and the      *)
(* marks alone, and starts no task on a payload it does not hold.          *)
LEMMA QuietStep ==
    ASSUME PlaneInv, TypeOK',
           UNCHANGED <<snapshot, payload>>,
           upstream' \in Nat, upstream' >= upstream,
           \A t \in Tasks : pc'[t] \in InFetch \ {"fetching"} =>
               pc[t] \in InFetch \ {"fetching"} /\ doing'[t] = doing[t]
                 /\ (outrun[t] => outrun'[t])
    PROVE  PlaneInv'
<1>1. upstream \in Nat /\ \A k \in Kinds : snapshot[k] \in Nat
  BY DEF PlaneInv, TypeOK, Versions, None
<1>2. \A t \in Tasks : payload[t] \in Nat
  BY DEF PlaneInv, TypeOK, Versions, None
<1>3. \A k \in Kinds : snapshot'[k] <= upstream'
  BY <1>1 DEF PlaneInv, FreshInv
<1>4. \A t \in Tasks : payload'[t] <= upstream'
  BY <1>1, <1>2 DEF PlaneInv, FreshInv
<1>5. ASSUME NEW t \in Tasks, pc'[t] \in InFetch \ {"fetching"}
      PROVE  payload'[t] # None /\ (~outrun'[t] => payload'[t] >= snapshot'[doing'[t]])
  BY <1>5 DEF PlaneInv, FreshInv
<1> QED
  BY <1>3, <1>4, <1>5 DEF PlaneInv, FreshInv, None

(* What is fetched is Spotify's data as it is, and no cell is ahead of it. *)
LEMMA AnsweredKeeps ==
    ASSUME PlaneInv, NEW t \in Tasks, Answered(t) PROVE PlaneInv'
<1> USE TaskFacts
<1>1. TypeOK'
  BY DEF Answered, GoTo, flags, PlaneInv, TypeOK, TaskState, InFetch, Calling
<1>2. \A u \in Tasks : doing[u] \in Kinds /\ payload[u] \in Nat
  BY DEF PlaneInv, TypeOK, Versions, None
<1>3. upstream \in Nat /\ upstream # None /\ \A k \in Kinds : snapshot[k] \in Nat
  BY DEF PlaneInv, TypeOK, Versions, None
<1>4. /\ UNCHANGED <<snapshot, upstream, doing, outrun>>
      /\ payload'[t] = upstream
      /\ \A u \in Tasks \ {t} : payload'[u] = payload[u] /\ pc'[u] = pc[u]
  BY DEF Answered, GoTo, PlaneInv, TypeOK
<1>5. \A u \in Tasks : payload'[u] <= upstream'
  BY <1>2, <1>3, <1>4 DEF PlaneInv, FreshInv
<1>6. ASSUME NEW u \in Tasks, pc'[u] \in InFetch \ {"fetching"}
      PROVE  payload'[u] # None /\ (~outrun'[u] => payload'[u] >= snapshot'[doing'[u]])
  BY <1>2, <1>3, <1>4, <1>6 DEF PlaneInv, FreshInv
<1> QED
  BY <1>1, <1>4, <1>5, <1>6 DEF PlaneInv, FreshInv, None

(* A store overtakes every other fetch of its kind that is under way.      *)
LEMMA StoreKeeps ==
    ASSUME PlaneInv, NEW t \in Tasks, Store(t) PROVE PlaneInv'
<1> USE TaskFacts
<1> DEFINE k == doing[t]
<1>1. /\ k \in Kinds /\ payload[t] # None /\ payload[t] \in Versions
      /\ payload[t] <= upstream /\ upstream \in Nat
  <2>1. k \in Kinds /\ upstream \in Nat /\ payload[t] \in Versions \cup {None}
    BY DEF PlaneInv, TypeOK, Versions
  <2>2. payload[t] # None /\ payload[t] <= upstream
    BY DEF PlaneInv, FreshInv, Store, InFetch
  <2> QED
    BY <2>1, <2>2
<1>2. TypeOK'
  <2>1. snapshot' \in [Kinds -> Versions \cup {None}] /\ upstream' \in Versions
    BY <1>1 DEF Store, SetSnapshot, PlaneInv, TypeOK
  <2>2. enabled' \in BOOLEAN /\ needsReauth' \in BOOLEAN /\ active' \in BOOLEAN
    BY DEF Store, SetSnapshot, flags, PlaneInv, TypeOK
  <2>3. /\ pc' \in [Tasks -> TaskState]
        /\ doing' \in [Tasks -> Kinds]
        /\ payload' \in [Tasks -> Versions \cup {None}]
    BY DEF Store, SetSnapshot, Finish, GoTo, PlaneInv, TypeOK, TaskState
  <2>4. outrun' \in [Tasks -> BOOLEAN]
    BY DEF Store, SetSnapshot, PlaneInv, TypeOK
  <2> QED
    BY <2>1, <2>2, <2>3, <2>4 DEF TypeOK
<1>3. /\ upstream' = upstream
      /\ snapshot'[k] = payload[t]
      /\ \A j \in Kinds \ {k} : snapshot'[j] = snapshot[j]
  BY <1>1 DEF Store, SetSnapshot, PlaneInv, TypeOK
<1>4. /\ payload'[t] = None /\ pc'[t] \notin InFetch
      /\ \A u \in Tasks \ {t} : /\ payload'[u] = payload[u]
                                /\ pc'[u] = pc[u] /\ doing'[u] = doing[u]
  BY DEF Store, SetSnapshot, Finish, GoTo, PlaneInv, TypeOK, InFetch, Calling
<1>5. \A j \in Kinds : snapshot'[j] <= upstream'
  BY <1>1, <1>3 DEF PlaneInv, FreshInv
<1>6. \A u \in Tasks : payload'[u] <= upstream'
  BY <1>1, <1>3, <1>4 DEF PlaneInv, FreshInv, None
<1>7. ASSUME NEW u \in Tasks, pc'[u] \in InFetch \ {"fetching"}
      PROVE  payload'[u] # None /\ (~outrun'[u] => payload'[u] >= snapshot'[doing'[u]])
  <2>1. u # t /\ pc[u] \in InFetch \ {"fetching"} /\ doing'[u] = doing[u] /\ doing[u] \in Kinds
    BY <1>4, <1>7 DEF PlaneInv, TypeOK
  <2>2. payload'[u] # None
    BY <1>4, <2>1 DEF PlaneInv, FreshInv
  <2>3. ~outrun'[u] => ~outrun[u] /\ doing[u] # k
    BY <2>1 DEF Store, SetSnapshot
  <2>4. ~outrun'[u] => payload'[u] >= snapshot'[doing'[u]]
    BY <1>3, <1>4, <2>1, <2>3 DEF PlaneInv, FreshInv
  <2> QED
    BY <2>2, <2>4
<1> QED
  BY <1>2, <1>5, <1>6, <1>7 DEF PlaneInv, FreshInv

(* A task that ends without a store gives its payload up.                  *)
LEMMA FinishKeeps ==
    ASSUME PlaneInv, NEW t \in Tasks, Finish(t),
           UNCHANGED <<snapshot, upstream, enabled, active>>,
           needsReauth' \in {needsReauth, TRUE},
           outrun' = [outrun EXCEPT ![t] = FALSE]
    PROVE  PlaneInv'
<1> USE TaskFacts
<1>1. TypeOK'
  BY DEF Finish, GoTo, PlaneInv, TypeOK, TaskState
<1>2. /\ payload'[t] = None /\ pc'[t] \notin InFetch
      /\ \A u \in Tasks \ {t} : /\ payload'[u] = payload[u] /\ pc'[u] = pc[u]
                                /\ doing'[u] = doing[u] /\ outrun'[u] = outrun[u]
  BY DEF Finish, GoTo, PlaneInv, TypeOK, InFetch, Calling
<1>3. upstream \in Nat
  BY DEF PlaneInv, TypeOK, Versions
<1>4. \A u \in Tasks : payload'[u] <= upstream'
  BY <1>2, <1>3 DEF PlaneInv, FreshInv, None
<1>5. ASSUME NEW u \in Tasks, pc'[u] \in InFetch \ {"fetching"}
      PROVE  payload'[u] # None /\ (~outrun'[u] => payload'[u] >= snapshot'[doing'[u]])
  BY <1>2, <1>5 DEF PlaneInv, FreshInv
<1> QED
  BY <1>1, <1>4, <1>5 DEF PlaneInv, FreshInv, None

LEMMA FetchKeeps ==
    ASSUME PlaneInv, NEW t \in Tasks, Fetch(t) PROVE PlaneInv'
<1> USE TaskFacts
<1>1. CASE Answered(t)
  BY <1>1, AnsweredKeeps
<1>2. CASE FollowingCounted(t)
  <2>1. TypeOK'
    BY <1>2 DEF FollowingCounted, GoTo, MayRaise, PlaneInv, TypeOK, TaskState, InFetch, Calling
  <2>2. \A u \in Tasks : pc'[u] \in InFetch \ {"fetching"} => pc[u] \in InFetch \ {"fetching"}
    BY <1>2 DEF FollowingCounted, GoTo, PlaneInv, TypeOK, InFetch, Calling
  <2>3. UNCHANGED <<snapshot, payload, upstream, doing, outrun>> /\ upstream \in Nat
    BY <1>2 DEF FollowingCounted, PlaneInv, TypeOK, Versions
  <2> QED
    BY <2>1, <2>2, <2>3, QuietStep
<1>3. CASE PlaylistsTallied(t)
  <2>1. TypeOK'
    BY <1>3 DEF PlaylistsTallied, GoTo, MayRaise, PlaneInv, TypeOK, TaskState, InFetch
  <2>2. \A u \in Tasks : pc'[u] \in InFetch \ {"fetching"} => pc[u] \in InFetch \ {"fetching"}
    BY <1>3 DEF PlaylistsTallied, GoTo, PlaneInv, TypeOK, InFetch, Calling
  <2>3. UNCHANGED <<snapshot, payload, upstream, doing, outrun>> /\ upstream \in Nat
    BY <1>3 DEF PlaylistsTallied, PlaneInv, TypeOK, Versions
  <2> QED
    BY <2>1, <2>2, <2>3, QuietStep
<1>4. CASE FetchFailed(t)
  BY <1>4, FinishKeeps DEF FetchFailed, MayRaise, flags
<1>5. CASE Store(t)
  BY <1>5, StoreKeeps
<1> QED
  BY <1>1, <1>2, <1>3, <1>4, <1>5 DEF Fetch

(* A task that moves on to a label outside of a fetch.                     *)
LEMMA MoveKeeps ==
    ASSUME PlaneInv, NEW t \in Tasks, NEW label \in TaskState \ InFetch, Move(t, label)
    PROVE  PlaneInv'
<1>1. TypeOK'
  BY DEF Move, GoTo, flags, PlaneInv, TypeOK
<1>2. \A u \in Tasks : pc'[u] \in InFetch \ {"fetching"} => pc[u] \in InFetch \ {"fetching"}
  BY DEF Move, GoTo, PlaneInv, TypeOK
<1>3. UNCHANGED <<snapshot, payload, upstream, doing, outrun>> /\ upstream \in Nat
  BY DEF Move, PlaneInv, TypeOK, Versions
<1> QED
  BY <1>1, <1>2, <1>3, QuietStep

(* A task that begins a fetch, of a kind it may have just been given.      *)
LEMMA BeginKeeps ==
    ASSUME PlaneInv, NEW t \in Tasks, NEW k \in Kinds,
           BeginFetch(t), doing' = [doing EXCEPT ![t] = k]
    PROVE  PlaneInv'
<1>1. TypeOK'
  BY DEF BeginFetch, GoTo, flags, PlaneInv, TypeOK, TaskState, InFetch, Calling
<1>2. \A u \in Tasks : pc'[u] \in InFetch \ {"fetching"} =>
          u # t /\ pc[u] \in InFetch \ {"fetching"}
  BY DEF BeginFetch, GoTo, PlaneInv, TypeOK
<1>3. \A u \in Tasks \ {t} : doing'[u] = doing[u] /\ outrun'[u] = outrun[u]
  BY DEF BeginFetch, PlaneInv, TypeOK
<1>4. UNCHANGED <<snapshot, payload, upstream>> /\ upstream \in Nat
  BY DEF BeginFetch, PlaneInv, TypeOK, Versions
<1> QED
  BY <1>1, <1>2, <1>3, <1>4, QuietStep

LEMMA RespondKeeps ==
    ASSUME PlaneInv, NEW t \in Tasks, Respond(t) PROVE PlaneInv'
BY FinishKeeps DEF Respond, flags

LEMMA LabelFacts ==
    {"top", "parked", "reauth_gate", "lookup", "toggle_gate"} \subseteq TaskState \ InFetch
BY DEF TaskState, InFetch, Calling

LEMMA LoopKeeps ==
    ASSUME PlaneInv, NEW k \in Kinds, Loop(k) PROVE PlaneInv'
<1>1. k \in Tasks /\ doing \in [Tasks -> Kinds] /\ doing[k] \in Kinds
  BY TaskFacts DEF PlaneInv, TypeOK
<1>2. CASE LoopTop(k)
  BY <1>1, <1>2, MoveKeeps, LabelFacts DEF LoopTop
<1>3. CASE LoopReauthGate(k)
  BY <1>1, <1>3, MoveKeeps, LabelFacts DEF LoopReauthGate
<1>4. CASE LoopToggleGate(k)
  <2>1. CASE Move(k, "top")
    BY <1>1, <2>1, MoveKeeps, LabelFacts
  <2>2. CASE BeginFetch(k) /\ UNCHANGED doing
    <3>1. doing' = [doing EXCEPT ![k] = doing[k]]
      BY <1>1, <2>2
    <3> QED
      BY <1>1, <2>2, <3>1, BeginKeeps
  <2> QED
    BY <1>4, <2>1, <2>2 DEF LoopToggleGate
<1> QED
  BY <1>2, <1>3, <1>4 DEF Loop

LEMMA ServeKeeps ==
    ASSUME PlaneInv, NEW v \in Visitors, Serve(v) PROVE PlaneInv'
<1>1. v \in Tasks /\ doing \in [Tasks -> Kinds] /\ doing[v] \in Kinds
  BY TaskFacts DEF PlaneInv, TypeOK
<1>2. CASE Respond(v)
  BY <1>1, <1>2, RespondKeeps
<1>3. CASE Move(v, "lookup") \/ Move(v, "toggle_gate")
  BY <1>1, <1>3, MoveKeeps, LabelFacts
<1>4. CASE BeginFetch(v) /\ UNCHANGED doing
  <2>1. doing' = [doing EXCEPT ![v] = doing[v]]
    BY <1>1, <1>4
  <2> QED
    BY <1>1, <1>4, <2>1, BeginKeeps
<1> QED
  BY <1>2, <1>3, <1>4 DEF Serve, ServeReauthGate, ServeLookup, ServeToggleGate

(* A visit wakes loops that are parked, and starts a handler that rests.   *)
LEMMA RequestKeeps ==
    ASSUME PlaneInv, NEW v \in Visitors, NEW k \in Kinds, Request(v, k) PROVE PlaneInv'
<1>1. v \in Tasks
  BY TaskFacts
<1>2. TypeOK'
  BY <1>1 DEF Request, PlaneInv, TypeOK, TaskState
<1>3. \A u \in Tasks : pc'[u] \in InFetch \ {"fetching"} =>
          u # v /\ pc[u] \in InFetch \ {"fetching"}
  BY <1>1 DEF Request, PlaneInv, TypeOK, InFetch, Calling
<1>4. \A u \in Tasks \ {v} : doing'[u] = doing[u]
  BY DEF Request, PlaneInv, TypeOK
<1>5. UNCHANGED <<snapshot, payload, upstream, outrun>> /\ upstream \in Nat
  BY DEF Request, PlaneInv, TypeOK, Versions
<1> QED
  BY <1>2, <1>3, <1>4, <1>5, QuietStep

LEMMA OutsideKeeps ==
    ASSUME PlaneInv, Toggle \/ SpotifyChanges \/ GoIdle \/ Relinked PROVE PlaneInv'
<1>1. TypeOK'
  <2>1. upstream' \in Versions
    BY TaskFacts DEF Toggle, SpotifyChanges, GoIdle, Relinked, PlaneInv, TypeOK, Versions
  <2>2. enabled' \in BOOLEAN /\ needsReauth' \in BOOLEAN /\ active' \in BOOLEAN
    BY DEF Toggle, SpotifyChanges, GoIdle, Relinked, flags, PlaneInv, TypeOK
  <2>3. UNCHANGED <<snapshot, pc, doing, payload, outrun>>
    BY DEF Toggle, SpotifyChanges, GoIdle, Relinked
  <2> QED
    BY <2>1, <2>2, <2>3 DEF PlaneInv, TypeOK
<1>2. upstream' \in Nat /\ upstream' >= upstream
  BY DEF Toggle, SpotifyChanges, GoIdle, Relinked, PlaneInv, TypeOK, Versions
<1>3. UNCHANGED <<snapshot, payload, pc, doing, outrun>>
  BY DEF Toggle, SpotifyChanges, GoIdle, Relinked
<1> QED
  BY <1>1, <1>2, <1>3, QuietStep

LEMMA PlaneStep == PlaneInv /\ [Next]_planeVars => PlaneInv'
<1> SUFFICES ASSUME PlaneInv, [Next]_planeVars PROVE PlaneInv'
  OBVIOUS
<1>1. CASE \E t \in Tasks : Progress(t) \/ Disconnect(t)
  BY <1>1, FetchKeeps, LoopKeeps, ServeKeeps, RespondKeeps DEF Progress, Disconnect
<1>2. CASE \E v \in Visitors, k \in Kinds : Request(v, k)
  BY <1>2, RequestKeeps
<1>3. CASE \E a \in Admins, k \in Kinds : Refresh(a, k)
  BY <1>3, BeginKeeps, TaskFacts DEF Refresh
<1>4. CASE Toggle \/ SpotifyChanges \/ GoIdle \/ Relinked
  BY <1>4, OutsideKeeps
<1>5. CASE UNCHANGED planeVars
  BY <1>5 DEF planeVars, flags, PlaneInv, TypeOK, FreshInv
<1> QED
  BY <1>1, <1>2, <1>3, <1>4, <1>5 DEF Next

(* scheduler.rs, v1.rs and admin.rs store what they have just fetched: a   *)
(* task that no other store has overtaken brings nothing older than what   *)
(* the cell holds.                                                         *)
THEOREM Freshness == Spec => []PlaneInv
BY InitPlane, PlaneStep, PTL DEF Spec

(* Only Store writes a cell, and it writes a version.                      *)
LEMMA OnlyStoreWrites ==
    ASSUME PlaneInv, [Next]_planeVars, NEW k \in Kinds, snapshot'[k] # snapshot[k]
    PROVE  \E t \in Tasks : Store(t) /\ doing[t] = k
<1>1. snapshot' # snapshot
  OBVIOUS
<1>2. PICK t \in Tasks : Store(t)
  BY <1>1 DEF Next, Progress, Fetch, Answered, FollowingCounted, PlaylistsTallied,
       FetchFailed, Loop, LoopTop, LoopReauthGate, LoopToggleGate, Serve,
       ServeReauthGate, ServeLookup, ServeToggleGate, Disconnect, Request, Refresh,
       Toggle, SpotifyChanges, GoIdle, Relinked, Move, BeginFetch, Respond, planeVars
<1>3. doing[t] = k
  BY <1>2 DEF Store, SetSnapshot, PlaneInv, TypeOK
<1> QED
  BY <1>2, <1>3

(* No step empties a cell: what a task stores is a version.                *)
LEMMA FilledStays ==
    ASSUME PlaneInv, [Next]_planeVars, NEW k \in Kinds, snapshot[k] # None
    PROVE  snapshot'[k] # None
<1>1. CASE snapshot'[k] = snapshot[k]
  BY <1>1
<1>2. CASE snapshot'[k] # snapshot[k]
  <2>1. PICK t \in Tasks : Store(t) /\ doing[t] = k
    BY <1>2, OnlyStoreWrites
  <2>2. payload[t] # None
    BY <2>1 DEF Store, SetSnapshot, PlaneInv, FreshInv, InFetch
  <2> QED
    BY <2>1, <2>2 DEF Store, SetSnapshot, PlaneInv, TypeOK
<1> QED
  BY <1>1, <1>2

(* snapshots.rs and scheduler.rs: a failed or cancelled fetch never takes  *)
(* the last good snapshot away.                                            *)
THEOREM LastGood == Spec => LastGoodKept
<1>1. PlaneInv /\ [Next]_planeVars =>
        [\A k \in Kinds : snapshot[k] # None => snapshot'[k] # None]_planeVars
  BY FilledStays
<1> QED
  BY <1>1, InitPlane, PlaneStep, PTL DEF Spec, LastGoodKept

(* The one way for a cell to go back: a fetch that began before another    *)
(* task's store of the same kind stores after it.                          *)
THEOREM OvertakenOnly == Spec => OnlyOvertakenGoesBack
<1>1. ASSUME PlaneInv, [Next]_planeVars, NEW k \in Kinds, snapshot'[k] < snapshot[k]
      PROVE  \E t \in Tasks : pc[t] = "fetched" /\ doing[t] = k /\ outrun[t]
  <2>1. snapshot[k] \in Nat
    BY <1>1 DEF PlaneInv, TypeOK, Versions, None
  <2>2. snapshot'[k] # snapshot[k]
    BY <1>1, <2>1
  <2>3. PICK t \in Tasks : Store(t) /\ doing[t] = k
    BY <1>1, <2>2, OnlyStoreWrites
  <2>4. snapshot'[k] = payload[t] /\ payload[t] \in Nat /\ pc[t] = "fetched"
    BY <1>1, <2>3 DEF Store, SetSnapshot, PlaneInv, TypeOK, Versions, None
  <2>5. outrun[t] \in BOOLEAN /\ (~outrun[t] => payload[t] >= snapshot[k])
    BY <1>1, <2>3, <2>4 DEF PlaneInv, TypeOK, FreshInv, InFetch
  <2>6. outrun[t]
    BY <1>1, <2>1, <2>4, <2>5
  <2> QED
    BY <2>3, <2>4, <2>6
<1>2. PlaneInv /\ [Next]_planeVars =>
        [\A k \in Kinds : snapshot'[k] < snapshot[k] =>
           \E t \in Tasks : pc[t] = "fetched" /\ doing[t] = k /\ outrun[t]]_planeVars
  BY <1>1
<1> QED
  BY <1>2, InitPlane, PlaneStep, PTL DEF Spec, OnlyOvertakenGoesBack

-----------------------------------------------------------------------------
(* The gate: what the refinement rests on is that no loop is parked while  *)
(* the service is active.                                                  *)
NoneParkedWhileActive == active => Parked = {}

(* A step that neither parks nor wakes a loop and leaves the gate alone.   *)
LEMMA GateUntouched ==
    ASSUME NoneParkedWhileActive, UNCHANGED active,
           \A k \in Kinds : pc'[k] = "parked" <=> pc[k] = "parked"
    PROVE  NoneParkedWhileActive' /\ UNCHANGED <<active, Parked>>
<1>1. Parked' = Parked
  BY DEF Parked
<1> QED
  BY <1>1 DEF NoneParkedWhileActive

(* A task moves from one label that is not parked to another.              *)
LEMMA GateMove ==
    ASSUME PlaneInv, NoneParkedWhileActive, UNCHANGED active, NEW t \in Tasks,
           NEW label \in TaskState \ {"parked"}, pc[t] # "parked", GoTo(t, label)
    PROVE  NoneParkedWhileActive' /\ UNCHANGED <<active, Parked>>
<1>1. \A k \in Kinds : pc'[k] = "parked" <=> pc[k] = "parked"
  BY TaskFacts DEF GoTo, PlaneInv, TypeOK
<1> QED
  BY <1>1, GateUntouched

LEMMA GateFetch ==
    ASSUME PlaneInv, NoneParkedWhileActive, NEW t \in Tasks, Fetch(t)
    PROVE  NoneParkedWhileActive' /\ UNCHANGED <<active, Parked>>
<1>1. pc[t] # "parked" /\ UNCHANGED active
  BY DEF Fetch, Answered, FollowingCounted, PlaylistsTallied, FetchFailed, Store,
         MayRaise, flags
<1>2. \E label \in TaskState \ {"parked"} : GoTo(t, label)
  BY DEF Fetch, Answered, FollowingCounted, PlaylistsTallied, FetchFailed, Store, Finish,
         TaskState, InFetch, Calling
<1> QED
  BY <1>1, <1>2, GateMove

LEMMA GateLoop ==
    ASSUME PlaneInv, NoneParkedWhileActive, NEW k \in Kinds, Loop(k)
    PROVE  NoneParkedWhileActive' /\ (PlaneGate!FallAsleep(k) \/ UNCHANGED <<active, Parked>>)
<1>1. k \in Tasks /\ pc[k] # "parked" /\ UNCHANGED active
  BY TaskFacts DEF Loop, LoopTop, LoopReauthGate, LoopToggleGate, Move, BeginFetch, flags
<1>2. CASE GoTo(k, "parked") /\ ~active
  <2>1. Parked' = Parked \cup {k}
    BY <1>1, <1>2 DEF GoTo, Parked, PlaneInv, TypeOK
  <2> QED
    BY <1>1, <1>2, <2>1 DEF NoneParkedWhileActive, PlaneGate!FallAsleep
<1>3. CASE \E label \in TaskState \ {"parked"} : GoTo(k, label)
  BY <1>1, <1>3, GateMove
<1>4. (GoTo(k, "parked") /\ ~active) \/ \E label \in TaskState \ {"parked"} : GoTo(k, label)
  BY DEF Loop, LoopTop, LoopReauthGate, LoopToggleGate, Move, BeginFetch, TaskState,
         InFetch, Calling
<1> QED
  BY <1>2, <1>3, <1>4

LEMMA GateServe ==
    ASSUME PlaneInv, NoneParkedWhileActive, NEW v \in Visitors, Serve(v)
    PROVE  NoneParkedWhileActive' /\ UNCHANGED <<active, Parked>>
<1>1. v \in Tasks /\ pc[v] # "parked" /\ UNCHANGED active
  BY TaskFacts DEF Serve, ServeReauthGate, ServeLookup, ServeToggleGate, Move, BeginFetch,
       Respond, flags
<1>2. \E label \in TaskState \ {"parked"} : GoTo(v, label)
  BY DEF Serve, ServeReauthGate, ServeLookup, ServeToggleGate, Move, BeginFetch, Respond,
         Finish, TaskState, InFetch, Calling
<1> QED
  BY <1>1, <1>2, GateMove

(* A client that goes away takes no loop with it.                          *)
LEMMA GateDisconnect ==
    ASSUME PlaneInv, NoneParkedWhileActive, NEW t \in Tasks, Disconnect(t)
    PROVE  NoneParkedWhileActive' /\ UNCHANGED <<active, Parked>>
<1>1. UNCHANGED active /\ t \notin Kinds
  BY DEF Disconnect, Respond, flags
<1>2. \A k \in Kinds : pc'[k] = pc[k]
  BY <1>1, TaskFacts DEF Disconnect, Respond, Finish, GoTo, PlaneInv, TypeOK
<1> QED
  BY <1>1, <1>2, GateUntouched

(* Every loop that is parked is woken, and a handler is no loop.           *)
LEMMA GateRequest ==
    ASSUME PlaneInv, NoneParkedWhileActive, NEW v \in Visitors, NEW k \in Kinds, Request(v, k)
    PROVE  NoneParkedWhileActive' /\ PlaneGate!Visit
<1>1. Parked' = {}
  BY TaskFacts DEF Request, Parked
<1>2. active' = TRUE
  BY DEF Request
<1> QED
  BY <1>1, <1>2 DEF NoneParkedWhileActive, PlaneGate!Visit

LEMMA GateStep ==
    ASSUME PlaneInv, NoneParkedWhileActive, [Next]_planeVars
    PROVE  NoneParkedWhileActive' /\ [PlaneGate!GateNext]_(PlaneGate!visitGateVars)
<1> USE DEF PlaneGate!visitGateVars
<1>1. CASE \E t \in Tasks : Progress(t)
  BY <1>1, GateFetch, GateLoop, GateServe DEF Progress, PlaneGate!GateNext
<1>2. CASE \E t \in Tasks : Disconnect(t)
  BY <1>2, GateDisconnect
<1>3. CASE \E v \in Visitors, k \in Kinds : Request(v, k)
  BY <1>3, GateRequest DEF PlaneGate!GateNext
<1>4. CASE \E a \in Admins, k \in Kinds : Refresh(a, k)
  <2>1. PICK a \in Admins : pc[a] = "idle" /\ BeginFetch(a)
    BY <1>4 DEF Refresh
  <2>2. a \in Tasks /\ UNCHANGED active /\ GoTo(a, "fetching") /\ "fetching" \in TaskState \ {"parked"}
    BY <2>1, TaskFacts DEF BeginFetch, flags, TaskState, InFetch, Calling
  <2> QED
    BY <2>1, <2>2, GateMove
<1>5. CASE Toggle \/ SpotifyChanges \/ Relinked
  <2>1. UNCHANGED <<active, pc>>
    BY <1>5 DEF Toggle, SpotifyChanges, Relinked, flags
  <2> QED
    BY <2>1, GateUntouched
<1>6. CASE GoIdle
  <2>1. active' = FALSE /\ UNCHANGED pc
    BY <1>6 DEF GoIdle
  <2>2. Parked' = Parked
    BY <2>1 DEF Parked
  <2> QED
    BY <2>1, <2>2 DEF NoneParkedWhileActive, PlaneGate!GoIdle, PlaneGate!GateNext
<1>7. CASE UNCHANGED planeVars
  BY <1>7, GateUntouched DEF planeVars, flags
<1> QED
  BY <1>1, <1>2, <1>3, <1>4, <1>5, <1>6, <1>7 DEF Next

(* scheduler.rs: whatever a loop waits for, it is at the activity gate or  *)
(* in a sleep that ends; and v1_activity_layer leaves no loop parked.      *)
THEOREM GateKept == Spec => KeepsToVisitGate
<1>1. Init => NoneParkedWhileActive /\ PlaneGate!GateInit
  <2>1. Init => Parked = {} /\ active = FALSE
    BY TaskFacts DEF Init, Parked
  <2> QED
    BY <2>1 DEF NoneParkedWhileActive, PlaneGate!GateInit
<1> QED
  BY <1>1, InitPlane, PlaneStep, GateStep, PTL DEF Spec, KeepsToVisitGate, PlaneGate!GateSpec
=============================================================================
