-------------------------- MODULE ActivityGateProofs --------------------------
(***************************************************************************)
(* Register-before-check proved for any number of visitors and loops, any *)
(* threshold, and any bound on how long a touch() is held up and how far   *)
(* the clock is set back: GateInv is inductive, a wake-up is lost only of  *)
(* a loop the clock has disturbed, and the tracker implements VisitGate.   *)
(***************************************************************************)
EXTENDS ActivityGate, TLAPS

LEMMA CapFacts ==
    /\ IdleThreshold \in Nat /\ Delay \in Nat /\ Skew \in Nat
    /\ Cap = IdleThreshold + 1 + Delay
    /\ Cap \in Nat
    /\ Cap > IdleThreshold
BY GateAssumption DEF Cap

LEMMA GateInitially == Init => GateInv
<1> USE CapFacts
<1>1. Init => TypeOK
  <2>1. 0 \in Ages /\ Never \in Ages /\ 0 \in -Skew..Delay
    BY DEF Ages, Never
  <2> QED
    BY <2>1 DEF Init, TypeOK, TouchState, LoopState
<1> QED
  BY <1>1 DEF Init, GateInv, Parking, Comparing

(* Ages stay in their range, and grow or shrink with the clock.            *)
LEMMA AgeSteps ==
    ASSUME NEW a \in Ages
    PROVE  /\ Older(a) \in Ages
           /\ Older(a) >= a
           /\ a > -Skew => Younger(a) \subseteq Ages
           /\ \A b \in Younger(a) : b <= a
BY CapFacts DEF Ages, Never, Older, Younger

(* A loop that is about to park has its Notified.                          *)
LEMMA ParkingRegistered ==
    ASSUME NEW s \in Schedulers, Parking(s) PROVE HasNotified(s)
BY DEF Parking, Comparing, HasNotified

(* The clock that moves on disturbs the loops between their two reads; for *)
(* the others it can only make the tracker idle.                           *)
LEMMA TickKeepsGate == ASSUME GateInv, Tick PROVE GateInv'
<1> USE CapFacts DEF Swapping, Comparing
<1>1. TypeOK'
  <2>1. nowAge' \in [Visitors -> -Skew..Delay]
    BY DEF GateInv, TypeOK, Tick
  <2>2. age' \in Ages /\ lastAge' \in [Schedulers -> Ages]
    BY AgeSteps DEF GateInv, TypeOK, Tick
  <2>3. touchPc' \in [Visitors -> TouchState] /\ loop' \in [Schedulers -> LoopState]
    BY DEF GateInv, TypeOK, Tick, TouchState, LoopState
  <2>4. disturbed' \in [Schedulers -> BOOLEAN]
    BY DEF GateInv, TypeOK, Tick
  <2> QED
    BY <2>1, <2>2, <2>3, <2>4 DEF GateInv, TypeOK, Tick
<1>2. Active' => Active
  BY AgeSteps DEF GateInv, TypeOK, Tick, Ages, Never, Active
<1>3. ASSUME NEW v \in Visitors, ~Swapping(v)' PROVE nowAge'[v] = 0
  BY <1>3 DEF GateInv, TypeOK, Tick
<1>4. ASSUME NEW s \in Schedulers, Parking(s)', ~woken'[s], ~disturbed'[s], Active'
      PROVE  \E v \in Visitors : touchPc'[v] = "notifying"
  <2>1. loop[s] = "parked" /\ ~woken[s] /\ ~disturbed[s]
    BY <1>4 DEF Tick, Parking
  <2>2. PICK v \in Visitors : touchPc[v] = "notifying"
    BY <1>2, <1>4, <2>1 DEF GateInv, Parking
  <2> QED
    BY <2>2 DEF Tick
<1> QED
  BY <1>1, <1>3, <1>4 DEF GateInv

(* A clock that is set back disturbs every loop that may be about to park. *)
LEMMA StepBackKeepsGate == ASSUME GateInv, StepBack PROVE GateInv'
<1> USE CapFacts DEF Swapping
<1>1. TypeOK'
  <2>1. age' \in Ages
    BY AgeSteps DEF GateInv, TypeOK, StepBack
  <2>2. nowAge' \in [Visitors -> -Skew..Delay]
    BY DEF GateInv, TypeOK, StepBack
  <2> QED
    BY <2>1, <2>2 DEF GateInv, TypeOK, StepBack
<1>2. ASSUME NEW v \in Visitors, ~Swapping(v)' PROVE nowAge'[v] = 0
  BY <1>2 DEF GateInv, TypeOK, StepBack
<1>3. ASSUME NEW s \in Schedulers, Parking(s)' PROVE disturbed'[s]
  BY <1>3 DEF StepBack, Parking, Comparing, HasNotified
<1> QED
  BY <1>1, <1>2, <1>3 DEF GateInv

LEMMA ReadNowKeepsGate ==
    ASSUME GateInv, NEW v \in Visitors, ReadNow(v) PROVE GateInv'
<1> USE CapFacts DEF ReadNow, TouchTo, Swapping
<1>1. TypeOK'
  BY DEF GateInv, TypeOK, TouchState
<1>2. ASSUME NEW u \in Visitors, ~Swapping(u)' PROVE nowAge'[u] = 0
  BY <1>2 DEF GateInv, TypeOK
<1>3. ASSUME NEW s \in Schedulers, Parking(s)', ~woken'[s], ~disturbed'[s], Active'
      PROVE  \E u \in Visitors : touchPc'[u] = "notifying"
  <2>1. PICK u \in Visitors : touchPc[u] = "notifying"
    BY <1>3 DEF GateInv, Parking, Comparing, Active
  <2> QED
    BY <2>1 DEF GateInv, TypeOK
<1> QED
  BY <1>1, <1>2, <1>3 DEF GateInv

(* A swap that disturbs no loop makes the tracker active: if it was idle,  *)
(* this visitor notifies.                                                  *)
LEMMA SwapKeepsGate ==
    ASSUME GateInv, NEW v \in Visitors, Swap(v) PROVE GateInv'
<1> USE CapFacts DEF Swapping
<1>1. age' = nowAge[v] /\ nowAge[v] \in -Skew..Delay /\ age \in Int
  BY DEF GateInv, TypeOK, Swap, SwapIn, Ages
<1>2. TypeOK'
  <2>1. age' \in Ages
    BY <1>1 DEF Ages, Never
  <2> QED
    BY <2>1 DEF Swap, SwapIn, TouchTo, GateInv, TypeOK, TouchState
<1>3. ASSUME NEW u \in Visitors, ~Swapping(u)' PROVE nowAge'[u] = 0
  BY <1>3 DEF Swap, SwapIn, TouchTo, GateInv, TypeOK
<1>4. ASSUME NEW s \in Schedulers, Parking(s)', ~woken'[s], ~disturbed'[s], Active'
      PROVE  \E u \in Visitors : touchPc'[u] = "notifying"
  <2>1. Parking(s) /\ ~woken[s]
    BY <1>4 DEF Swap, SwapIn, Parking, Comparing
  <2>2. ~disturbed[s] /\ nowAge[v] <= 0
    <3>1. HasNotified(s)
      BY <2>1, ParkingRegistered
    <3>2. ~(disturbed[s] \/ (nowAge[v] > 0 /\ HasNotified(s)))
      BY <1>4 DEF Swap, SwapIn
    <3> QED
      BY <1>1, <3>1, <3>2
  <2>3. CASE Active
    <3>1. PICK u \in Visitors : touchPc[u] = "notifying"
      BY <2>1, <2>2, <2>3 DEF GateInv
    <3> QED
      BY <3>1 DEF Swap, SwapIn, TouchTo, GateInv, TypeOK
  <2>4. CASE ~Active
    <3>1. touchPc'[v] = "notifying"
      BY <1>1, <2>2, <2>4 DEF Swap, TouchTo, Active, GateInv, TypeOK
    <3> QED
      BY <3>1
  <2> QED
    BY <2>3, <2>4
<1> QED
  BY <1>2, <1>3, <1>4 DEF GateInv

(* A loop that is parking has its Notified: after notify_waiters it is     *)
(* woken, so that it needs nobody on the way.                              *)
LEMMA NotifyKeepsGate ==
    ASSUME GateInv, NEW v \in Visitors, Notify(v) PROVE GateInv'
<1>1. TypeOK'
  BY DEF Notify, TouchTo, GateInv, TypeOK, TouchState, HasNotified
<1>2. ASSUME NEW u \in Visitors, ~Swapping(u)' PROVE nowAge'[u] = 0
  BY <1>2 DEF Notify, TouchTo, Swapping, GateInv, TypeOK
<1>3. ASSUME NEW s \in Schedulers, Parking(s)', ~woken'[s] PROVE FALSE
  <2>1. HasNotified(s)
    BY <1>3 DEF Parking, Comparing, HasNotified, Notify
  <2> QED
    BY <1>3, <2>1 DEF Notify
<1> QED
  BY <1>1, <1>2, <1>3 DEF GateInv

(* The steps of the loop: only Load can make a loop parking, and it loads  *)
(* an age above the threshold only when the tracker is idle.               *)
LEMMA LoopKeepsGate ==
    ASSUME GateInv, NEW s \in Schedulers, Loop(s) PROVE GateInv'
<1> USE CapFacts DEF LoopTo, Comparing
<1>1. TypeOK'
  <2> USE DEF GateInv, TypeOK, LoopState, Ages, Never
  <2>1. CASE Register(s)
    BY <2>1 DEF Register
  <2>2. CASE Load(s)
    BY <2>2 DEF Load
  <2>3. CASE Compare(s)
    BY <2>3 DEF Compare
  <2>4. CASE Wake(s)
    BY <2>4 DEF Wake
  <2>5. CASE FinishTick(s)
    BY <2>5 DEF FinishTick
  <2> QED
    BY <2>1, <2>2, <2>3, <2>4, <2>5 DEF Loop
<1>2. UNCHANGED <<age, touchPc, nowAge>>
  BY DEF Loop, Register, Load, Compare, Wake, FinishTick
<1>3. ASSUME NEW r \in Schedulers, Parking(r)', ~woken'[r], ~disturbed'[r], Active
      PROVE  Parking(r) /\ ~woken[r] /\ ~disturbed[r]
  <2>1. CASE r # s
    BY <1>3, <2>1 DEF Loop, Register, Load, Compare, Wake, FinishTick, Parking, GateInv, TypeOK
  <2>2. CASE r = s /\ Register(s)
    BY <1>3, <2>2 DEF Register, Parking, GateInv, TypeOK
  <2>3. CASE r = s /\ Load(s)
    BY <1>3, <2>3 DEF Load, Parking, Active, GateInv, TypeOK, Ages, Never
  <2>4. CASE r = s /\ Compare(s)
    BY <1>3, <2>4 DEF Compare, Parking, GateInv, TypeOK, Ages, Never
  <2>5. CASE r = s /\ Wake(s)
    BY <1>3, <2>5 DEF Wake, Parking, GateInv, TypeOK
  <2>6. CASE r = s /\ FinishTick(s)
    BY <1>3, <2>6 DEF FinishTick, Parking, GateInv, TypeOK
  <2> QED
    BY <2>1, <2>2, <2>3, <2>4, <2>5, <2>6 DEF Loop
<1>4. ASSUME NEW r \in Schedulers, Parking(r)', ~woken'[r], ~disturbed'[r], Active'
      PROVE  \E u \in Visitors : touchPc'[u] = "notifying"
  BY <1>2, <1>3, <1>4 DEF GateInv, Swapping, Active
<1> QED
  BY <1>1, <1>2, <1>4 DEF GateInv, Swapping

LEMMA StutterKeepsGate == GateInv /\ UNCHANGED gateVars => GateInv'
BY DEF gateVars, GateInv, TypeOK, Swapping, Comparing, Parking, Active

-----------------------------------------------------------------------------
(* GateInv holds in every reachable state: a loop the clock has not        *)
(* disturbed parks only on an idle tracker, or is about to be woken.       *)
THEOREM GateInvariance == Spec => []GateInv
<1>1. GateInv /\ [Next]_gateVars => GateInv'
  <2> SUFFICES ASSUME GateInv, [Next]_gateVars PROVE GateInv'
    OBVIOUS
  <2>1. CASE Tick \/ StepBack
    BY <2>1, TickKeepsGate, StepBackKeepsGate
  <2>2. ASSUME NEW v \in Visitors, Touch(v) PROVE GateInv'
    BY <2>2, ReadNowKeepsGate, SwapKeepsGate, NotifyKeepsGate DEF Touch
  <2>3. ASSUME NEW s \in Schedulers, Loop(s) PROVE GateInv'
    BY <2>3, LoopKeepsGate
  <2>4. CASE UNCHANGED gateVars
    BY <2>4, StutterKeepsGate
  <2> QED
    BY <2>1, <2>2, <2>3, <2>4 DEF Next
<1> QED
  BY <1>1, GateInitially, PTL DEF Spec

(* The promise of the comment in spawn_one, as far as it holds: a touch    *)
(* between the check and the await is not lost, whatever the order of the  *)
(* tasks, unless the clock disturbed the loop.                             *)
THEOREM LostOnlyToTheClock == Spec => []LostToTheClockOnly
<1>1. GateInv => LostToTheClockOnly
  BY DEF GateInv, LostToTheClockOnly, Parking
<1> QED
  BY <1>1, GateInvariance, PTL

-----------------------------------------------------------------------------
(* The refinement: each step of a task, of time or of the clock is a step  *)
(* of VisitGate, or none.                                                  *)

LEMMA QuietStep ==
    ASSUME Active' = Active, Asleep' = Asleep, Stranded' = Stranded
    PROVE  [Gate!GateNext]_Gate!visitGateVars
BY DEF Gate!visitGateVars

(* A tick puts to sleep only loops it disturbs.                            *)
LEMMA TickRefines ==
    ASSUME GateInv, Tick
    PROVE  [Gate!GateNext]_Gate!visitGateVars
<1> USE CapFacts DEF Comparing
<1>1. \A v \in Visitors : touchPc'[v] = "notifying" <=> touchPc[v] = "notifying"
  BY DEF Tick
<1>2. ASSUME NEW s \in Schedulers, Parking(s) PROVE Parking(s)'
  <2>1. lastAge[s] \in Ages
    BY DEF GateInv, TypeOK
  <2> QED
    BY <1>2, <2>1, AgeSteps DEF Tick, Parking, Ages, Never
<1>3. ASSUME NEW s \in Schedulers, Parking(s)', ~Parking(s) PROVE disturbed'[s]
  BY <1>3 DEF Tick, Parking
<1>4. Asleep \subseteq Asleep'
  BY <1>1, <1>2 DEF Tick, Asleep
<1>5. Stranded \cup (Asleep' \ Asleep) \subseteq Stranded'
  BY <1>1, <1>3 DEF Tick, Asleep, Stranded
<1>6. Active' => Active
  BY AgeSteps DEF GateInv, TypeOK, Tick, Ages, Never, Active
<1> QED
  BY <1>4, <1>5, <1>6 DEF Gate!GateNext, Gate!HeldUp

(* A clock that is set back puts nobody to sleep, and strands whoever is.  *)
LEMMA StepBackRefines ==
    ASSUME GateInv, StepBack
    PROVE  [Gate!GateNext]_Gate!visitGateVars
<1> USE CapFacts DEF Comparing
<1>1. ASSUME NEW s \in Schedulers, Parking(s)' PROVE Parking(s)
  <2>1. lastAge[s] \in Ages /\ lastAge'[s] \in Ages
    BY DEF GateInv, TypeOK, StepBack
  <2> QED
    BY <1>1, <2>1, AgeSteps DEF StepBack, Parking, Ages, Never
<1>2. Asleep' \subseteq Asleep
  BY <1>1 DEF StepBack, Asleep
<1>3. Asleep \cup Stranded \subseteq Stranded'
  BY ParkingRegistered DEF StepBack, Asleep, Stranded
<1> QED
  BY <1>2, <1>3 DEF Gate!GateNext, Gate!OutOfTime

(* A swap with a time that is not past is the visit: when it ends an idle  *)
(* gap it is about to notify, and from then on nobody is asleep.  A swap   *)
(* with a past time strands whoever is asleep.                             *)
LEMMA SwapRefines ==
    ASSUME GateInv, NEW v \in Visitors, Swap(v)
    PROVE  [Gate!GateNext]_Gate!visitGateVars
<1> USE CapFacts DEF Swapping
<1>1. age' = nowAge[v] /\ nowAge[v] \in Int /\ age \in Int
  BY DEF GateInv, TypeOK, Swap, SwapIn, Ages, Never
<1>2. \A u \in Visitors : touchPc[u] = "notifying" => touchPc'[u] = "notifying"
  BY DEF Swap, SwapIn, TouchTo, GateInv, TypeOK
<1>3. \A s \in Schedulers : (Parking(s)' <=> Parking(s)) /\ woken'[s] = woken[s]
  BY DEF Swap, SwapIn, Parking, Comparing
<1>4. CASE nowAge[v] > 0
  <2>1. Asleep' \subseteq Asleep
    BY <1>2, <1>3 DEF Asleep
  <2>2. Asleep \cup Stranded \subseteq Stranded'
    BY <1>4, ParkingRegistered DEF Swap, SwapIn, Asleep, Stranded
  <2> QED
    BY <2>1, <2>2 DEF Gate!GateNext, Gate!OutOfTime
<1>5. CASE ~(nowAge[v] > 0)
  <2>1. Active' = TRUE
    BY <1>1, <1>5 DEF Active
  <2>2. Stranded' = Stranded
    BY <1>5 DEF Swap, SwapIn, Stranded, GateInv, TypeOK
  <2>3. CASE age - nowAge[v] > IdleThreshold
    <3>1. touchPc'[v] = "notifying"
      BY <2>3 DEF Swap, TouchTo, GateInv, TypeOK
    <3>2. Asleep' = {}
      BY <3>1 DEF Asleep
    <3> QED
      BY <2>1, <2>2, <3>2 DEF Gate!GateNext, Gate!Visit
  <2>4. CASE ~(age - nowAge[v] > IdleThreshold)
    <3>1. Active
      BY <1>1, <1>5, <2>4 DEF Active
    <3>2. \A u \in Visitors : touchPc'[u] = "notifying" => touchPc[u] = "notifying"
      BY <2>4 DEF Swap, TouchTo, GateInv, TypeOK
    <3>3. Asleep' = Asleep
      BY <1>2, <1>3, <3>2 DEF Asleep
    <3> QED
      BY <2>1, <2>2, <3>1, <3>3 DEF Gate!GateNext, Gate!Visit
  <2> QED
    BY <2>3, <2>4
<1> QED
  BY <1>4, <1>5

LEMMA TouchRefines ==
    ASSUME GateInv, NEW v \in Visitors, Touch(v)
    PROVE  [Gate!GateNext]_Gate!visitGateVars
<1>1. CASE ReadNow(v)
  <2>1. \A u \in Visitors : touchPc'[u] = "notifying" <=> touchPc[u] = "notifying"
    BY <1>1 DEF ReadNow, TouchTo, GateInv, TypeOK
  <2> QED
    BY <1>1, <2>1, QuietStep DEF ReadNow, Asleep, Parking, Comparing, Active, Stranded
<1>2. CASE Swap(v)
  BY <1>2, SwapRefines
<1>3. CASE Notify(v)
  <2>1. Asleep = {}
    BY <1>3 DEF Notify, Asleep
  <2>2. \A s \in Schedulers : Parking(s)' => woken'[s]
    BY <1>3 DEF Notify, Parking, Comparing, HasNotified
  <2>3. Asleep' = {}
    BY <2>2 DEF Asleep
  <2> QED
    BY <1>3, <2>1, <2>3, QuietStep DEF Notify, Active, Stranded
<1> QED
  BY <1>1, <1>2, <1>3 DEF Touch

(* Only a loop that has loaded an idle tracker falls asleep.               *)
LEMMA LoopRefines ==
    ASSUME GateInv, NEW s \in Schedulers, Loop(s)
    PROVE  [Gate!GateNext]_Gate!visitGateVars
<1> USE CapFacts DEF LoopTo, Comparing
<1>1. Active' = Active /\ touchPc' = touchPc
  BY DEF Loop, Register, Load, Compare, Wake, FinishTick, Active
<1>2. ASSUME NEW r \in Schedulers, r # s
      PROVE  Parking(r)' = Parking(r) /\ woken'[r] = woken[r]
  BY <1>2 DEF Loop, Register, Load, Compare, Wake, FinishTick, Parking, GateInv, TypeOK
<1>3. CASE Load(s)
  <2>1. ~Parking(s) /\ woken' = woken
    BY <1>3 DEF Load, Parking
  <2>2. Parking(s)' => ~Active
    BY <1>3 DEF Load, Parking, Active, GateInv, TypeOK, Ages, Never
  <2>3. Asleep' = Asleep \/ (~Active /\ Asleep' = Asleep \cup {s})
    BY <1>1, <1>2, <2>1, <2>2 DEF Asleep
  <2> QED
    BY <1>1, <1>3, <2>3, QuietStep DEF Load, Stranded, Gate!GateNext, Gate!FallAsleep
<1>4. CASE ~Load(s)
  <2>1. (Parking(s) /\ ~woken[s])' <=> (Parking(s) /\ ~woken[s])
    <3>1. CASE Register(s)
      BY <3>1 DEF Register, Parking, GateInv, TypeOK
    <3>2. CASE Compare(s)
      BY <3>2 DEF Compare, Parking, GateInv, TypeOK, Ages, Never
    <3>3. CASE Wake(s)
      BY <3>3 DEF Wake, Parking, GateInv, TypeOK
    <3>4. CASE FinishTick(s)
      BY <3>4 DEF FinishTick, Parking, GateInv, TypeOK
    <3> QED
      BY <1>4, <3>1, <3>2, <3>3, <3>4 DEF Loop
  <2>2. Asleep' = Asleep
    BY <1>1, <1>2, <2>1 DEF Asleep
  <2>3. CASE FinishTick(s)
    <3>1. s \notin Asleep
      BY <2>3 DEF FinishTick, Asleep, Parking
    <3>2. Stranded' = Stranded \ {s}
      BY <2>3 DEF FinishTick, Stranded, GateInv, TypeOK
    <3> QED
      BY <1>1, <2>2, <3>1, <3>2 DEF Gate!GateNext, Gate!LoopTicks
  <2>4. CASE ~FinishTick(s)
    BY <1>1, <1>4, <2>2, <2>4, QuietStep DEF Loop, Register, Compare, Wake, Stranded
  <2> QED
    BY <2>3, <2>4
<1> QED
  BY <1>3, <1>4

(* The tracker and the loops implement VisitGate, on which DataPlane       *)
(* relies, for any number of visitors and loops and whatever the clock     *)
(* does to them.                                                           *)
THEOREM GateRefinement == Spec => ImplementsVisitGate
<1>1. Init => Gate!GateInit
  <2> SUFFICES ASSUME Init PROVE Active = FALSE /\ Asleep = {} /\ Stranded = {}
    BY DEF Gate!GateInit
  <2> QED
    BY CapFacts DEF Init, Active, Asleep, Parking, Comparing, Stranded, Never
<1>2. GateInv /\ [Next]_gateVars => [Gate!GateNext]_Gate!visitGateVars
  <2> SUFFICES ASSUME GateInv, [Next]_gateVars
               PROVE  [Gate!GateNext]_Gate!visitGateVars
    OBVIOUS
  <2>1. CASE Tick \/ StepBack
    BY <2>1, TickRefines, StepBackRefines
  <2>2. ASSUME NEW v \in Visitors, Touch(v) PROVE [Gate!GateNext]_Gate!visitGateVars
    BY <2>2, TouchRefines
  <2>3. ASSUME NEW s \in Schedulers, Loop(s) PROVE [Gate!GateNext]_Gate!visitGateVars
    BY <2>3, LoopRefines
  <2>4. CASE UNCHANGED gateVars
    BY <2>4, QuietStep DEF gateVars, Active, Asleep, Parking, Comparing, Stranded
  <2> QED
    BY <2>1, <2>2, <2>3, <2>4 DEF Next
<1> QED
  BY <1>1, <1>2, GateInvariance, PTL DEF Spec, ImplementsVisitGate, Gate!GateSpec
=============================================================================
