----------------------------- MODULE ActivityGate -----------------------------
(***************************************************************************)
(* app/activity.rs and the gate of the scheduler loop (app/scheduler.rs):  *)
(* visitors touch the tracker, schedulers park while nobody visits.        *)
(* touch() reads the clock, swaps last_seen_ms and notifies in three       *)
(* steps; is_active() loads last_seen_ms and reads the clock in two.       *)
(*                                                                         *)
(* Time is kept as ages: `age` is now minus last_seen_ms, and every copy   *)
(* of a time point that a task holds has its own age.  Ages stop growing   *)
(* at Cap, which is already idle for every comparison the code makes; a    *)
(* tracker that was never touched (last_seen_ms = 0) has age Never.  The   *)
(* wall clock may be set back: last_seen_ms then lies in the future, and   *)
(* its age is below zero until the clock has caught up.  The clock moves,  *)
(* either way, also between two reads of one task.                         *)
(***************************************************************************)
EXTENDS Integers

CONSTANTS
    Visitors,       \* /v1/* requests that may overlap, each at most one a tick
    Schedulers,     \* the tick loops
    IdleThreshold,  \* idle_threshold, in ticks of the clock
    Delay,          \* bound of the model: ticks a touch() may be held up between
                    \* its clock read and its swap
    Skew            \* bound of the model: ticks the clock may have been set back
                    \* and not caught up with yet

ASSUME GateAssumption == IdleThreshold \in Nat /\ Delay \in Nat /\ Skew \in Nat

VARIABLES
    age,      \* age of last_seen_ms
    touchPc,  \* where each visitor's touch() is
    nowAge,   \* age of the touch's now_ms
    loop,     \* where each scheduler loop is
    lastAge,  \* age of the scheduler's copy of last_seen_ms
    woken,    \* the loop's Notified future has been notified
    disturbed \* history: while the loop had its Notified the clock was set back,
              \* moved on between its two reads, or a touch swapped in a time it
              \* had read before the clock moved on

gateVars == <<age, touchPc, nowAge, loop, lastAge, woken, disturbed>>

Cap == IdleThreshold + 1 + Delay
Never == Cap + 1
Ages == -Skew..Never
Older(a) == IF a < Cap THEN a + 1 ELSE a
(* An age that has reached Cap stands for every greater one.               *)
Younger(a) == IF a = Never THEN {a} ELSE {a - 1} \cup ({a} \cap {Cap})

TouchState == {"idle", "swapping", "notifying", "done"}
LoopState == {"top", "loading", "comparing", "parked", "ticking", "sleeping"}

TypeOK ==
    /\ age \in Ages
    /\ touchPc \in [Visitors -> TouchState]
    /\ nowAge \in [Visitors -> -Skew..Delay]
    /\ loop \in [Schedulers -> LoopState]
    /\ lastAge \in [Schedulers -> Ages]
    /\ woken \in [Schedulers -> BOOLEAN]
    /\ disturbed \in [Schedulers -> BOOLEAN]

Init ==
    /\ age = Never
    /\ touchPc = [v \in Visitors |-> "idle"]
    /\ nowAge = [v \in Visitors |-> 0]
    /\ loop = [s \in Schedulers |-> "top"]
    /\ lastAge = [s \in Schedulers |-> 0]
    /\ woken = [s \in Schedulers |-> FALSE]
    /\ disturbed = [s \in Schedulers |-> FALSE]

-----------------------------------------------------------------------------
(* The tasks that hold a time point.                                       *)
Swapping(v) == touchPc[v] = "swapping"
Comparing(s) == loop[s] = "comparing"

(* The clock moves on, as far as Delay lets it.  A tick ends the sleeps of *)
(* one interval; a loop that is due may still start late.  Visitors may    *)
(* come again.                                                             *)
Tick ==
    /\ \A v \in Visitors : Swapping(v) => nowAge[v] < Delay
    /\ age' = Older(age)
    /\ nowAge' = [v \in Visitors |-> IF Swapping(v) THEN nowAge[v] + 1 ELSE nowAge[v]]
    /\ lastAge' = [s \in Schedulers |->
         IF Comparing(s) THEN Older(lastAge[s]) ELSE lastAge[s]]
    /\ loop' = [s \in Schedulers |-> IF loop[s] = "sleeping" THEN "top" ELSE loop[s]]
    /\ touchPc' = [v \in Visitors |-> IF touchPc[v] = "done" THEN "idle" ELSE touchPc[v]]
    /\ disturbed' = [s \in Schedulers |-> disturbed[s] \/ Comparing(s)]
    /\ UNCHANGED woken

(* The loop's Notified future exists.                                      *)
HasNotified(s) == loop[s] \in {"loading", "comparing", "parked"}

(* The wall clock is set back by one tick.                                 *)
StepBack ==
    /\ age > -Skew
    /\ \A v \in Visitors : Swapping(v) => nowAge[v] > -Skew
    /\ \A s \in Schedulers : Comparing(s) => lastAge[s] > -Skew
    /\ age' \in Younger(age)
    /\ nowAge' = [v \in Visitors |-> IF Swapping(v) THEN nowAge[v] - 1 ELSE nowAge[v]]
    /\ lastAge' \in [Schedulers -> Ages]
    /\ \A s \in Schedulers :
         lastAge'[s] \in IF Comparing(s) THEN Younger(lastAge[s]) ELSE {lastAge[s]}
    /\ disturbed' = [s \in Schedulers |-> disturbed[s] \/ HasNotified(s)]
    /\ UNCHANGED <<touchPc, loop, woken>>

-----------------------------------------------------------------------------
TouchTo(v, label) == touchPc' = [touchPc EXCEPT ![v] = label]

(* touch(): now_ms().                                                      *)
ReadNow(v) ==
    /\ touchPc[v] = "idle"
    /\ TouchTo(v, "swapping")
    /\ UNCHANGED <<age, nowAge, loop, lastAge, woken, disturbed>>

(* touch(): last_seen_ms.swap(now_ms), and the comparison of the gap, a    *)
(* saturating subtraction, with the threshold.                             *)
SwapIn(v) ==
    /\ Swapping(v)
    /\ age' = nowAge[v]
    /\ nowAge' = [nowAge EXCEPT ![v] = 0]
    /\ disturbed' = [s \in Schedulers |-> disturbed[s] \/ (nowAge[v] > 0 /\ HasNotified(s))]
    /\ UNCHANGED <<loop, lastAge, woken>>

MutSwapOffByOne(v) ==
    /\ SwapIn(v)
    /\ TouchTo(v, IF age - nowAge[v] > IdleThreshold + 1 THEN "notifying" ELSE "done")

MutSwapFirstOnly(v) ==
    /\ SwapIn(v)
    /\ TouchTo(v, IF age = Never THEN "notifying" ELSE "done")

Swap(v) ==
    /\ SwapIn(v)
    /\ TouchTo(v, IF age - nowAge[v] > IdleThreshold THEN "notifying" ELSE "done")

(* woke.notify_waiters(): every Notified that exists is notified, awaited  *)
(* already or not.                                                         *)
MutNotifyParked(v) ==
    /\ touchPc[v] = "notifying"
    /\ TouchTo(v, "done")
    /\ woken' = [s \in Schedulers |-> woken[s] \/ loop[s] = "parked"]
    /\ UNCHANGED <<age, nowAge, loop, lastAge, disturbed>>

Notify(v) ==
    /\ touchPc[v] = "notifying"
    /\ TouchTo(v, "done")
    /\ woken' = [s \in Schedulers |-> woken[s] \/ HasNotified(s)]
    /\ UNCHANGED <<age, nowAge, loop, lastAge, disturbed>>

Touch(v) == ReadNow(v) \/ Swap(v) \/ Notify(v)

-----------------------------------------------------------------------------
LoopTo(s, label) == loop' = [loop EXCEPT ![s] = label]

(* woke.notified(), before the check.                                      *)
Register(s) ==
    /\ loop[s] = "top"
    /\ LoopTo(s, "loading")
    /\ woken' = [woken EXCEPT ![s] = FALSE]
    /\ UNCHANGED <<age, touchPc, nowAge, lastAge, disturbed>>

(* is_active(): last_seen_ms.load().                                       *)
Load(s) ==
    /\ loop[s] = "loading"
    /\ LoopTo(s, "comparing")
    /\ lastAge' = [lastAge EXCEPT ![s] = age]
    /\ UNCHANGED <<age, touchPc, nowAge, woken, disturbed>>

(* is_active(): now_ms() against the loaded value; an idle tracker parks   *)
(* the loop on its Notified.                                               *)
Compare(s) ==
    /\ loop[s] = "comparing"
    /\ LoopTo(s, IF lastAge[s] <= IdleThreshold THEN "ticking" ELSE "parked")
    /\ lastAge' = [lastAge EXCEPT ![s] = 0]
    /\ UNCHANGED <<age, touchPc, nowAge, woken, disturbed>>

(* notified.await returns.                                                 *)
Wake(s) ==
    /\ loop[s] = "parked"
    /\ woken[s]
    /\ LoopTo(s, "ticking")
    /\ UNCHANGED <<age, touchPc, nowAge, lastAge, woken, disturbed>>

(* The tick itself, skipped or not, up to the sleep of one interval.       *)
MutFinishTickTouches(s) ==
    /\ loop[s] = "ticking"
    /\ LoopTo(s, "sleeping")
    /\ age' = 0
    /\ woken' = [woken EXCEPT ![s] = FALSE]
    /\ disturbed' = [disturbed EXCEPT ![s] = FALSE]
    /\ UNCHANGED <<touchPc, nowAge, lastAge>>

FinishTick(s) ==
    /\ loop[s] = "ticking"
    /\ LoopTo(s, "sleeping")
    /\ woken' = [woken EXCEPT ![s] = FALSE]
    /\ disturbed' = [disturbed EXCEPT ![s] = FALSE]
    /\ UNCHANGED <<age, touchPc, nowAge, lastAge>>

Loop(s) == Register(s) \/ Load(s) \/ Compare(s) \/ Wake(s) \/ FinishTick(s)

Next ==
    \/ Tick
    \/ StepBack
    \/ \E v \in Visitors : Touch(v)
    \/ \E s \in Schedulers : Loop(s)

Spec == Init /\ [][Next]_gateVars

(* The runtime polls every task that is ready; a touch() that has begun    *)
(* runs to its end, since it has no await.  Time passes.                   *)
FairSpec ==
    /\ Spec
    /\ WF_gateVars(Tick)
    /\ \A v \in Visitors : WF_gateVars(Swap(v) \/ Notify(v))
    /\ \A s \in Schedulers : WF_gateVars(Loop(s))

-----------------------------------------------------------------------------
(* What is_active() would answer now.                                      *)
Active == age <= IdleThreshold

(* No wake-up is lost: a loop stays parked only while nobody has visited   *)
(* within the threshold, or while the touch that will wake it is on its    *)
(* way to notify_waiters().  It is what "register before check" in         *)
(* spawn_one is for: a touch between the check and the await is not lost.  *)
NoLostWakeUp == \A s \in Schedulers :
    loop[s] = "parked" /\ ~woken[s] /\ Active
        => \E v \in Visitors : touchPc[v] = "notifying"

(* Where that claim holds: whatever the tasks do, and in whatever order,   *)
(* only a clock that was set back, or that moved on between two reads of   *)
(* one task, loses a wake-up, and only of the loops it has disturbed.      *)
LostToTheClockOnly == \A s \in Schedulers :
    loop[s] = "parked" /\ ~woken[s] /\ ~disturbed[s] /\ Active
        => \E v \in Visitors : touchPc[v] = "notifying"

Visiting == \E v \in Visitors : Swapping(v)

(* As long as visitors keep coming every loop keeps ticking, unless the    *)
(* clock disturbs it.                                                      *)
VisitsKeepTicking == \A s \in Schedulers :
    <>[]~disturbed[s] /\ []<>Visiting => []<>(loop[s] = "ticking")

(* A loop that sleeps on after the clock disturbed it recovers with the    *)
(* next visit that ends an idle gap, one that is longer than a touch is    *)
(* held up.                                                                *)
GapsKeepTicking == \A s \in Schedulers :
    <>[][~StepBack]_gateVars /\ []<>Visiting /\ []<>(age >= Cap)
        => []<>(loop[s] = "ticking")

(* With nobody visiting, Spotify is left alone: every loop parks for good, *)
(* once the clock has caught up with the last visit.                       *)
IdleParks == \A s \in Schedulers :
    <>[][~StepBack]_gateVars /\ <>[]~Visiting => <>[](loop[s] = "parked")

(* A loop that is parked, or has loaded an age it will park on.            *)
Parking(s) == loop[s] = "parked" \/ (Comparing(s) /\ lastAge[s] > IdleThreshold)

(* LostToTheClockOnly with what a step preserves it from: a loop that is   *)
(* about to park on what it has loaded will find the tracker idle, or be   *)
(* woken.                                                                  *)
GateInv ==
    /\ TypeOK
    /\ \A v \in Visitors : ~Swapping(v) => nowAge[v] = 0
    /\ \A s \in Schedulers :
         Parking(s) /\ ~woken[s] /\ ~disturbed[s] /\ Active
             => \E v \in Visitors : touchPc[v] = "notifying"

-----------------------------------------------------------------------------
(* The tracker implements the gate DataPlane relies on.  A loop is asleep  *)
(* when nothing that has happened so far will wake it.                     *)
Asleep == {s \in Schedulers :
    Parking(s) /\ ~woken[s] /\ \A v \in Visitors : touchPc[v] # "notifying"}

Stranded == {s \in Schedulers : disturbed[s]}

Gate == INSTANCE VisitGate
    WITH Loops <- Schedulers, active <- Active, asleep <- Asleep, stranded <- Stranded

(* Swap, load and notification, in whatever order the tasks take them,     *)
(* amount to visits that wake every loop when they end an idle gap.        *)
ImplementsVisitGate == Gate!GateSpec
=============================================================================
