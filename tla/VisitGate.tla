------------------------------- MODULE VisitGate -------------------------------
(***************************************************************************)
(* What the activity tracker (app/activity.rs) promises the scheduler      *)
(* loops: a loop falls asleep only while nobody visits, and the visit that *)
(* ends an idle gap wakes every loop in the same step.                     *)
(***************************************************************************)
CONSTANT Loops  \* the scheduler loops

VARIABLES
    active,  \* somebody has visited within the threshold
    asleep,  \* the loops that only a visit can wake
    stranded \* the loops the clock has disturbed since they last ticked

visitGateVars == <<active, asleep, stranded>>

GateInit == active = FALSE /\ asleep = {} /\ stranded = {}

(* A visit while the service is active need not wake anybody.              *)
Visit ==
    /\ active' = TRUE
    /\ asleep' = {} \/ (active /\ asleep' = asleep)
    /\ UNCHANGED stranded

FallAsleep(s) ==
    /\ ~active
    /\ asleep' = asleep \cup {s}
    /\ UNCHANGED <<active, stranded>>

(* The threshold passes without a visit.                                   *)
GoIdle ==
    /\ active' = FALSE
    /\ UNCHANGED <<asleep, stranded>>

(* A loop that is awake ticks.                                             *)
LoopTicks(s) ==
    /\ s \notin asleep
    /\ stranded' = stranded \ {s}
    /\ UNCHANGED <<active, asleep>>

(* A clock that is set back, or a visit with a time that has passed: the   *)
(* service may become active or idle, some loops may wake, or not fall     *)
(* asleep after all, and whoever sleeps on is stranded.                    *)
OutOfTime ==
    /\ asleep \cup stranded \subseteq stranded'
    /\ asleep' \subseteq asleep

(* The threshold passes while a loop decides: it may fall asleep on what   *)
(* it has read before.                                                     *)
HeldUp ==
    /\ active' => active
    /\ asleep \subseteq asleep'
    /\ stranded \cup (asleep' \ asleep) \subseteq stranded'

GateNext ==
    \/ Visit
    \/ \E s \in Loops : FallAsleep(s) \/ LoopTicks(s)
    \/ GoIdle
    \/ OutOfTime
    \/ HeldUp

GateSpec == GateInit /\ [][GateNext]_visitGateVars
=============================================================================
