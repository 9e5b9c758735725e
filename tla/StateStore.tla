------------------------------ MODULE StateStore ------------------------------
(***************************************************************************)
(* app/state_store.rs: the CSRF states of pending logins.  /login issues   *)
(* one, /callback consumes it; the map is behind one Mutex, so that each   *)
(* operation is one step.  Callbacks may repeat (the browser reloads the   *)
(* page), come late, or name a state this process never issued.            *)
(***************************************************************************)
EXTENDS Integers

CONSTANTS
    States,  \* the random values issue() may draw; it draws none twice
    Ttl,     \* StateStore::ttl, in ticks
    Forget   \* bound of the model: ticks after which ages are all alike

ASSUME TtlAssumption == Ttl \in Nat /\ Forget \in Nat /\ Forget > Ttl

VARIABLES
    entries,   \* the map: ticks left to the expiry, of the states it holds
    age,       \* history: ticks since a state was issued, as far as Forget
    drawn,     \* history: states ever issued
    accepted   \* history: how often a callback with the state was let through

storeVars == <<entries, age, drawn, accepted>>

StoreInit ==
    /\ entries = [s \in {} |-> 0]
    /\ age = [s \in States |-> 0]
    /\ drawn = {}
    /\ accepted = [s \in States |-> 0]

(* issue(): a new random state, due Ttl from now.                          *)
Issue(s) ==
    /\ s \notin drawn
    /\ drawn' = drawn \cup {s}
    /\ entries' = [t \in DOMAIN entries \cup {s} |-> IF t = s THEN Ttl ELSE entries[t]]
    /\ age' = [age EXCEPT ![s] = 0]
    /\ UNCHANGED accepted

Without(s) == [t \in DOMAIN entries \ {s} |-> entries[t]]

(* consume(s): remove the entry; true iff there was one and it had not     *)
(* expired.                                                                *)
MutConsumeKeeps(s) ==
    /\ accepted' = [accepted EXCEPT ![s] =
         IF s \in DOMAIN entries /\ entries[s] > 0 THEN @ + 1 ELSE @]
    /\ UNCHANGED <<entries, age, drawn>>

MutConsumeInclusive(s) ==
    /\ entries' = Without(s)
    /\ accepted' = [accepted EXCEPT ![s] =
         IF s \in DOMAIN entries /\ entries[s] >= 0 THEN @ + 1 ELSE @]
    /\ UNCHANGED <<age, drawn>>

Consume(s) ==
    /\ entries' = Without(s)
    /\ accepted' = [accepted EXCEPT ![s] =
         IF s \in DOMAIN entries /\ entries[s] > 0 THEN @ + 1 ELSE @]
    /\ UNCHANGED <<age, drawn>>

(* A restart drops pending logins; the browser still has their states.     *)
StoreRestart ==
    /\ entries' = [s \in {} |-> 0]
    /\ UNCHANGED <<age, drawn, accepted>>

StoreTick ==
    /\ entries' = [s \in DOMAIN entries |->
         IF entries[s] > Ttl - Forget THEN entries[s] - 1 ELSE entries[s]]
    /\ age' = [s \in States |->
         IF s \in drawn /\ age[s] < Forget THEN age[s] + 1 ELSE age[s]]
    /\ UNCHANGED <<drawn, accepted>>

StoreNext ==
    \/ \E s \in States : Issue(s) \/ Consume(s)
    \/ StoreRestart
    \/ StoreTick

StoreSpec == StoreInit /\ [][StoreNext]_storeVars

-----------------------------------------------------------------------------
(* A state lets one callback through at most, however often the callback   *)
(* is repeated, and whatever restarts lie between.                         *)
SingleUse == \A s \in States : accepted[s] <= 1

(* A callback is let through only for a state that was issued less than    *)
(* Ttl ago: a Ttl of 0 lets none through (criterion 1).                    *)
NoneLate == [][\A s \in States :
    accepted'[s] > accepted[s] => s \in drawn /\ age[s] < Ttl]_storeVars

(* A state that is still in the map was issued and has let nobody through, *)
(* and what is left of its time and its age make up Ttl.                   *)
PendingInv ==
    /\ drawn \subseteq States
    /\ DOMAIN entries \subseteq drawn
    /\ age \in [States -> 0..Forget]
    /\ accepted \in [States -> Nat]
    /\ \A s \in DOMAIN entries : entries[s] = Ttl - age[s]
    /\ \A s \in DOMAIN entries : accepted[s] = 0
    /\ \A s \in States \ drawn : accepted[s] = 0
=============================================================================
