----------------------------- MODULE RefreshCell -----------------------------
(***************************************************************************)
(* What the token lifecycle promises, without tasks, locks or servers: a   *)
(* cell that holds one record, at most one refresh in flight, and a latch. *)
(*   - a refresh departs from the record the cell holds, and only with the *)
(*     latch down;                                                         *)
(*   - it ends by landing a newer access token of the same authorization,  *)
(*     by raising the latch, or without a trace;                           *)
(*   - apart from a landing, only a link replaces the record, and it       *)
(*     brings an authorization the cell was not holding;                   *)
(*   - only the clearing of a link, or a restart, lowers the latch.        *)
(***************************************************************************)
EXTENDS Integers

VARIABLES
    cell,     \* the record held, Empty at first
    latched,  \* the refresh token was found dead
    flight    \* the record being refreshed, Empty when none is

cellVars == <<cell, latched, flight>>

CellRecord == [access: Nat, refresh: Nat, grant: Nat]
Empty == [access |-> 0, refresh |-> 0, grant |-> 0]

CellInit == cell \in CellRecord /\ latched = FALSE /\ flight = Empty

Depart ==
    /\ flight = Empty
    /\ ~latched
    /\ cell # Empty
    /\ flight' = cell
    /\ UNCHANGED <<cell, latched>>

Land ==
    /\ flight # Empty
    /\ cell' \in CellRecord
    /\ cell'.grant = flight.grant
    /\ cell'.access > flight.access
    /\ flight' = Empty
    /\ UNCHANGED latched

Abort ==
    /\ flight # Empty
    /\ flight' = Empty
    /\ UNCHANGED <<cell, latched>>

Reject ==
    /\ flight # Empty
    /\ flight' = Empty
    /\ latched' = TRUE
    /\ UNCHANGED cell

Relink ==
    /\ cell' \in CellRecord
    /\ cell'.grant # cell.grant
    /\ UNCHANGED <<latched, flight>>

Clear == latched' = FALSE /\ UNCHANGED <<cell, flight>>

Restart == latched' = FALSE /\ flight' = Empty /\ UNCHANGED cell

CellNext ==
    \/ Depart
    \/ Land
    \/ Abort
    \/ Reject
    \/ Relink
    \/ Clear
    \/ Restart

CellSpec == CellInit /\ [][CellNext]_cellVars
=============================================================================
