---------------------------- MODULE MCActivityGate ----------------------------
(* Small instances of ActivityGate for TLC.                                *)
EXTENDS ActivityGate

CONSTANTS visitor1, visitor2, now, profile
=============================================================================
