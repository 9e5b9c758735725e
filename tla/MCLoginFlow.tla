----------------------------- MODULE MCLoginFlow -----------------------------
(* Small instances of LoginFlow for TLC.                                   *)
EXTENDS LoginFlow, TLC

CONSTANTS state1, state2, callback1, callback2, visitor

Interchangeable == Permutations(States) \cup Permutations(Callbacks)
=============================================================================
