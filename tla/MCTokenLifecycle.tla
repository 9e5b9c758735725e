--------------------------- MODULE MCTokenLifecycle ---------------------------
(* Small instances of TokenLifecycle for TLC.                              *)
EXTENDS TokenLifecycle, TLC

CONSTANTS scheduler, visitor, admin, link1, link2

(* Handlers are interchangeable, and so are link attempts.                 *)
Interchangeable ==
    Permutations(Handlers) \cup Permutations(Links)
=============================================================================
