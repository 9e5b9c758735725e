------------------------------ MODULE MCDataPlane ------------------------------
(* Small instances of DataPlane for TLC: the visitors and owners by name.  *)
EXTENDS DataPlane

CONSTANTS visitor1, admin1
=============================================================================
