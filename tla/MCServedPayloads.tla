---------------------------- MODULE MCServedPayloads ----------------------------
(* A small instance of ServedPayloads for TLC: the visitor by name.        *)
EXTENDS ServedPayloads

CONSTANT visitor1
=============================================================================
