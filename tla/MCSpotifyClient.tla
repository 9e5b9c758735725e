---------------------------- MODULE MCSpotifyClient ----------------------------
(* Small instances of SpotifyClient for TLC.                               *)
EXTENDS SpotifyClient

CONSTANTS call1, call2
=============================================================================
