------------------------------ MODULE MCGovernor ------------------------------
(* Governor with the numbers of ReqwestSpotifyClient::new: a tick is half  *)
(* a second, so that 1500 ms are 3 ticks and 30 s are 60.                  *)
EXTENDS Governor

(* domain/spotify.rs and spec 5.5: at most 30 requests in 30 s.            *)
ThirtyPerThirtySeconds == AtMost(30)
=============================================================================
