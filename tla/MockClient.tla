------------------------------- MODULE MockClient -------------------------------
(***************************************************************************)
(* infra/mock_spotify_client.rs: the canned response of each path that     *)
(* app/scheduler.rs asks for, in the leaves V1Mapper reads.  Lists are cut *)
(* to two entries, texts to their kind; the totals are the fixtures'.      *)
(***************************************************************************)
EXTENDS Naturals, Sequences, TLC

MockTrack ==
    [name |-> <<"track">>, artists |-> <<<<"artist">>>>, album |-> <<"album">>,
     images |-> <<<<"large">>, <<"small">>>>, duration_ms |-> <<240960>>]

MockPlay == [played_at |-> <<"instant">>] @@ MockTrack

MockPlaylist(tracks) ==
    [name |-> <<"playlist">>, owner |-> <<"owner">>, images |-> <<<<"large">>>>,
     items_total |-> <<tracks>>, tracks_total |-> <<>>, url |-> <<"url">>]

(* The query string plays no part: the list of playlists and the call that *)
(* only counts them have one fixture.                                      *)
get_json(path) ==
    CASE path = "/v1/me" ->
           [id |-> <<"yudyack_dev">>, display_name |-> <<"name">>, images |-> <<<<"large">>>>,
            followers |-> <<64>>, url |-> <<"url">>]
      [] path = "/v1/me/following" -> [total |-> <<17>>]
      [] path = "/v1/me/playlists" ->
           [total |-> <<9>>, items |-> <<MockPlaylist(48), MockPlaylist(23)>>]
      [] path = "/v1/me/player" ->
           [item |-> <<MockTrack>>, is_playing |-> <<TRUE>>, progress_ms |-> <<84210>>,
            device |-> <<"device">>]
      [] path = "/v1/me/player/recently-played" -> [items |-> <<MockPlay, MockPlay>>]
      [] path = "/v1/me/top/tracks" -> [items |-> <<MockTrack, MockTrack>>]
=============================================================================
