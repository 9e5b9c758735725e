--------------------------- MODULE MCServiceProcess ---------------------------
(* Two processes, and responses with absent leaves in the places where the *)
(* mapper has a default: a whole track, a bare one, one whose artists and  *)
(* images are named in part.                                               *)
EXTENDS ServiceProcess

CONSTANTS process1, process2

Whole == [played_at |-> <<"t">>, name |-> <<"a">>, artists |-> <<<<"x">>, <<"y">>>>,
          album |-> <<"b">>, images |-> <<<<"u">>>>, duration_ms |-> <<5>>]
Bare == [played_at |-> <<>>, name |-> <<>>, artists |-> <<>>, album |-> <<>>,
         images |-> <<>>, duration_ms |-> <<>>]
InPart == [Bare EXCEPT !.artists = <<<<>>, <<"y">>>>, !.images = <<<<>>, <<"u">>>>]
Tracks == {Whole, Bare, InPart}
TrackLists == {<<>>} \cup {<<t>> : t \in Tracks} \cup {<<t, u>> : t, u \in Tracks}

Playlist(live, legacy) ==
    [name |-> <<"p">>, owner |-> <<>>, images |-> <<>>, items_total |-> live,
     tracks_total |-> legacy, url |-> <<>>]
Playlists == {Playlist(live, legacy) : live, legacy \in {<<>>, <<0>>, <<3>>}}

MCBodies == [path \in {"/v1/me", "/v1/me/following", "/v1/me/playlists", "/v1/me/player",
                       "/v1/me/player/recently-played", "/v1/me/top/tracks"} |->
    CASE path = "/v1/me" ->
           {[id |-> <<"me">>, display_name |-> d, images |-> i, followers |-> <<2>>, url |-> <<>>] :
              d \in {<<>>, <<"d">>}, i \in {<<>>, <<<<>>>>, <<<<"u">>>>}}
      [] path = "/v1/me/following" -> {[total |-> <<>>], [total |-> <<4>>]}
      [] path = "/v1/me/playlists" ->
           {[total |-> n, items |-> <<p>>] : n \in {<<>>, <<9>>}, p \in Playlists}
      [] path = "/v1/me/player" ->
           {[item |-> i, is_playing |-> b, progress_ms |-> <<1>>, device |-> <<>>] :
              i \in {<<>>} \cup {<<t>> : t \in Tracks}, b \in {<<>>, <<TRUE>>, <<FALSE>>}}
      [] OTHER -> {[items |-> items] : items \in TrackLists}]
=============================================================================
