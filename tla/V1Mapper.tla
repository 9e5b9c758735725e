-------------------------------- MODULE V1Mapper --------------------------------
(***************************************************************************)
(* app/v1_mapper.rs: from a Spotify response to the payload served, and    *)
(* the tags that app/scheduler.rs adds to it.                              *)
(*                                                                         *)
(* A leaf of a JSON body is <<v>>, or <<>> when it is absent, null or of   *)
(* another type, and a list that is absent is an empty one: the mapper     *)
(* cannot tell these apart.  An object that is absent has absent leaves;   *)
(* only `item` of /v1/me/player is told from an empty object, and is a     *)
(* leaf.  The names that artists_joined joins are kept as a sequence.      *)
(***************************************************************************)
EXTENDS Naturals, Sequences

(* An object with the fields of two; f's where both have one.              *)
Merge(f, g) ==
    [x \in DOMAIN f \cup DOMAIN g |-> IF x \in DOMAIN f THEN f[x] ELSE g[x]]

Or(leaf, default) == IF leaf = <<>> THEN default ELSE Head(leaf)
Text(leaf) == Or(leaf, "")
Number(leaf) == Or(leaf, 0)

total_in(total) == Number(total)

(* Artists without a name are left out.                                    *)
artists_joined(names) ==
    LET named == SelectSeq(names, LAMBDA name : name # <<>>)
    IN  [i \in DOMAIN named |-> Head(named[i])]

(* The first image counts, whether or not it has a url.                    *)
first_image_url(images) == IF images = <<>> THEN "" ELSE Text(Head(images))

(* What map_now, map_recent_item and map_top_track read of a track.        *)
Track(t) ==
    [track |-> Text(t.name), artist |-> artists_joined(t.artists), album |-> Text(t.album),
     cover |-> first_image_url(t.images), duration_ms |-> Number(t.duration_ms)]

MapEach(items, Map(_, _)) == [i \in DOMAIN items |-> Map(i, items[i])]

map_profile(me, following, playlists_count) ==
    [display_name |-> Text(me.display_name), handle |-> Text(me.id),
     avatar |-> first_image_url(me.images), followers |-> Number(me.followers),
     following |-> following, playlists_count |-> playlists_count,
     profile_url |-> Text(me.url)]

NotPlaying == [playing |-> FALSE]

map_now(p) ==
    IF p.item = <<>> THEN NotPlaying
    ELSE Merge([playing |-> Or(p.is_playing, FALSE), progress_ms |-> Number(p.progress_ms),
                device |-> Text(p.device)], Track(Head(p.item)))

map_recent_item(i, entry) == Merge([played_at |-> Text(entry.played_at)], Track(entry))
map_recent(raw) == [items |-> MapEach(raw.items, map_recent_item)]

MutMapTopTrackFromZero(rank, t) == Merge([rank |-> rank - 1], Track(t))

(* rank counts from 1.                                                     *)
map_top_track(rank, t) == Merge([rank |-> rank], Track(t))
map_top_tracks(raw) == [range |-> "short_term", items |-> MapEach(raw.items, map_top_track)]

(* The live field first, also when it says 0; then the deprecated one.     *)
map_playlist_item(i, p) ==
    [name |-> Text(p.name), owner |-> Text(p.owner), cover |-> first_image_url(p.images),
     tracks_count |-> Or(p.items_total, Number(p.tracks_total)), url |-> Text(p.url)]

(* total is Spotify's own, which counts playlists beyond this page.        *)
map_playlists(raw) ==
    [items |-> MapEach(raw.items, map_playlist_item), total |-> Number(raw.total)]

-----------------------------------------------------------------------------
MockMark == [tag \in {"_mock"} |-> TRUE]

MutTagMockAlways(mock_data, payload) == Merge(MockMark, payload)

(* The payload of a mock process says so.                                  *)
tag_mock(mock_data, payload) ==
    IF mock_data THEN Merge(MockMark, payload) ELSE payload

(* In seconds, SchedulerIntervals::default().                              *)
interval_for(kind) == IF kind = "now" THEN 7 ELSE 300
tag_refresh(kind, payload) == Merge([refresh_ms |-> 1000 * interval_for(kind)], payload)
=============================================================================
