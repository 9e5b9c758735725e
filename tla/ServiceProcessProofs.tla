-------------------------- MODULE ServiceProcessProofs --------------------------
(***************************************************************************)
(* Any number of processes on one host, starting, failing and stopping in  *)
(* any order, with any environment and any answers of Spotify.             *)
(***************************************************************************)
EXTENDS ServiceProcess, TLAPS

(* What ProcessInv says of one process.                                    *)
Ready(p) ==
    /\ stage[p] \in {"spawning", "serving"} <=> port = p
    /\ p \in polling => stage[p] = "serving"
    /\ stage[p] \in Wired \cup {"seeding"} => schema
    /\ stage[p] \in Wired /\ mock_data[p] => row # "none"
    /\ reauth[p] => stage[p] = "serving" /\ ~mock_data[p]

(* And of the payload.                                                     *)
Held == cell # NoPayload => cell.by \in polling

LEMMA InvParts == ProcessInv <=> ProcessTypeOK /\ Held /\ \A p \in Processes : Ready(p)
BY DEF ProcessInv, Ready, Held

LEMMA InitProcess == ASSUME ProcessInit PROVE ProcessInv
<1>1. cell.by \in Processes \cup {NoProcess}
  BY DEF ProcessInit, NoPayload
<1>2. ProcessTypeOK
  BY <1>1 DEF ProcessInit, ProcessTypeOK, Stages
<1>3. ASSUME NEW p \in Processes PROVE Ready(p)
  BY <1>3, ProcessAssumption DEF ProcessInit, Ready, Wired
<1>4. Held
  BY DEF ProcessInit, Held
<1> QED
  BY <1>2, <1>3, <1>4, InvParts

(* Whatever is fetched is stored in the name of the process; a fetch may   *)
(* raise its flag, unless it serves fixtures.                              *)
LEMMA FetchedBy ==
    ASSUME NEW p \in Processes, Fetched(p)
    PROVE  /\ cell'.by = p
           /\ reauth' = reauth \/ (~mock_data[p] /\ reauth' = [reauth EXCEPT ![p] = TRUE])
           /\ DOMAIN listed = Processes => DOMAIN listed' = Processes
BY DEF Fetched, FetchNow, FetchRecent, FetchTop, FetchProfile, FetchPlaylists, Into

(* A step of init or main that touches neither the port nor the loops.     *)
LEMMA StepReady ==
    ASSUME ProcessInv, NEW p \in Processes, NEW to \in Stages \ {"spawning", "serving"},
           stage[p] \notin {"spawning", "serving"}, GoTo(p, to),
           UNCHANGED <<port, polling, reauth>>,
           \A q \in Processes \ {p} : mock_data'[q] = mock_data[q],
           schema => schema', row # "none" => row' # "none",
           to \in Wired \cup {"seeding"} => schema',
           to \in Wired /\ mock_data'[p] => row' # "none"
    PROVE  \A q \in Processes : Ready(q)'
BY DEF ProcessInv, ProcessTypeOK, Ready, GoTo

LEMMA StartKeeps ==
    ASSUME ProcessInv, NEW p \in Processes,
           Start(p) \/ Connect(p) \/ RunMigrations(p) \/ SeedMockToken(p) \/ Wire(p) \/ FromEnv(p)
    PROVE  ProcessInv'
<1>1. ProcessTypeOK'
  BY DEF Start, Connect, RunMigrations, SeedMockToken, Wire, FromEnv, Step, GoTo, memory,
         database, ProcessInv, ProcessTypeOK, Stages
<1>2. \A q \in Processes : Ready(q)'
  <2>1. CASE Start(p) \/ Connect(p) \/ Wire(p)
    BY <2>1, StepReady DEF Start, Connect, Wire, Step, memory, database, ProcessInv, Stages, Wired
  <2>2. CASE RunMigrations(p)
    BY <2>2, StepReady DEF RunMigrations, Step, memory, ProcessInv, Stages, Wired
  <2>3. CASE SeedMockToken(p)
    BY <2>3, StepReady DEF SeedMockToken, Step, memory, ProcessInv, Stages, Wired
  <2>4. CASE FromEnv(p)
    <3>1. /\ stage[p] = "configuring" /\ GoTo(p, "connecting")
          /\ UNCHANGED <<polling, reauth, port, schema, row>>
      BY <2>4 DEF FromEnv, Step, database
    <3>2. \A q \in Processes \ {p} : mock_data'[q] = mock_data[q]
      BY <2>4 DEF FromEnv, ProcessInv, ProcessTypeOK
    <3> QED
      BY <3>1, <3>2, StepReady DEF Stages, Wired
  <2> QED
    BY <2>1, <2>2, <2>3, <2>4
<1>3. Held'
  BY DEF Start, Connect, RunMigrations, SeedMockToken, Wire, FromEnv, memory, ProcessInv,
         Held, NoPayload
<1> QED
  BY <1>1, <1>2, <1>3 DEF ProcessInv, Ready, Held

LEMMA ListenKeeps ==
    ASSUME ProcessInv, NEW p \in Processes, Bind(p) \/ SpawnSchedulers(p) PROVE ProcessInv'
BY ProcessAssumption DEF Bind, SpawnSchedulers, Step, GoTo, memory, database, ProcessInv,
     ProcessTypeOK, Stages, Wired

LEMMA StopKeeps ==
    ASSUME ProcessInv, NEW p \in Processes, Stop(p) PROVE ProcessInv'
<1>1. ProcessTypeOK'
  BY ProcessAssumption DEF Stop, Exit, GoTo, database, ProcessInv, ProcessTypeOK, Stages, NoPayload
<1>2. ASSUME NEW q \in Processes PROVE Ready(q)'
  BY ProcessAssumption DEF Stop, Exit, GoTo, database, ProcessInv, ProcessTypeOK, Ready, Wired
<1>3. Held'
  BY DEF Stop, Exit, ProcessInv, Held, NoPayload
<1> QED
  BY <1>1, <1>2, <1>3 DEF ProcessInv, Ready, Held

LEMMA ServeKeeps ==
    ASSUME ProcessInv, NEW p \in Processes, FetchSucceeds(p) \/ FetchFails(p) \/ Link(p)
    PROVE  ProcessInv'
<1>1. CASE FetchSucceeds(p)
  BY <1>1, FetchedBy DEF FetchSucceeds, database, ProcessInv, ProcessTypeOK
<1>2. CASE FetchFails(p)
  BY <1>2 DEF FetchFails, database, ProcessInv, ProcessTypeOK
<1>3. CASE Link(p)
  BY <1>3 DEF Link, ProcessInv, ProcessTypeOK
<1> QED
  BY <1>1, <1>2, <1>3

(* lib.rs and main.rs: migrate, seed, bind, spawn, in this order.          *)
THEOREM ReadyInvariance == ProcessSpec => []ProcessInv
<1>1. ProcessInv /\ [ProcessNext]_processVars => ProcessInv'
  <2> SUFFICES ASSUME ProcessInv, [ProcessNext]_processVars PROVE ProcessInv'
    OBVIOUS
  <2>1. CASE UNCHANGED processVars
    BY <2>1 DEF processVars, ProcessInv, ProcessTypeOK
  <2>2. CASE ProcessNext
    BY <2>2, StartKeeps, ListenKeeps, StopKeeps, ServeKeeps DEF ProcessNext
  <2> QED
    BY <2>1, <2>2
<1> QED
  BY <1>1, InitProcess, PTL DEF ProcessSpec

(* main.rs: the loops run in the one process that listens.                 *)
THEOREM PolledOnce == ProcessSpec => []OnePoller
<1>1. ProcessInv => OnePoller
  BY DEF ProcessInv, ProcessTypeOK, OnePoller
<1> QED
  BY <1>1, ReadyInvariance, PTL

(* lib.rs, criterion 21: the listener finds the schema, and mock mode a    *)
(* token row and a flag that is down.                                      *)
THEOREM ListenerReady == ProcessSpec => []ListensReady
<1>1. ProcessInv => ListensReady
  BY DEF ProcessInv, ListensReady, Wired
<1> QED
  BY <1>1, ReadyInvariance, PTL
-----------------------------------------------------------------------------
(* What the mapper makes of a response.                                    *)

(* The tags are beside the fields of the payload, and replace none.        *)
LEMMA TaggedFields ==
    ASSUME NEW p, NEW kind, NEW body,
           "_mock" \notin DOMAIN body, "refresh_ms" \notin DOMAIN body
    PROVE  /\ Has(DOMAIN body, Tagged(p, kind, body))
           /\ "refresh_ms" \in DOMAIN Tagged(p, kind, body)
           /\ "_mock" \in DOMAIN Tagged(p, kind, body) <=> mock_data[p]
           /\ \A x \in DOMAIN body : Tagged(p, kind, body)[x] = body[x]
<1> DEFINE marked == tag_mock(mock_data[p], body)
           tag == [refresh_ms |-> 1000 * interval_for(kind)]
<1>1. DOMAIN MockMark = {"_mock"} /\ DOMAIN tag = {"refresh_ms"}
  BY DEF MockMark
<1>2. /\ DOMAIN marked = DOMAIN body \cup (IF mock_data[p] THEN {"_mock"} ELSE {})
      /\ \A x \in DOMAIN body : marked[x] = body[x]
  BY <1>1 DEF tag_mock, Merge
<1>3. Tagged(p, kind, body) = Merge(tag, marked)
  BY DEF Tagged, tag_refresh
<1> HIDE DEF marked, tag
<1>4. /\ DOMAIN Tagged(p, kind, body) = {"refresh_ms"} \cup DOMAIN marked
      /\ \A x \in DOMAIN marked \ {"refresh_ms"} : Tagged(p, kind, body)[x] = marked[x]
  BY <1>1, <1>3 DEF Merge
<1> QED
  BY <1>2, <1>4 DEF Has

LEMMA TrackKeys == ASSUME NEW t PROVE DOMAIN Track(t) = TrackFields
BY DEF Track, TrackFields

LEMMA NowKeys ==
    ASSUME NEW p
    PROVE  \/ p.item = <<>> /\ map_now(p) = NotPlaying
           \/ p.item # <<>> /\ DOMAIN map_now(p) = FieldsOf("now")
BY TrackKeys DEF map_now, FieldsOf, Merge

LEMMA RecentKeys ==
    ASSUME NEW i, NEW entry PROVE DOMAIN map_recent_item(i, entry) = ItemFields("recent")
BY TrackKeys DEF Merge, map_recent_item, ItemFields

LEMMA TopKeys ==
    ASSUME NEW rank, NEW t
    PROVE  DOMAIN map_top_track(rank, t) = ItemFields("top") /\ map_top_track(rank, t).rank = rank
BY TrackKeys DEF Merge, map_top_track, ItemFields

LEMMA PlaylistKeys ==
    ASSUME NEW i, NEW p PROVE DOMAIN map_playlist_item(i, p) = ItemFields("playlists")
BY DEF map_playlist_item, ItemFields

(* What is in a cell once a fetch has stored into it.                      *)
WholeBody(p, kind, raw, body) ==
    /\ "refresh_ms" \in DOMAIN body
    /\ "_mock" \in DOMAIN body <=> mock_data[p]
    /\ \/ Has(FieldsOf(kind), body)
       \/ /\ kind = "now" /\ Has({"playing"}, body) /\ ~body.playing
          /\ "item" \in DOMAIN raw => raw.item = <<>>
    /\ kind \in {"recent", "top", "playlists"} =>
         /\ Len(body.items) = Len(raw.items)
         /\ \A i \in DOMAIN raw.items : Has(ItemFields(kind), body.items[i])
    /\ kind = "top" => \A i \in DOMAIN raw.items : body.items[i].rank = i

(* Every list that is answered is one: the fixtures', an empty one for a   *)
(* 204, and what Spotify sends.                                            *)
LEMMA RepliesAreLists ==
    ASSUME NEW p, NEW path \in ListPaths, NEW raw \in WithNoContent(p, path)
    PROVE  IsList(raw.items)
<1>1. CASE raw = NoContent
  BY <1>1 DEF NoContent, IsList
<1>2. CASE raw = get_json(path)
  <2>1. CASE path = "/v1/me/player/recently-played"
    <3>1. raw.items = <<MockPlay, MockPlay>>
      BY <1>2, <2>1 DEF get_json
    <3> QED
      BY <3>1 DEF IsList
  <2>2. CASE path = "/v1/me/top/tracks"
    <3>1. raw.items = <<MockTrack, MockTrack>>
      BY <1>2, <2>2 DEF get_json
    <3> QED
      BY <3>1 DEF IsList
  <2>3. CASE path = "/v1/me/playlists"
    <3>1. raw.items = <<MockPlaylist(48), MockPlaylist(23)>>
      BY <1>2, <2>3 DEF get_json
    <3> QED
      BY <3>1 DEF IsList
  <2> QED
    BY <2>1, <2>2, <2>3 DEF ListPaths
<1>3. CASE raw \in Bodies[path]
  BY <1>3, BodiesAssumption
<1> QED
  BY <1>1, <1>2, <1>3 DEF WithNoContent, Replies

(* Tags leave a payload with a list as whole as it was.                    *)
LEMMA ItemsWhole ==
    ASSUME NEW p, NEW kind \in {"recent", "top", "playlists"}, NEW raw, NEW plain,
           DOMAIN plain = FieldsOf(kind),
           Len(plain.items) = Len(raw.items),
           \A i \in DOMAIN raw.items : DOMAIN plain.items[i] = ItemFields(kind),
           kind = "top" => \A i \in DOMAIN raw.items : plain.items[i].rank = i
    PROVE  /\ WholeBody(p, kind, raw, Tagged(p, kind, plain))
           /\ \A x \in FieldsOf(kind) : Tagged(p, kind, plain)[x] = plain[x]
<1>1. /\ "_mock" \notin FieldsOf(kind) /\ "refresh_ms" \notin FieldsOf(kind)
      /\ "_mock" \notin ItemFields(kind) /\ "refresh_ms" \notin ItemFields(kind)
      /\ "items" \in FieldsOf(kind)
  BY DEF FieldsOf, ItemFields, TrackFields
<1> DEFINE body == Tagged(p, kind, plain)
<1> HIDE DEF body
<1>0. "_mock" \notin DOMAIN plain /\ "refresh_ms" \notin DOMAIN plain
  BY <1>1
<1>2. /\ Has(FieldsOf(kind), body)
      /\ "refresh_ms" \in DOMAIN body
      /\ "_mock" \in DOMAIN body <=> mock_data[p]
      /\ \A x \in FieldsOf(kind) : body[x] = plain[x]
  <2>1. /\ Has(DOMAIN plain, body)
        /\ "refresh_ms" \in DOMAIN body
        /\ "_mock" \in DOMAIN body <=> mock_data[p]
        /\ \A x \in DOMAIN plain : body[x] = plain[x]
    BY <1>0, TaggedFields DEF body
  <2> QED
    BY <2>1
<1>3. body.items = plain.items
  BY <1>1, <1>2
<1>4. ASSUME NEW i \in DOMAIN raw.items PROVE Has(ItemFields(kind), body.items[i])
  BY <1>1, <1>3 DEF Has
<1>5. WholeBody(p, kind, raw, body)
  BY <1>2, <1>3, <1>4 DEF WholeBody
<1> QED
  BY <1>2, <1>5 DEF body

LEMMA NotPlayingWhole ==
    ASSUME NEW p
    PROVE  LET body == Tagged(p, "now", NotPlaying) IN
           /\ "refresh_ms" \in DOMAIN body
           /\ "_mock" \in DOMAIN body <=> mock_data[p]
           /\ Has({"playing"}, body)
           /\ body.playing = FALSE
<1>1. DOMAIN NotPlaying = {"playing"} /\ NotPlaying.playing = FALSE
  BY DEF NotPlaying
<1>2. "_mock" \notin DOMAIN NotPlaying /\ "refresh_ms" \notin DOMAIN NotPlaying
  BY <1>1
<1>3. /\ Has(DOMAIN NotPlaying, Tagged(p, "now", NotPlaying))
      /\ "refresh_ms" \in DOMAIN Tagged(p, "now", NotPlaying)
      /\ "_mock" \in DOMAIN Tagged(p, "now", NotPlaying) <=> mock_data[p]
      /\ \A x \in DOMAIN NotPlaying : Tagged(p, "now", NotPlaying)[x] = NotPlaying[x]
  BY <1>2, TaggedFields
<1> QED
  BY <1>1, <1>3

LEMMA FetchedWhole ==
    ASSUME NEW p \in Processes, Fetched(p), UNCHANGED mock_data
    PROVE  cell'.by = p /\ WholeBody(p, cell'.kind, cell'.raw, cell'.body)
<1>1. CASE FetchNow(p)
  <2>1. ASSUME NEW raw, Into(p, "now", raw, map_now(raw))
        PROVE  WholeBody(p, "now", raw, Tagged(p, "now", map_now(raw)))
    <3>1. CASE raw.item = <<>> /\ map_now(raw) = NotPlaying
      BY <3>1, NotPlayingWhole DEF WholeBody
    <3>2. CASE raw.item # <<>> /\ DOMAIN map_now(raw) = FieldsOf("now")
      BY <3>2, TaggedFields DEF WholeBody, FieldsOf, TrackFields, Has
    <3> QED
      BY <3>1, <3>2, NowKeys
  <2>2. WholeBody(p, "now", NoContent, Tagged(p, "now", NotPlaying))
    BY NotPlayingWhole DEF WholeBody, NoContent
  <2>3. PICK raw, body :
          /\ cell' = [by |-> p, kind |-> "now", raw |-> raw, body |-> body]
          /\ WholeBody(p, "now", raw, body)
    BY <1>1, <2>1, <2>2 DEF FetchNow, Into
  <2> QED
    BY <2>3
<1>2. CASE FetchRecent(p)
  <2>1. PICK raw \in WithNoContent(p, "/v1/me/player/recently-played") :
          Into(p, "recent", raw, map_recent(raw))
    BY <1>2 DEF FetchRecent
  <2>2. IsList(raw.items)
    BY RepliesAreLists DEF ListPaths
  <2>3. /\ DOMAIN map_recent(raw) = FieldsOf("recent")
        /\ Len(map_recent(raw).items) = Len(raw.items)
        /\ \A i \in DOMAIN raw.items : map_recent(raw).items[i] = map_recent_item(i, raw.items[i])
    BY <2>2 DEF map_recent, FieldsOf, MapEach, IsList
  <2>4. WholeBody(p, "recent", raw, Tagged(p, "recent", map_recent(raw)))
    <3>1. ASSUME NEW i \in DOMAIN raw.items
          PROVE  DOMAIN map_recent(raw).items[i] = ItemFields("recent")
      BY <2>3, RecentKeys
    <3> QED
      BY <2>3, <3>1, ItemsWhole
  <2> QED
    BY <2>1, <2>4 DEF Into
<1>3. CASE FetchTop(p)
  <2>1. PICK raw \in WithNoContent(p, "/v1/me/top/tracks") :
          Into(p, "top", raw, map_top_tracks(raw))
    BY <1>3 DEF FetchTop
  <2>2. IsList(raw.items)
    BY RepliesAreLists DEF ListPaths
  <2>3. /\ DOMAIN map_top_tracks(raw) = FieldsOf("top")
        /\ Len(map_top_tracks(raw).items) = Len(raw.items)
        /\ \A i \in DOMAIN raw.items : map_top_tracks(raw).items[i] = map_top_track(i, raw.items[i])
    BY <2>2 DEF map_top_tracks, FieldsOf, MapEach, IsList
  <2>4. WholeBody(p, "top", raw, Tagged(p, "top", map_top_tracks(raw)))
    BY <2>3, TopKeys, ItemsWhole
  <2> QED
    BY <2>1, <2>4 DEF Into
<1>4. CASE FetchPlaylists(p)
  <2>1. PICK raw \in WithNoContent(p, "/v1/me/playlists") :
          Into(p, "playlists", raw, map_playlists(raw))
    BY <1>4 DEF FetchPlaylists
  <2>2. IsList(raw.items)
    BY RepliesAreLists DEF ListPaths
  <2>3. /\ DOMAIN map_playlists(raw) = FieldsOf("playlists")
        /\ Len(map_playlists(raw).items) = Len(raw.items)
        /\ \A i \in DOMAIN raw.items : map_playlists(raw).items[i] = map_playlist_item(i, raw.items[i])
    BY <2>2 DEF map_playlists, FieldsOf, MapEach, IsList
  <2>4. WholeBody(p, "playlists", raw, Tagged(p, "playlists", map_playlists(raw)))
    <3>1. ASSUME NEW i \in DOMAIN raw.items
          PROVE  DOMAIN map_playlists(raw).items[i] = ItemFields("playlists")
      BY <2>3, PlaylistKeys
    <3> QED
      BY <2>3, <3>1, ItemsWhole
  <2> QED
    BY <2>1, <2>4 DEF Into
<1>5. CASE FetchProfile(p)
  <2>1. PICK me, following, count : Into(p, "profile", me, map_profile(me, following, count))
    BY <1>5 DEF FetchProfile
  <2> DEFINE plain == map_profile(me, following, count)
  <2>2. DOMAIN plain = FieldsOf("profile")
    BY DEF map_profile, FieldsOf
  <2>3. cell' = [by |-> p, kind |-> "profile", raw |-> me, body |-> Tagged(p, "profile", plain)]
    BY <2>1 DEF Into
  <2> HIDE DEF plain
  <2>4. WholeBody(p, "profile", me, Tagged(p, "profile", plain))
    <3>1. "_mock" \notin DOMAIN plain /\ "refresh_ms" \notin DOMAIN plain
      BY <2>2 DEF FieldsOf
    <3>2. /\ Has(DOMAIN plain, Tagged(p, "profile", plain))
          /\ "refresh_ms" \in DOMAIN Tagged(p, "profile", plain)
          /\ "_mock" \in DOMAIN Tagged(p, "profile", plain) <=> mock_data[p]
      BY <3>1, TaggedFields
    <3> QED
      BY <2>2, <3>2 DEF WholeBody
  <2> QED
    BY <2>3, <2>4
<1> QED
  BY <1>1, <1>2, <1>3, <1>4, <1>5 DEF Fetched

(* The payload of a cell belongs to the mode of the process that stored it *)
(* as long as it is there.                                                 *)
LEMMA PayloadStays ==
    ASSUME ProcessInv, [ProcessNext]_processVars,
           \A p \in Processes : ~FetchSucceeds(p)
    PROVE  \/ cell' = NoPayload
           \/ cell' = cell /\ (cell # NoPayload => mock_data'[cell.by] = mock_data[cell.by])
<1>1. CASE UNCHANGED processVars
  BY <1>1 DEF processVars
<1>2. ASSUME NEW p \in Processes,
             \/ Start(p) \/ Connect(p) \/ RunMigrations(p) \/ SeedMockToken(p) \/ Wire(p)
             \/ Bind(p) \/ SpawnSchedulers(p) \/ FetchFails(p) \/ Link(p)
      PROVE  UNCHANGED <<cell, mock_data>>
  BY <1>2 DEF Start, Connect, RunMigrations, SeedMockToken, Wire, Bind, SpawnSchedulers,
              FetchFails, Link, memory
<1>3. ASSUME NEW p \in Processes, FromEnv(p)
      PROVE  cell' = cell /\ (cell # NoPayload => mock_data'[cell.by] = mock_data[cell.by])
  <2>1. p \notin polling
    BY <1>3 DEF FromEnv, Step, ProcessInv
  <2>2. cell # NoPayload => cell.by \in Processes /\ cell.by # p
    BY <2>1 DEF ProcessInv, ProcessTypeOK
  <2> QED
    BY <1>3, <2>2 DEF FromEnv, ProcessInv, ProcessTypeOK
<1>4. ASSUME NEW p \in Processes, Stop(p)
      PROVE  \/ cell' = NoPayload
             \/ cell' = cell /\ (cell # NoPayload => mock_data'[cell.by] = mock_data[cell.by])
  BY <1>4 DEF Stop, Exit, ProcessInv, ProcessTypeOK
<1> QED
  BY <1>1, <1>2, <1>3, <1>4 DEF ProcessNext

PayloadInv == cell # NoPayload =>
    WholeBody(cell.by, cell.kind, cell.raw, cell.body)

LEMMA PayloadInvariance == ProcessSpec => []PayloadInv
<1>1. ProcessInit => PayloadInv
  BY DEF ProcessInit, PayloadInv
<1>2. ASSUME ProcessInv, PayloadInv, [ProcessNext]_processVars PROVE PayloadInv'
  <2>1. ASSUME NEW p \in Processes, FetchSucceeds(p) PROVE PayloadInv'
    <3>1. Fetched(p) /\ UNCHANGED mock_data
      BY <2>1 DEF FetchSucceeds
    <3> QED
      BY <3>1, FetchedWhole DEF PayloadInv, WholeBody
  <2>2. CASE \A p \in Processes : ~FetchSucceeds(p)
    BY <1>2, <2>2, PayloadStays DEF PayloadInv, WholeBody
  <2> QED
    BY <2>1, <2>2
<1> QED
  BY <1>1, <1>2, ReadyInvariance, PTL DEF ProcessSpec

(* Whatever Spotify leaves out of its answers, a payload that is served is *)
(* whole, and says rightly whether it comes from fixtures.                 *)
THEOREM WholePayloads == ProcessSpec => []PayloadWhole
<1>1. PayloadInv => PayloadWhole
  BY DEF PayloadInv, PayloadWhole, WholeBody
<1> QED
  BY <1>1, PayloadInvariance, PTL
=============================================================================
