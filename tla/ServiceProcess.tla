----------------------------- MODULE ServiceProcess -----------------------------
(***************************************************************************)
(* The process: config.rs, lib.rs init and main.rs, from the environment   *)
(* to the loops, and what its fetches (fetch_* of app/scheduler.rs) bring  *)
(* into the cells, with Spotify or with MOCK_DATA.  Processes come and go, *)
(* may overlap, and share the database and the port of one host.           *)
(*                                                                         *)
(* The tokens row matters by its origin; what becomes of real tokens is    *)
(* TokenLifecycle's, and how fetches interleave DataPlane's.               *)
(***************************************************************************)
EXTENDS V1Mapper, MockClient

CONSTANTS
    Processes,
    NoProcess,  \* the port is free
    Required,   \* the environment variables that must be set
    Bodies      \* kind of call -> the bodies Spotify may answer it with

ASSUME ProcessAssumption == NoProcess \notin Processes

(* Where the mapper reads a list (as_array), it has one: a value that is   *)
(* no list is an empty one.                                                *)
IsList(s) == Len(s) \in Nat /\ DOMAIN s = 1..Len(s)
ListPaths == {"/v1/me/player/recently-played", "/v1/me/top/tracks", "/v1/me/playlists"}

ASSUME BodiesAssumption ==
    \A path \in ListPaths : \A raw \in Bodies[path] : IsList(raw.items)

VARIABLES
    stage,      \* where each process is
    mock_data,  \* its Config::mock_data
    schema,     \* the migrations have been applied
    row,        \* origin of the tokens row: "none", "real" or "mock"
    port,       \* the process that listens
    polling,    \* the processes whose scheduler loops run
    reauth,     \* each process's AuthState
    cell,       \* the latest payload stored, by whom and from which response
    listed,     \* each process's playlists cell: <<>>, or <<its total>>
    mockSent    \* history: the token of seed_mock_token went to Spotify

processVars ==
    <<stage, mock_data, schema, row, port, polling, reauth, cell, listed, mockSent>>
memory == <<mock_data, polling, reauth, cell, listed>>
database == <<schema, row>>

Stages == {"down", "configuring", "connecting", "migrating", "seeding", "wiring", "binding",
           "spawning", "serving"}
Wired == {"wiring", "binding", "spawning", "serving"}
NoPayload == [by |-> NoProcess]

ProcessTypeOK ==
    /\ stage \in [Processes -> Stages]
    /\ mock_data \in [Processes -> BOOLEAN] /\ reauth \in [Processes -> BOOLEAN]
    /\ schema \in BOOLEAN /\ row \in {"none", "real", "mock"}
    /\ port \in Processes \cup {NoProcess}
    /\ polling \in SUBSET Processes
    /\ cell.by \in Processes \cup {NoProcess}
    /\ DOMAIN listed = Processes
    /\ mockSent \in BOOLEAN

ProcessInit ==
    /\ stage = [p \in Processes |-> "down"]
    /\ mock_data = [p \in Processes |-> FALSE] /\ reauth = [p \in Processes |-> FALSE]
    /\ schema = FALSE /\ row = "none"
    /\ port = NoProcess
    /\ polling = {}
    /\ cell = NoPayload
    /\ listed = [p \in Processes |-> <<>>]
    /\ mockSent = FALSE

-----------------------------------------------------------------------------
GoTo(p, label) == stage' = [stage EXCEPT ![p] = label]

(* exit(1), or a crash: the memory is lost and the port free, the database *)
(* stays as it is.                                                         *)
Exit(p) ==
    /\ GoTo(p, "down")
    /\ mock_data' = [mock_data EXCEPT ![p] = FALSE]
    /\ reauth' = [reauth EXCEPT ![p] = FALSE]
    /\ polling' = polling \ {p}
    /\ port' = IF port = p THEN NoProcess ELSE port
    /\ cell' = IF cell.by = p THEN NoPayload ELSE cell
    /\ listed' = [listed EXCEPT ![p] = <<>>]
    /\ UNCHANGED <<database, mockSent>>

(* A step of init: it succeeds and goes on, or main exits.                 *)
Step(p, from, to) ==
    /\ stage[p] = from
    /\ GoTo(p, to)
    /\ UNCHANGED mockSent

Start(p) ==
    /\ Step(p, "down", "configuring")
    /\ UNCHANGED <<memory, database, port>>

(* An empty variable counts as unset, for MOCK_DATA too; any other value   *)
(* of MOCK_DATA turns mock mode on.                                        *)
FromEnv(p) ==
    \E env \in [Required \cup {"MOCK_DATA"} -> {"unset", "empty", "nonempty"}] :
        /\ \A key \in Required : env[key] = "nonempty"
        /\ Step(p, "configuring", "connecting")
        /\ mock_data' = [mock_data EXCEPT ![p] = env["MOCK_DATA"] = "nonempty"]
        /\ UNCHANGED <<polling, reauth, cell, listed, database, port>>

Connect(p) ==
    /\ Step(p, "connecting", "migrating")
    /\ UNCHANGED <<memory, database, port>>

MutRunMigrationsAfterwards(p) ==
    /\ Step(p, "migrating", "seeding")
    /\ UNCHANGED <<memory, database, port>>

RunMigrations(p) ==
    /\ Step(p, "migrating", "seeding")
    /\ schema' = TRUE
    /\ UNCHANGED <<memory, row, port>>

(* seed_mock_token upserts, over a real row as well.                       *)
MutSeedMockTokenSkipped(p) ==
    /\ Step(p, "seeding", "wiring")
    /\ UNCHANGED <<memory, database, port>>

SeedMockToken(p) ==
    /\ Step(p, "seeding", "wiring")
    /\ row' = IF mock_data[p] THEN "mock" ELSE row
    /\ UNCHANGED <<memory, schema, port>>

(* The clients and AppState are built.                                     *)
Wire(p) ==
    /\ Step(p, "wiring", "binding")
    /\ UNCHANGED <<memory, database, port>>

MutBindReuses(p) ==
    /\ Step(p, "binding", "spawning")
    /\ port' = p
    /\ UNCHANGED <<memory, database>>

Bind(p) ==
    /\ port = NoProcess
    /\ Step(p, "binding", "spawning")
    /\ port' = p
    /\ UNCHANGED <<memory, database>>

SpawnSchedulers(p) ==
    /\ Step(p, "spawning", "serving")
    /\ polling' = polling \cup {p}
    /\ UNCHANGED <<mock_data, reauth, cell, listed, database, port>>

(* A step that failed, or a process that is stopped.                       *)
Stop(p) == stage[p] # "down" /\ Exit(p)

-----------------------------------------------------------------------------
(* What process p is answered on a path: the fixture, or what Spotify has. *)
Replies(p, path) == IF mock_data[p] THEN {get_json(path)} ELSE Bodies[path]

(* A 204 of the player is not playing, a 204 of a list is an empty list.   *)
NoContent == [items |-> <<>>, total |-> <<>>]
WithNoContent(p, path) == Replies(p, path) \cup (IF mock_data[p] THEN {} ELSE {NoContent})

Tagged(p, kind, body) == tag_refresh(kind, tag_mock(mock_data[p], body))

Into(p, kind, raw, body) ==
    cell' = [by |-> p, kind |-> kind, raw |-> raw, body |-> Tagged(p, kind, body)]

FetchNow(p) ==
    /\ \/ \E raw \in Replies(p, "/v1/me/player") : Into(p, "now", raw, map_now(raw))
       \/ ~mock_data[p] /\ Into(p, "now", NoContent, NotPlaying)
    /\ UNCHANGED <<reauth, listed>>

FetchRecent(p) ==
    /\ \E raw \in WithNoContent(p, "/v1/me/player/recently-played") :
         Into(p, "recent", raw, map_recent(raw))
    /\ UNCHANGED <<reauth, listed>>

FetchTop(p) ==
    /\ \E raw \in WithNoContent(p, "/v1/me/top/tracks") :
         Into(p, "top", raw, map_top_tracks(raw))
    /\ UNCHANGED <<reauth, listed>>

FetchPlaylists(p) ==
    /\ \E raw \in WithNoContent(p, "/v1/me/playlists") :
         /\ Into(p, "playlists", raw, map_playlists(raw))
         /\ listed' = [listed EXCEPT ![p] = <<map_playlists(raw).total>>]
    /\ UNCHANGED reauth

(* A count is what a call of its own brings, or 0 where that call brings   *)
(* no response.                                                            *)
CountOf(p, path) == {total_in(raw.total) : raw \in Replies(p, path)} \cup {0}

(* playlists_count is the total in the playlists cell, however old, and    *)
(* has a call of its own only while that cell is empty.  A count call that *)
(* fails may raise the flag, and one that follows it then fails too; the   *)
(* profile is stored all the same.                                         *)
FetchProfile(p) ==
    \E me \in Replies(p, "/v1/me"),
       following \in CountOf(p, "/v1/me/following"),
       playlists_count \in IF listed[p] = <<>> THEN CountOf(p, "/v1/me/playlists")
                          ELSE {Head(listed[p])} :
      /\ Into(p, "profile", me, map_profile(me, following, playlists_count))
      /\ \/ UNCHANGED reauth
         \/ /\ ~mock_data[p]
            /\ IF listed[p] = <<>> THEN playlists_count = 0 ELSE following = 0
            /\ reauth' = [reauth EXCEPT ![p] = TRUE]
      /\ UNCHANGED listed

Fetched(p) ==
    FetchNow(p) \/ FetchRecent(p) \/ FetchTop(p) \/ FetchProfile(p) \/ FetchPlaylists(p)

(* A fetch of a loop, a visitor or the owner: SpotifyService::get reads    *)
(* the row first, whoever wrote it.  The mock client ignores it; Spotify   *)
(* refuses the mock token, and then its refresh token, which raises the    *)
(* flag, as the rejection of a real one does.                              *)
FetchSucceeds(p) ==
    /\ p \in polling
    /\ row = "real" \/ (mock_data[p] /\ row = "mock")
    /\ Fetched(p)
    /\ UNCHANGED <<stage, mock_data, database, port, polling, mockSent>>

FetchFails(p) ==
    /\ p \in polling /\ ~mock_data[p] /\ row # "none"
    /\ mockSent' = (mockSent \/ row = "mock")
    /\ reauth' \in {reauth, [reauth EXCEPT ![p] = TRUE]}
    /\ UNCHANGED <<stage, mock_data, database, port, polling, cell, listed>>

(* The owner links: the exchange is a real one in either mode.             *)
Link(p) ==
    /\ stage[p] = "serving"
    /\ row' = "real"
    /\ reauth' = [reauth EXCEPT ![p] = FALSE]
    /\ UNCHANGED <<stage, mock_data, schema, port, polling, cell, listed, mockSent>>

ProcessNext == \E p \in Processes :
    \/ Start(p)
    \/ FromEnv(p)
    \/ Connect(p)
    \/ RunMigrations(p)
    \/ SeedMockToken(p)
    \/ Wire(p)
    \/ Bind(p)
    \/ SpawnSchedulers(p)
    \/ Stop(p)
    \/ FetchSucceeds(p)
    \/ FetchFails(p)
    \/ Link(p)

ProcessSpec == ProcessInit /\ [][ProcessNext]_processVars

-----------------------------------------------------------------------------
(* main.rs binds before it spawns: however starts, failures and stops of   *)
(* several processes overlap, at most one polls Spotify, the one that      *)
(* listens, so that the per-app quota is spent once.                       *)
OnePoller == \A p \in polling : port = p

(* Criterion 21, and the mock seed: whoever listens finds the schema, and  *)
(* in mock mode a token row that no login had to bring; its flag then      *)
(* never goes up.  A row another process has written serves as well.       *)
ListensReady == \A p \in Processes : port = p =>
    /\ schema
    /\ mock_data[p] => row # "none" /\ ~reauth[p]

(* lib.rs, seed_mock_token: "The access token here is never sent anywhere".*)
MockTokenNeverSent == ~mockSent

(* How a process comes to be ready, step by step, and that a payload lives *)
(* no longer than the loops of the process that stored it: what OnePoller, *)
(* ListensReady and PayloadWhole rest on.                                  *)
ProcessInv ==
    /\ ProcessTypeOK
    /\ cell # NoPayload => cell.by \in polling
    /\ \A p \in Processes :
         /\ stage[p] \in {"spawning", "serving"} <=> port = p
         /\ p \in polling => stage[p] = "serving"
         /\ stage[p] \in Wired \cup {"seeding"} => schema
         /\ stage[p] \in Wired /\ mock_data[p] => row # "none"
         /\ reauth[p] => stage[p] = "serving" /\ ~mock_data[p]

-----------------------------------------------------------------------------
Has(fields, body) == DOMAIN body \ {"_mock", "refresh_ms"} = fields

TrackFields == {"track", "artist", "album", "cover", "duration_ms"}
FieldsOf(kind) ==
    CASE kind = "profile" -> {"display_name", "handle", "avatar", "followers", "following",
                              "playlists_count", "profile_url"}
      [] kind = "now" -> TrackFields \cup {"playing", "progress_ms", "device"}
      [] kind = "recent" -> {"items"}
      [] kind = "top" -> {"items", "range"}
      [] kind = "playlists" -> {"items", "total"}

ItemFields(kind) ==
    CASE kind = "recent" -> TrackFields \cup {"played_at"}
      [] kind = "top" -> TrackFields \cup {"rank"}
      [] kind = "playlists" -> {"name", "owner", "cover", "tracks_count", "url"}

(* Spec 5.7: whatever a response lacks, the payload is whole: all fields   *)
(* of its kind ({playing: false} alone when there is no item), an entry    *)
(* for each entry of the response, the top tracks ranked 1, 2, ..., and    *)
(* the tags, _mock if and only if the process serves fixtures.             *)
PayloadWhole == cell # NoPayload =>
    LET kind == cell.kind  body == cell.body  raw == cell.raw IN
    /\ "refresh_ms" \in DOMAIN body
    /\ "_mock" \in DOMAIN body <=> mock_data[cell.by]
    /\ \/ Has(FieldsOf(kind), body)
       \/ /\ kind = "now" /\ Has({"playing"}, body) /\ ~body.playing
          /\ "item" \in DOMAIN raw => raw.item = <<>>
    /\ kind \in {"recent", "top", "playlists"} =>
         /\ Len(body.items) = Len(raw.items)
         /\ \A i \in DOMAIN raw.items : Has(ItemFields(kind), body.items[i])
    /\ kind = "top" => \A i \in DOMAIN raw.items : body.items[i].rank = i
=============================================================================
