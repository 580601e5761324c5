------------------------------ MODULE Presence ------------------------------
(***************************************************************************)
(* Who is seen where: LocationIndex, update_location, authorize_action and *)
(* presence of src/server.rs, and the browser that publishes its location  *)
(* (publishLocation of web/app.js).  Signatures are not modelled: a post   *)
(* is its player's.  The time unit is the publishing interval.             *)
(***************************************************************************)
EXTENDS Integers, FiniteSets, Functions

CONSTANTS
  Spot,
  Chunk,        \* [Spot -> chunk], 32 x 32 fields in the code
  Viewports,    \* the sets of spots a browser may ask for
  Heartbeat,    \* LOCATION_HEARTBEAT_MS
  TTL,          \* PRESENCE_TTL_MS
  MaxResults,   \* MAX_PRESENCE_RESULTS
  Scenes        \* the players of a behaviour, and its bounds: time, walks (changes of
                \* place, all players together), and mishaps (lost and failed requests,
                \* closed pages, lapses, restarts)

Latency == 1   \* bound: units a request takes, there and back

\* An entry outlives the interval until it is renewed, the way of the request
\* included: 30 and 60 seconds in the code.
ASSUME PresenceAssumption ==
  /\ {Heartbeat, TTL, MaxResults} \subseteq Nat \ {0} /\ Heartbeat + Latency <= TTL
  /\ \A s \in Scenes: IsFiniteSet(s.players) /\ {s.time, s.walks, s.mishaps} \subseteq Nat
  /\ \A v \in Viewports: v \subseteq Spot

VARIABLES
  scene,
  time,
  open,          \* players whose page is open
  spot,          \* where each player stands in its own browser
  published,     \* [spot, at] of the last answered post, at its start
  waiting,       \* locationPosting: the browser's post is out
  nextPost,      \* nextLocationPostAt
  posts,         \* requests at the server: [player, spot, stamp, stage]
  live,          \* the registry caches an active state of the player
  locationClock, \* action_timestamps of the location action
  byPlayer,      \* LocationIndex.by_player: [spot, at] of the players in it
  chunks,        \* LocationIndex.chunks, as pairs of chunk and player
  view,          \* the presence request in progress
  answer,        \* the presence response of this unit of time
  steady,        \* history: since when the player stands still, undisturbed
  walks, mishaps

presenceVars == <<scene, time, open, spot, published, waiting, nextPost, posts, live, locationClock,
                  byPlayer, chunks, view, answer, steady, walks, mishaps>>
page == <<open, spot, published, waiting, nextPost>>
index == <<byPlayer, chunks>>

NoRequest == [stage |-> "none"]
Nobody == [players |-> {}, truncated |-> FALSE, at |-> 0, viewport |-> {}]

Player == scene.players

PresenceInit ==
  /\ scene \in Scenes
  /\ time = 0
  /\ open = Player
  /\ spot \in [Player -> Spot]
  /\ published = [p \in Player |-> NoRequest]
  /\ waiting = [p \in Player |-> FALSE] /\ nextPost = [p \in Player |-> 0]
  /\ posts = {}
  /\ live \in [Player -> BOOLEAN]
  /\ locationClock = [p \in Player |-> -1]
  /\ byPlayer = <<>> /\ chunks = {}
  /\ view = NoRequest /\ answer = Nobody
  /\ steady = [p \in Player |-> 0]
  /\ walks = 0 /\ mishaps = 0

Disturb(p) == steady' = [steady EXCEPT ![p] = time]
Mishap == mishaps < scene.mishaps /\ mishaps' = mishaps + 1

-----------------------------------------------------------------------------
(* The browser *)

Walk(p, s) ==
  /\ walks < scene.walks /\ walks' = walks + 1
  /\ s # spot[p] /\ spot' = [spot EXCEPT ![p] = s]
  /\ Disturb(p)
  /\ UNCHANGED <<scene, time, open, published, waiting, nextPost, posts, live, locationClock, index, view, answer, mishaps>>

Close(p) ==
  /\ Mishap /\ p \in open /\ open' = open \ {p}
  /\ UNCHANGED <<scene, time, spot, published, waiting, nextPost, posts, live, locationClock, index, view, answer, steady, walks>>

\* Mutant: a player that stands still is not published again.
PostDueWithoutHeartbeat(p) ==
  /\ p \in open /\ ~waiting[p] /\ time >= nextPost[p]
  /\ ~(published[p] # NoRequest /\ published[p].spot = spot[p])

\* Something to publish: a new place, or a heartbeat.
PostDue(p) ==
  /\ p \in open /\ ~waiting[p] /\ time >= nextPost[p]
  /\ ~(published[p] # NoRequest /\ published[p].spot = spot[p] /\ time - published[p].at < Heartbeat)

Post(p) ==
  /\ PostDue(p)
  /\ waiting' = [waiting EXCEPT ![p] = TRUE]
  /\ nextPost' = [nextPost EXCEPT ![p] = time + 1]
  /\ posts' = posts \cup {[player |-> p, spot |-> spot[p], stamp |-> time, stage |-> "sent"]}
  /\ UNCHANGED <<scene, time, open, spot, published, live, locationClock, index, view, answer, steady, walks, mishaps>>

At(m, stage) == (posts \ {m}) \cup {[m EXCEPT !.stage = stage]}

\* The browser waits for its latest post only: an older one it has given up.
Latest(m) == waiting[m.player] /\ m.stamp + 1 = nextPost[m.player]

Answered(m) ==
  /\ m.stage = "applied"
  /\ posts' = posts \ {m}
  /\ IF Latest(m)
     THEN /\ published' = [published EXCEPT ![m.player] = [stage |-> "done", spot |-> m.spot, at |-> m.stamp]]
          /\ waiting' = [waiting EXCEPT ![m.player] = FALSE]
     ELSE UNCHANGED <<published, waiting>>
  /\ UNCHANGED <<scene, time, open, spot, nextPost, live, locationClock, index, view, answer, steady, walks, mishaps>>

\* The connection breaks: the browser's request fails, and the server goes on
\* with it or drops it.
LoseRequest(m) ==
  /\ Mishap /\ Latest(m)
  /\ waiting' = [waiting EXCEPT ![m.player] = FALSE]
  /\ posts' \in {posts, posts \ {m}}
  /\ Disturb(m.player)
  /\ UNCHANGED <<scene, time, open, spot, published, nextPost, live, locationClock, index, view, answer, walks>>

-----------------------------------------------------------------------------
(* The server: update_location *)

Refused(m) ==
  /\ posts' = posts \ {m}
  /\ waiting' = [waiting EXCEPT ![m.player] = @ /\ ~Latest(m)]
  /\ UNCHANGED <<open, spot, published, nextPost>>

\* authorize_action: a player not cached as active is verified first, which may
\* fail; last, the replay clock admits only ever newer timestamps.
Authorize(m) ==
  /\ m.stage = "sent"
  /\ live' = [live EXCEPT ![m.player] = TRUE]
  /\ IF live[m.player] THEN UNCHANGED steady ELSE Disturb(m.player)
  /\ IF m.stamp > locationClock[m.player]
     THEN /\ posts' = At(m, "authorized") /\ locationClock' = [locationClock EXCEPT ![m.player] = m.stamp]
          /\ UNCHANGED page
     ELSE Refused(m) /\ UNCHANGED locationClock
  /\ UNCHANGED <<scene, time, index, view, answer, walks, mishaps>>

FailToVerify(m) ==
  /\ m.stage = "sent" /\ ~live[m.player] /\ Mishap
  /\ Refused(m) /\ Disturb(m.player)
  /\ UNCHANGED <<scene, time, live, locationClock, index, view, answer, walks>>

WithoutPlayers(gone) ==
  /\ byPlayer' = Restrict(byPlayer, DOMAIN byPlayer \ gone)
  /\ chunks' = {c \in chunks: c[2] \notin gone}

Upsert(p, s) ==
  /\ byPlayer' = [q \in DOMAIN byPlayer \cup {p} |-> IF q = p THEN [spot |-> s, at |-> time] ELSE byPlayer[q]]
  /\ chunks' = {c \in chunks: c[2] # p} \cup {<<Chunk[s], p>>}

\* The lock was released since the authorization.
UpdateLocation(m) ==
  /\ m.stage = "authorized"
  /\ Upsert(m.player, m.spot)
  /\ posts' = At(m, "applied")
  /\ UNCHANGED <<scene, time, page, live, locationClock, view, answer, steady, walks, mishaps>>

-----------------------------------------------------------------------------
(* The server: presence *)

\* The registry is read and released before the locations are locked.
ReadActive(viewport) ==
  /\ view = NoRequest
  /\ view' = [stage |-> "read", active |-> {p \in Player: live[p]}, at |-> time, viewport |-> viewport]
  /\ answer' = Nobody
  /\ UNCHANGED <<scene, time, page, posts, live, locationClock, index, steady, walks, mishaps>>

Stale(active, cutoff) == {p \in DOMAIN byPlayer: p \notin active \/ byPlayer[p].at < cutoff}

Listed(viewport) ==
  {c \in chunks: /\ c[1] \in {Chunk[s]: s \in viewport}
                 /\ c[2] \in DOMAIN byPlayer' /\ byPlayer'[c[2]].spot \in viewport}

\* retain_active and query, under one lock; the first MaxResults in the order
\* of the chunks are returned, and which those are is left open.
Respond ==
  /\ view # NoRequest
  /\ WithoutPlayers(Stale(view.active, view.at - TTL))
  /\ LET found == Listed(view.viewport) \cap chunks'
         kept == IF Cardinality(found) > MaxResults
                 THEN {s \in SUBSET found: Cardinality(s) = MaxResults} ELSE {found}
     IN \E s \in kept:
          answer' = [players |-> {[player |-> c[2], chunk |-> c[1], at |-> byPlayer'[c[2]].at]: c \in s},
                     truncated |-> Cardinality(found) > MaxResults,
                     at |-> view.at, viewport |-> view.viewport]
  /\ view' = NoRequest
  /\ UNCHANGED <<scene, time, page, posts, live, locationClock, steady, walks, mishaps>>

-----------------------------------------------------------------------------
(* The environment *)

\* The cached state expires, or the refresh worker finds it gone.
Lapse(p) ==
  /\ live[p] /\ Mishap
  /\ live' = [live EXCEPT ![p] = FALSE] /\ Disturb(p)
  /\ UNCHANGED <<scene, time, page, posts, locationClock, index, view, answer, walks>>

\* Presence, the replay clocks and every cached state are in memory only.
Restart ==
  /\ Mishap
  /\ live' = [p \in Player |-> FALSE] /\ locationClock' = [p \in Player |-> -1]
  /\ byPlayer' = <<>> /\ chunks' = {}
  /\ posts' = {} /\ view' = NoRequest
  /\ waiting' = [p \in Player |-> FALSE]
  /\ steady' = [p \in Player |-> time]
  /\ UNCHANGED <<scene, time, open, spot, published, nextPost, answer, walks>>

\* Requests are served, and posts made, within their time.
PresenceTick ==
  /\ time < scene.time /\ time' = time + 1
  /\ \A m \in posts: time - m.stamp < Latency
  /\ ~(view # NoRequest /\ time - view.at >= Latency)
  /\ \A p \in Player: ~PostDue(p)
  /\ answer' = Nobody
  /\ UNCHANGED <<scene, page, posts, live, locationClock, index, view, steady, walks, mishaps>>

PresenceNext ==
  \/ \E p \in Player: Post(p) \/ Close(p) \/ Lapse(p) \/ \E s \in Spot: Walk(p, s)
  \/ \E m \in posts: Authorize(m) \/ FailToVerify(m) \/ UpdateLocation(m) \/ Answered(m) \/ LoseRequest(m)
  \/ \E v \in Viewports: ReadActive(v)
  \/ Respond \/ Restart \/ PresenceTick

PresenceSpec == PresenceInit /\ [][PresenceNext]_presenceVars

-----------------------------------------------------------------------------
PresenceTypeOK ==
  /\ scene \in Scenes /\ time \in 0..scene.time
  /\ open \subseteq Player
  /\ spot \in [Player -> Spot] /\ live \in [Player -> BOOLEAN] /\ waiting \in [Player -> BOOLEAN]
  /\ locationClock \in [Player -> -1..time] /\ nextPost \in [Player -> 0..time + 1]
  /\ posts \subseteq [player: Player, spot: Spot, stamp: 0..time,
                      stage: {"sent", "authorized", "applied"}]
  /\ DOMAIN byPlayer \subseteq Player
  /\ \A p \in DOMAIN byPlayer: byPlayer[p] \in [spot: Spot, at: 0..time]
  /\ chunks = {<<Chunk[byPlayer[p].spot], p>>: p \in DOMAIN byPlayer}

\* A response lists nobody twice, nobody the registry did not hold active and
\* nobody who has been silent for longer than the time to live; it leaves out
\* a player in view, listed active and heard of in time, only if it says that
\* it was truncated (retain_active and query, src/server.rs:212-244).
ResponseStep ==
  view # NoRequest /\ view' = NoRequest /\ answer' # answer =>
     /\ \A a, b \in answer'.players: a.player = b.player => a = b
     /\ \A a \in answer'.players: a.player \in view.active /\ a.at >= view.at - TTL
     /\ answer'.truncated \/
          \A p \in view.active \cap DOMAIN byPlayer:
            byPlayer[p].at >= view.at - TTL /\ byPlayer[p].spot \in view.viewport
              => \E a \in answer'.players: a.player = p

\* A player that stands still, undisturbed and active, is shown where it
\* stands after a heartbeat and the time of two requests, whatever happened
\* before: locations applied in the wrong order, a location removed by a
\* response that had read the registry too early (src/server.rs:837, 1123).
StandingPlayersAreShown ==
  \A p \in Player:
    p \in open /\ live[p] /\ time - steady[p] > Heartbeat + 2 * Latency =>
      p \in DOMAIN byPlayer /\ byPlayer[p].spot = spot[p]

\* What the browsers are told of each other is true: the types and the mirror of
\* the index by chunk hold, what a response says and leaves out is right, and who
\* stands still is seen there (src/server.rs:212).
PresenceIsTrue ==
  /\ [](PresenceTypeOK /\ StandingPlayersAreShown)
  /\ [][ResponseStep]_presenceVars
=============================================================================
