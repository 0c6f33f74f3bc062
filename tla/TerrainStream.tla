---------------------------- MODULE TerrainStream ----------------------------
(***************************************************************************)
(* The terrain streamer of benilla-world: the systems of `WorldStage::     *)
(* Stream`, which run one after another once a frame (TerrainPlugin's      *)
(* chain), and what changes between frames without them: asset reads that  *)
(* land or fail, colliders built off-thread, and the view focus.           *)
(*                                                                         *)
(* `phase` is the system of the chain that runs next; at "input" the frame *)
(* has not begun its stream stage.  Nothing else runs inside the chain.    *)
(*                                                                         *)
(* The tile grid is a strip of one dimension.  A placement is its uniqueId *)
(* (a doodad or a building, whose props are its own); of a mesh, a model   *)
(* or a hull the model keeps only whose it is.  A tile's terrain and fence *)
(* colliders are one, a tile's sixteen cells are furnished together, and   *)
(* the retained pass and the static merge are not modelled.                *)
(***************************************************************************)
EXTENDS Integers, FiniteSets

CONSTANTS
  LastTile,       \* the strip's tiles are 0 .. LastTile
  ChunksPerTile,  \* chunks along one edge of a tile
  InnerHalf,      \* half-widths of the window in chunks: held resident,
  OuterHalf,      \* wanted,
  KeepBand,       \* and how far past the outer one a tile is kept
  Maps,           \* the maps the server may name, each of them with a directory in the catalog
  NoMap,          \* "no map directory yet"
  Authored,       \* map -> the tiles its WDT's MAIN grid authors
  Unreadable,     \* map -> the tiles whose ADT read fails
  WdtAnswers,     \* map -> what its WDT read may come back as
  Lists,          \* map -> tile -> the placements its ADT lists
  GlobalOf,       \* map -> its one building as a set, or {}
  Doodads,        \* uniqueIds of M2 placements
  Buildings,      \* uniqueIds of WMO placements, the map-global ones included
  Props,          \* building -> its doodad props
  GroundOf,       \* doodad or exterior prop -> the tile under its origin, whose ground shades it
  BadModels       \* models whose read fails

Tile == 0 .. LastTile
Chunk == 0 .. (LastTile + 1) * ChunksPerTile - 1
Uid == Doodads \cup Buildings
Prop == UNION {Props[b] : b \in Buildings}

ASSUME StripAssumption ==
  /\ LastTile \in Nat /\ ChunksPerTile \in Nat \ {0}
  /\ InnerHalf \in Nat /\ OuterHalf \in Nat /\ KeepBand \in Nat
  /\ InnerHalf <= OuterHalf

ASSUME ContentAssumption ==
  /\ NoMap \notin Maps
  /\ IsFiniteSet(Doodads) /\ IsFiniteSet(Buildings) /\ Doodads \cap Buildings = {}
  /\ Props \in [Buildings -> SUBSET Prop] /\ IsFiniteSet(Prop)
  /\ Authored \in [Maps -> SUBSET Tile]
  /\ Unreadable \in [Maps -> SUBSET Tile]
  /\ WdtAnswers \in [Maps -> SUBSET {"ok", "failed"}]
  /\ Lists \in [Maps -> [Tile -> SUBSET Uid]]
  /\ GlobalOf \in [Maps -> SUBSET Buildings]
  \* a map-global building's id is no ADT row's (GLOBAL_WMO_UID)
  /\ \A m, n \in Maps, t \in Tile : GlobalOf[m] \cap Lists[n][t] = {}

VARIABLES
  phase,      \* the system of the frame that runs next
  live,       \* WorldLive
  focus,      \* ViewFocus as the streamer resolves it: map, chunk, paced, holds_inner
  reloadMark, \* ViewFocus::reload differs from reload_seen
  mapDir, wdt, globalWmo,      \* the map streamed, its WDT's read, its one building registered
  window,     \* the focus chunk last streamed around, or -1
  inner,      \* the tiles held resident
  plan,       \* this frame's plan: {} or {[desired, quiet]}
  settled, wasPaced,
  read,       \* tile -> its ADT's read; "none" when the tile is not loaded
  up,         \* tiles whose root is spawned
  furnished,  \* tiles whose every cell is up
  gaveUp,     \* tiles whose read the inner wait gave up on
  listed,     \* tile -> the placements it holds a reference of
  refs,       \* uniqueId -> Placement::refs; no placement is registered at 0
  spawned,    \* registered placements that stand
  owner,      \* uniqueId -> the tile owning a doodad's hull
  propsLeft,  \* building -> resolved props not yet spawned
  pendingSpawns,
  answered,   \* models whose read (and form) has come back
  tileBatch,  \* tile -> doodads with a hull in its unflushed weld
  tileHulls,  \* tile -> doodads with a hull in the welds it owns
  propBatch,  \* building -> props with a hull in its unflushed weld
  propHulls,  \* building -> props with a hull among its entities
  orphans,    \* prop hulls no placement or batch holds any more
  colliders,  \* PendingCollider entities, by what they collide for
  progress,   \* WorldLoadProgress
  residency   \* TerrainResidency

frameVars == <<phase, live, focus, reloadMark>>
mapVars == <<mapDir, wdt, globalWmo>>
planVars == <<window, inner, plan, settled, wasPaced>>
tileVars == <<read, up, furnished, gaveUp, listed>>
placeVars == <<refs, spawned, owner, propsLeft, pendingSpawns>>
hullVars == <<tileBatch, tileHulls, propBatch, propHulls, orphans>>
loadVars == <<answered, colliders, progress, residency>>
streamVars == <<frameVars, mapVars, planVars, tileVars, placeVars, hullVars, loadVars>>

-----------------------------------------------------------------------------
(* The residency window (window.rs).                                        *)

TileOf(c) == c \div ChunksPerTile

ClampPastEnd(c) == IF c < 0 THEN 0 ELSE IF c \in Chunk THEN c ELSE (LastTile + 1) * ChunksPerTile

Clamp(c) == IF c < 0 THEN 0
            ELSE IF c \in Chunk THEN c
            ELSE (LastTile + 1) * ChunksPerTile - 1

TileSpan(c, half) == TileOf(Clamp(c - half)) .. TileOf(Clamp(c + half))

WantedTiles(c) == TileSpan(c, OuterHalf)
InnerTiles(c) == TileSpan(c, InnerHalf)
Keeps(c) == TileSpan(c, OuterHalf + KeepBand)

Far(t, c) == LET d == t - TileOf(c) IN IF d < 0 THEN -d ELSE d

Nearest(S, c) == {t \in S : \A u \in S : Far(t, c) <= Far(u, c)}
Farthest(S, c) == {t \in S : \A u \in S : Far(t, c) >= Far(u, c)}

-----------------------------------------------------------------------------
(* Loaded tiles, registered placements and the pending work they make.      *)

Loaded == {t \in Tile : read[t] # "none"}
Landed == {t \in Loaded : read[t] = "ok"} \ up
Registered == {u \in Uid : refs[u] > 0}
Referrers(u) == {t \in Tile : u \in listed[t]}

Unspawned == Registered \ spawned
PropWork(U) == {w \in (U \cap Buildings) \X Prop : w[2] \in propsLeft[w[1]]}

TileDoneSpawned(t) == t \in up \/ read[t] = "failed"
TileDone(t) == t \in furnished \/ (t \notin up /\ read[t] = "failed")
PlacementUp(u) == u \in spawned /\ (u \in Buildings => propsLeft[u] = {})

\* What a read answers: the tiles the map authors and can read.
AdtAnswer(t) ==
  IF t \in Authored[mapDir] /\ t \notin Unreadable[mapDir] THEN "ok" ELSE "failed"

\* doodad_ground_shade: a loaded ground tile without its ADT is still decoding.
ShadePending(x) == x \in DOMAIN GroundOf /\ read[GroundOf[x]] \notin {"none", "ok"}

TileCollider(t) == <<"tile", t>>
WeldCollider(t) == <<"weld", t>>
BuildingCollider(u) == <<"building", u>>
PropsCollider(u) == <<"props", u>>
CollidersOf(T, U) ==
  {TileCollider(t) : t \in T} \cup {WeldCollider(t) : t \in T}
    \cup {BuildingCollider(u) : u \in U} \cup {PropsCollider(u) : u \in U}

WeldBacklog == (\E t \in Tile : tileBatch[t] # {}) \/ (\E b \in Buildings : propBatch[b] # {})

NoProgress ==
  [tile |-> -1, resident |-> FALSE, wanted |-> FALSE, scene |-> FALSE,
   backlog |-> FALSE, complete |-> FALSE]

Presentable == progress.scene /\ ~progress.backlog

-----------------------------------------------------------------------------
StreamInit ==
  /\ phase = "input" /\ live = FALSE /\ reloadMark = FALSE
  /\ focus \in [map : Maps, chunk : Chunk, paced : {FALSE}, holds : {FALSE}]
  /\ mapDir = NoMap /\ wdt = "none" /\ globalWmo = FALSE
  /\ window = -1 /\ inner = {} /\ plan = {} /\ settled = FALSE /\ wasPaced = FALSE
  /\ read = [t \in Tile |-> "none"]
  /\ up = {} /\ furnished = {} /\ gaveUp = {}
  /\ listed = [t \in Tile |-> {}]
  /\ refs = [u \in Uid |-> 0] /\ spawned = {}
  /\ owner = [u \in Uid |-> 0]
  /\ propsLeft = [b \in Buildings |-> {}]
  /\ pendingSpawns = 0
  /\ answered = {}
  /\ tileBatch = [t \in Tile |-> {}] /\ tileHulls = [t \in Tile |-> {}]
  /\ propBatch = [b \in Buildings |-> {}] /\ propHulls = [b \in Buildings |-> {}]
  /\ orphans = {} /\ colliders = {}
  /\ progress = NoProgress /\ residency = {}

-----------------------------------------------------------------------------
(* Between frames.                                                          *)

\* An ADT read in flight comes back.
ReadTile(t) ==
  /\ phase = "input" /\ read[t] = "loading"
  /\ read' = [read EXCEPT ![t] = AdtAnswer(t)]
  /\ UNCHANGED <<frameVars, mapVars, planVars, up, furnished, gaveUp, listed,
                 placeVars, hullVars, loadVars>>

\* The map's WDT read comes back; without it every tile is probed.
ReadWdt ==
  /\ phase = "input" /\ wdt = "loading"
  /\ wdt' \in WdtAnswers[mapDir]
  /\ UNCHANGED <<frameVars, mapDir, globalWmo, planVars, tileVars, placeVars, hullVars,
                 loadVars>>

Holders(x) == IF x \in Uid THEN Registered \cap {x}
              ELSE {b \in Registered \cap Buildings : x \in Props[b]}

\* A model somebody holds comes back, read or failed, its form furnished.
ReadModel(x) ==
  /\ phase = "input" /\ x \notin answered /\ Holders(x) # {}
  /\ answered' = answered \cup {x}
  /\ UNCHANGED <<frameVars, mapVars, planVars, tileVars, placeVars, hullVars, colliders,
                 progress, residency>>

\* A model nobody holds any more is dropped, when the asset server gets to it.
FreeModel(x) ==
  /\ phase = "input" /\ x \in answered /\ Holders(x) = {}
  /\ answered' = answered \ {x}
  /\ UNCHANGED <<frameVars, mapVars, planVars, tileVars, placeVars, hullVars, colliders,
                 progress, residency>>

Elsewhere ==
  \/ \E t \in Tile : ReadTile(t)
  \/ ReadWdt
  \/ \E x \in Uid \cup Prop : ReadModel(x) \/ FreeModel(x)

-----------------------------------------------------------------------------
(* stream_terrain: the map, then the window.                                *)

RegisterNewOnly(U, t) ==
  /\ refs' = [u \in Uid |-> IF u \in U \ Registered THEN 1 ELSE refs[u]]
  /\ owner' = [u \in Uid |-> IF u \in U \ Registered THEN t ELSE owner[u]]
  /\ pendingSpawns' = pendingSpawns + Cardinality(U \ Registered)
  /\ UNCHANGED <<spawned, propsLeft>>

\* Register: a new placement stands for one reference and waits for its model.
Register(U, t) ==
  /\ refs' = [u \in Uid |-> IF u \in U THEN refs[u] + 1 ELSE refs[u]]
  /\ owner' = [u \in Uid |-> IF u \in U \ Registered THEN t ELSE owner[u]]
  /\ pendingSpawns' = pendingSpawns + Cardinality(U \ Registered)
  /\ UNCHANGED <<spawned, propsLeft>>

FreedWorkBuildings(freed) == Cardinality(Unspawned \cap freed)

\* A freed placement's unspawned work goes off the count with it.
FreedWork(freed) == Cardinality(Unspawned \cap freed) + Cardinality(PropWork(freed))

\* Drop every tile and placement, of the map left or of the world left.
DropStreamedWorld ==
  LET left == [u \in Uid |-> refs[u] - Cardinality(Referrers(u))
                 - (IF globalWmo /\ u \in GlobalOf[mapDir] THEN 1 ELSE 0)]
      freed == {u \in Registered : left[u] = 0}
  IN /\ read' = [t \in Tile |-> "none"]
     /\ up' = {} /\ furnished' = {} /\ gaveUp' = {}
     /\ listed' = [t \in Tile |-> {}]
     /\ refs' = left
     /\ spawned' = spawned \ freed
     /\ propsLeft' = [b \in Buildings |-> IF b \in freed THEN {} ELSE propsLeft[b]]
     /\ pendingSpawns' = pendingSpawns - FreedWork(freed)
     /\ UNCHANGED owner
     /\ tileBatch' = [t \in Tile |-> {}] /\ tileHulls' = [t \in Tile |-> {}]
     /\ propBatch' = [b \in Buildings |-> {}]
     /\ propHulls' = [b \in Buildings |-> IF b \in freed THEN {} ELSE propHulls[b]]
     /\ colliders' = colliders \ CollidersOf(Tile, freed)
     /\ globalWmo' = FALSE /\ settled' = FALSE
     /\ UNCHANGED orphans

\* stream_terrain on a new map directory: everything of the old map goes, the
\* new map's WDT is requested, and nothing else can be until it answers.
SwapMap ==
  /\ phase = "stream" /\ focus.map # mapDir
  /\ DropStreamedWorld
  /\ mapDir' = focus.map /\ wdt' = "loading"
  /\ window' = focus.chunk
  /\ inner' = IF focus.holds THEN InnerTiles(focus.chunk) ELSE {}
  /\ plan' = {[desired |-> WantedTiles(focus.chunk), quiet |-> TRUE]}
  /\ phase' = "await"
  /\ UNCHANGED <<live, focus, reloadMark, wasPaced, answered, progress, residency>>

\* stream_terrain on the map it streams: a WMO-only map's building registers
\* once, when the WDT is in.
WatchWdt ==
  /\ phase = "stream" /\ focus.map = mapDir
  /\ IF wdt = "ok" /\ GlobalOf[mapDir] # {} /\ ~globalWmo
     THEN Register(GlobalOf[mapDir], 0) /\ globalWmo' = TRUE
     ELSE UNCHANGED <<placeVars, globalWmo>>
  /\ phase' = "window"
  /\ UNCHANGED <<live, focus, reloadMark, mapDir, wdt, planVars, tileVars, hullVars, loadVars>>

WdtAnswered == wdt \in {"ok", "failed"}

DesiredTiles ==
  IF wdt = "ok" THEN WantedTiles(focus.chunk) \cap Authored[mapDir] ELSE WantedTiles(focus.chunk)

HeldTiles == IF focus.holds THEN InnerTiles(focus.chunk) \cap DesiredTiles ELSE {}

Idle ==
  /\ window = focus.chunk /\ settled
  /\ focus.paced /\ wasPaced /\ ~reloadMark
  /\ WdtAnswered /\ progress.complete /\ Presentable

\* The idle skip: an unchanged frame of a finished, paced world.
SkipFrame ==
  /\ phase = "window" /\ Idle
  /\ inner' = IF focus.holds THEN inner ELSE {}
  /\ phase' = "await"
  /\ UNCHANGED <<live, focus, reloadMark, mapVars, window, plan, settled, wasPaced, tileVars,
                 placeVars, hullVars, loadVars>>

NewOwnerUnmoved(u, dead) == dead

\* The loaded tile a dead tile's doodad is handed to (handoff_straddlers).
NewOwner(u, dead) ==
  LET R == Referrers(u) \ {dead}
  IN IF dead - 1 \in R THEN dead - 1
     ELSE IF dead + 1 \in R THEN dead + 1
     ELSE CHOOSE t \in R : TRUE

StraddlersKept(c, freed) == {}

\* What a dying tile owned of the doodads that stay.
Straddlers(c, freed) ==
  {u \in (listed[c] \ freed) \cap Doodads : owner[u] = c /\ Referrers(u) \ {c} # {}}

\* Unload one stale tile: its entities go, every placement it lists loses a
\* reference, and what it owned of the surviving doodads respawns elsewhere.
DropTile(c) ==
  LET freed == {u \in listed[c] : refs[u] = 1}
      straddlers == Straddlers(c, freed)
  IN /\ up' = up \ {c} /\ furnished' = furnished \ {c}
     /\ listed' = [listed EXCEPT ![c] = {}]
     /\ refs' = [u \in Uid |-> IF u \in listed[c] THEN refs[u] - 1 ELSE refs[u]]
     /\ owner' = [u \in Uid |-> IF u \in straddlers THEN NewOwner(u, c) ELSE owner[u]]
     /\ spawned' = spawned \ (freed \cup straddlers)
     /\ propsLeft' = [b \in Buildings |-> IF b \in freed THEN {} ELSE propsLeft[b]]
     /\ pendingSpawns' = pendingSpawns - FreedWork(freed) + Cardinality(straddlers \cap spawned)
     /\ tileHulls' = [tileHulls EXCEPT ![c] = {}]
     /\ propHulls' = [b \in Buildings |-> IF b \in freed THEN {} ELSE propHulls[b]]
     /\ colliders' = colliders \ CollidersOf({c}, freed)

\* Request what is wanted and not loaded, once the WDT has answered: a paced
\* frame all its held tiles and one more, the nearest; an unpaced one all.
Requests(loaded) ==
  LET fresh == DesiredTiles \ loaded
      outer == fresh \ HeldTiles
  IN IF ~WdtAnswered THEN {{}}
     ELSE IF ~focus.paced \/ outer = {} THEN {fresh}
     ELSE {(fresh \cap HeldTiles) \cup {t} : t \in Nearest(outer, focus.chunk)}

Stale == Loaded \ Keeps(focus.chunk)

\* The rest of stream_terrain once `drop` is unloaded: the requests and the plan.
Request(drop) ==
  /\ \E ask \in Requests(Loaded \ drop) :
       read' = [t \in Tile |-> IF t \in ask THEN "loading"
                               ELSE IF t \in drop THEN "none" ELSE read[t]]
  /\ gaveUp' = gaveUp \ drop
  /\ plan' = {[desired |-> DesiredTiles,
               quiet |-> Stale = {} /\ (WdtAnswered => DesiredTiles \subseteq Loaded)]}
  /\ window' = focus.chunk /\ inner' = HeldTiles
  /\ phase' = "await"
  /\ UNCHANGED <<live, focus, reloadMark, mapVars, settled, wasPaced, tileBatch, propBatch,
                 orphans, answered, progress, residency>>

\* A frame with nothing stale, and one that unloads the farthest stale tile
\* (the unload budget is one a frame).
StreamOn ==
  /\ phase = "window" /\ ~Idle /\ Stale = {}
  /\ Request({})
  /\ UNCHANGED <<up, furnished, listed, placeVars, tileHulls, propHulls, colliders>>

Unload(c) ==
  /\ phase = "window" /\ ~Idle /\ c \in Farthest(Stale, focus.chunk)
  /\ DropTile(c)
  /\ Request({c})

-----------------------------------------------------------------------------
(* await_reads_and_attach: the wait for the held tiles' reads, up to its    *)
(* cap, then the collider attach.                                           *)

InnerReads == IF plan = {} THEN {} ELSE {t \in inner : read[t] = "loading"} \ gaveUp

AwaitReadsAndAttach ==
  /\ phase = "await"
  /\ \E late \in SUBSET InnerReads :
       /\ read' = [t \in Tile |-> IF t \in InnerReads \ late THEN AdtAnswer(t) ELSE read[t]]
       /\ gaveUp' = gaveUp \cup late
  \* the backlog counts what waits before this frame's attaches
  /\ progress' = [progress EXCEPT !.backlog = colliders # {} \/ WeldBacklog]
  /\ \E built \in SUBSET colliders : colliders' = colliders \ built
  /\ phase' = "spawn"
  /\ UNCHANGED <<live, focus, reloadMark, mapVars, planVars, up, furnished, listed, placeVars,
                 hullVars, answered, residency>>

-----------------------------------------------------------------------------
(* spawn_streamed_tiles: the landed tiles, held ones without a limit and    *)
(* then the nearest, one after another within the budget; then the facts.   *)

SpawnTile(t) ==
  /\ phase = "spawn" /\ plan # {}
  /\ t \in IF Landed \cap inner # {} THEN Landed \cap inner ELSE Nearest(Landed, window)
  /\ LET list == Lists[mapDir][t]
     IN /\ Register(list, t)
        /\ listed' = [listed EXCEPT ![t] = list]
  /\ up' = up \cup {t}
  /\ colliders' = colliders \cup {TileCollider(t)}
  /\ UNCHANGED <<frameVars, mapVars, planVars, read, furnished, gaveUp, hullVars, answered,
                 progress, residency>>

FocusTile == TileOf(window)
NearTiles(desired) == {t \in desired : t \in FocusTile - 1 .. FocusTile + 1}

FocusResident(desired) ==
  /\ FocusTile \in desired => TileDone(FocusTile)
  /\ WdtAnswered
  /\ globalWmo => GlobalOf[mapDir] \subseteq spawned

SceneReady(desired) ==
  /\ FocusResident(desired)
  /\ \A t \in NearTiles(desired) :
       TileDone(t) /\ \A u \in listed[t] : u \in Registered => PlacementUp(u)
  /\ globalWmo => \A u \in GlobalOf[mapDir] : PlacementUp(u)

\* rearm_load: what starts a new load unlatches the last one's counts.
LoadRearmed(desired) ==
  ~FocusResident(desired) \/ (wasPaced /\ ~focus.paced) \/ reloadMark

Published(desired) ==
  LET latched == progress.complete /\ ~LoadRearmed(desired)
      wanted == desired # {} \/ globalWmo
  IN [progress EXCEPT
        !.tile = FocusTile,
        !.resident = FocusResident(desired),
        !.wanted = IF latched THEN @ ELSE wanted,
        !.scene = IF latched THEN @ ELSE SceneReady(desired),
        !.complete = latched \/ (SceneReady(desired) /\ wanted /\ \A t \in desired : TileDone(t))]

\* The end of spawn_streamed_tiles: a frame without a plan publishes nothing.
PublishProgress ==
  /\ phase = "spawn"
  /\ plan = {} \/ Landed \cap inner = {}
  /\ IF plan = {} THEN UNCHANGED <<progress, settled, wasPaced, reloadMark>>
     ELSE \A p \in plan :
            /\ settled' = (p.quiet /\ Loaded \subseteq furnished)
            /\ progress' = Published(p.desired)
            /\ wasPaced' = focus.paced
            /\ reloadMark' = FALSE
  /\ plan' = {}
  /\ phase' = "furnish"
  /\ UNCHANGED <<live, focus, mapVars, window, inner, tileVars, placeVars, hullVars, answered,
                 colliders, residency>>

-----------------------------------------------------------------------------
(* attach_inner_colliders and furnish_tile_cells: a held tile is solid and  *)
(* whole in its frame; of the others a paced frame builds the nearest.      *)

Bare == up \ furnished

FurnishCellsUnattached ==
  /\ phase = "furnish"
  /\ \E more \in IF ~focus.paced THEN {Bare}
                 ELSE {{}} \cup {{t} : t \in Nearest(Bare \ inner, window)} :
       furnished' = furnished \cup (Bare \cap inner) \cup more
  /\ phase' = "retire"
  /\ UNCHANGED <<live, focus, reloadMark, mapVars, planVars, read, up, gaveUp, listed, placeVars,
                 hullVars, answered, colliders, progress, residency>>

FurnishCells ==
  /\ phase = "furnish"
  /\ colliders' = colliders \ {TileCollider(t) : t \in inner}
  /\ \E more \in IF ~focus.paced THEN {Bare}
                 ELSE {{}} \cup {{t} : t \in Nearest(Bare \ inner, window)} :
       furnished' = furnished \cup (Bare \cap inner) \cup more
  /\ phase' = "retire"
  /\ UNCHANGED <<live, focus, reloadMark, mapVars, planVars, read, up, gaveUp, listed, placeVars,
                 hullVars, answered, progress, residency>>

-----------------------------------------------------------------------------
(* spawn_loaded_placements: nothing at a zero count; else the failed models *)
(* retire, and what has its model spawns within the budget.                 *)

FailedModels == Unspawned \cap BadModels \cap answered
FailedProps(b) == propsLeft[b] \cap BadModels \cap answered

RetireFailed ==
  /\ phase = "retire" /\ pendingSpawns # 0
  /\ spawned' = spawned \cup FailedModels
  /\ propsLeft' = [b \in Buildings |->
                     IF b \in Registered THEN propsLeft[b] \ FailedProps(b) ELSE propsLeft[b]]
  /\ pendingSpawns' =
       pendingSpawns - Cardinality(FailedModels)
         - Cardinality({w \in PropWork(Registered) : w[2] \in FailedProps(w[1])})
  /\ phase' = "place"
  /\ UNCHANGED <<live, focus, reloadMark, mapVars, planVars, tileVars, refs, owner, hullVars,
                 loadVars>>

\* A doodad: its hull joins its owner tile's batch.
SpawnDoodad(u) ==
  /\ phase = "place" /\ u \in Unspawned \cap Doodads
  /\ u \in answered \ BadModels /\ ~ShadePending(u)
  /\ spawned' = spawned \cup {u}
  /\ pendingSpawns' = pendingSpawns - 1
  /\ tileBatch' = [tileBatch EXCEPT ![owner[u]] = @ \cup {u}]
  /\ UNCHANGED <<frameVars, mapVars, planVars, tileVars, refs, owner, propsLeft, tileHulls,
                 propBatch, propHulls, orphans, loadVars>>

\* A building: its props resolve and join the count, and its entity list is
\* set to what it spawned.
SpawnBuilding(u) ==
  /\ phase = "place" /\ u \in Unspawned \cap Buildings
  /\ u \in answered \ BadModels
  /\ spawned' = spawned \cup {u}
  /\ propsLeft' = [propsLeft EXCEPT ![u] = Props[u]]
  /\ pendingSpawns' = pendingSpawns + Cardinality(Props[u]) - 1
  /\ orphans' = orphans \cup propHulls[u]
  /\ propHulls' = [propHulls EXCEPT ![u] = {}]
  /\ colliders' = colliders \cup {BuildingCollider(u)}
  /\ UNCHANGED <<frameVars, mapVars, planVars, tileVars, refs, owner, tileBatch, tileHulls,
                 propBatch, answered, progress, residency>>

SpawnProp(b, p) ==
  /\ phase = "place" /\ b \in Registered \cap Buildings /\ p \in propsLeft[b]
  /\ p \in answered \ BadModels /\ ~ShadePending(p)
  /\ propsLeft' = [propsLeft EXCEPT ![b] = @ \ {p}]
  /\ pendingSpawns' = pendingSpawns - 1
  /\ propBatch' = [propBatch EXCEPT ![b] = @ \cup {p}]
  /\ UNCHANGED <<frameVars, mapVars, planVars, tileVars, refs, spawned, owner, tileHulls,
                 tileBatch, propHulls, orphans, loadVars>>

\* The budget is spent, or nothing is left to spawn.
EndSpawns ==
  /\ \/ phase = "place"
     \/ phase = "retire" /\ pendingSpawns = 0
  /\ phase' = "weld"
  /\ UNCHANGED <<live, focus, reloadMark, mapVars, planVars, tileVars, placeVars, hullVars,
                 loadVars>>

-----------------------------------------------------------------------------
(* flush_hull_welds: a batch whose tile or placement is gone is discarded;  *)
(* the ready ones close, which an unpaced frame's all are.                  *)

FlushHullWelds ==
  /\ phase = "weld"
  /\ LET tiles == {t \in Tile : tileBatch[t] # {}}
         props == {b \in Buildings : propBatch[b] # {}}
     IN \E readyTiles \in IF focus.paced THEN SUBSET (tiles \cap Loaded) ELSE {tiles \cap Loaded},
           readyProps \in IF focus.paced THEN SUBSET (props \cap Registered)
                          ELSE {props \cap Registered} :
          /\ tileBatch' = [t \in Tile |-> IF t \in Loaded \ readyTiles THEN tileBatch[t] ELSE {}]
          /\ tileHulls' = [t \in Tile |-> IF t \in readyTiles THEN tileHulls[t] \cup tileBatch[t]
                                          ELSE tileHulls[t]]
          /\ propBatch' = [b \in Buildings |->
                             IF b \in Registered \ readyProps THEN propBatch[b] ELSE {}]
          /\ propHulls' = [b \in Buildings |->
                             IF b \in readyProps THEN propHulls[b] \cup propBatch[b]
                             ELSE propHulls[b]]
          /\ colliders' = colliders \cup {WeldCollider(t) : t \in readyTiles}
                            \cup {PropsCollider(b) : b \in readyProps}
  /\ phase' = "publish"
  /\ UNCHANGED <<live, focus, reloadMark, mapVars, planVars, tileVars, placeVars, orphans,
                 answered, progress, residency>>

SolidTilesSpawned == {t \in Loaded : t \in up \/ read[t] = "failed"}

SolidTiles ==
  {t \in Loaded : IF t \in up THEN TileCollider(t) \notin colliders ELSE read[t] = "failed"}

\* publish_terrain_residency: the tiles the next frame's mover may stand on.
PublishTerrainResidency ==
  /\ phase = "publish"
  /\ residency' = SolidTiles
  /\ phase' = "present"
  /\ UNCHANGED <<live, focus, reloadMark, mapVars, planVars, tileVars, placeVars, hullVars,
                 answered, colliders, progress>>

Chain ==
  \/ SwapMap \/ WatchWdt \/ SkipFrame \/ StreamOn
  \/ \E t \in Tile : Unload(t) \/ SpawnTile(t)
  \/ AwaitReadsAndAttach \/ PublishProgress \/ FurnishCells
  \/ RetireFailed
  \/ \E u \in Uid : SpawnDoodad(u) \/ SpawnBuilding(u)
  \/ \E b \in Buildings, p \in Prop : SpawnProp(b, p)
  \/ EndSpawns \/ FlushHullWelds \/ PublishTerrainResidency

-----------------------------------------------------------------------------
(* The world goes (release_world, the frame WorldLive falls); the residency *)
(* and the two marks of the last frame stay as they are.                    *)

ReleaseWorld ==
  /\ phase = "release"
  /\ IF Loaded = {} /\ mapDir = NoMap
     THEN UNCHANGED <<mapVars, planVars, tileVars, placeVars, hullVars, loadVars>>
     ELSE /\ DropStreamedWorld
          /\ mapDir' = NoMap /\ wdt' = "none"
          /\ inner' = {} /\ window' = -1
          /\ progress' = NoProgress
          /\ UNCHANGED <<plan, wasPaced, answered, residency>>
  /\ phase' = "input"
  /\ UNCHANGED <<live, focus, reloadMark>>

-----------------------------------------------------------------------------
(* What the rest of the program may do to the stream: say where to stream   *)
(* from as a frame's stream stage begins, and enter or leave the world.     *)

Focuses == [map : Maps, chunk : Chunk, paced : BOOLEAN, holds : BOOLEAN]

Follow(f, marked) ==
  /\ phase = "input" /\ live
  /\ focus' = f /\ reloadMark' = marked
  /\ phase' = "stream"
  /\ UNCHANGED <<live, mapVars, planVars, tileVars, placeVars, hullVars, loadVars>>

OpenWorld ==
  /\ phase = "input" /\ ~live
  /\ live' = TRUE
  /\ UNCHANGED <<phase, focus, reloadMark, mapVars, planVars, tileVars, placeVars, hullVars,
                 loadVars>>

CloseWorld ==
  /\ phase = "input" /\ live
  /\ live' = FALSE /\ phase' = "release"
  /\ UNCHANGED <<focus, reloadMark, mapVars, planVars, tileVars, placeVars, hullVars, loadVars>>

EndFrame ==
  /\ phase = "present" /\ phase' = "input"
  /\ UNCHANGED <<live, focus, reloadMark, mapVars, planVars, tileVars, placeVars, hullVars,
                 loadVars>>

StreamNext ==
  \/ Elsewhere
  \/ \E f \in Focuses, marked \in BOOLEAN : Follow(f, marked)
  \/ OpenWorld \/ CloseWorld \/ ReleaseWorld \/ EndFrame
  \/ Chain

StreamSpec == StreamInit /\ [][StreamNext]_streamVars

-----------------------------------------------------------------------------
Phases == {"input", "stream", "window", "await", "spawn", "furnish", "retire", "place", "weld",
           "publish", "present", "release"}

\* The type invariant of the streamer (TerrainStreamer, Placements, HullWelds,
\* WorldLoadProgress, TerrainResidency).
TypeOK ==
  /\ phase \in Phases /\ live \in BOOLEAN /\ reloadMark \in BOOLEAN /\ focus \in Focuses
  /\ mapDir \in Maps \cup {NoMap} /\ wdt \in {"none", "loading", "ok", "failed"}
  /\ globalWmo \in BOOLEAN /\ (globalWmo => mapDir \in Maps)
  /\ window \in Chunk \cup {-1} /\ inner \subseteq Tile
  /\ \A p \in plan : p.desired \subseteq Tile /\ p.quiet \in BOOLEAN
  /\ settled \in BOOLEAN /\ wasPaced \in BOOLEAN
  /\ read \in [Tile -> {"none", "loading", "ok", "failed"}]
  /\ up \subseteq Tile /\ furnished \subseteq Tile /\ gaveUp \subseteq Tile
  /\ listed \in [Tile -> SUBSET Uid]
  /\ refs \in [Uid -> Int] /\ spawned \subseteq Uid /\ owner \in [Uid -> Tile]
  /\ propsLeft \in [Buildings -> SUBSET Prop] /\ pendingSpawns \in Int
  /\ answered \subseteq Uid \cup Prop
  /\ tileBatch \in [Tile -> SUBSET Doodads] /\ tileHulls \in [Tile -> SUBSET Doodads]
  /\ propBatch \in [Buildings -> SUBSET Prop] /\ propHulls \in [Buildings -> SUBSET Prop]
  /\ orphans \subseteq Prop
  /\ residency \subseteq Tile

GlobalRef(u) == IF globalWmo /\ u \in GlobalOf[mapDir] THEN 1 ELSE 0

\* A placement's count is exactly the tiles that list it, plus the map's own
\* claim on its one building: register_*, release_placement and both drops keep
\* it, so nothing is freed under a tile that shows it or kept past the last.
RefsAreReferrers ==
  \A u \in Uid : refs[u] = Cardinality(Referrers(u)) + GlobalRef(u)

\* pending_spawns is exactly the registered placements and resolved props that
\* do not stand yet; one too few and the spawner skips its walk over a hole for
\* ever, one too many and it underflows or walks for ever.
PendingIsExact ==
  pendingSpawns = Cardinality(Unspawned) + Cardinality(PropWork(Registered))

\* Every registered doodad is owned by a spawned tile that lists it, so its
\* hull and blobs die with a tile that shows it and the handoff always finds an
\* heir ("holds refs but no loaded tile references it" is never said).
OwnersShowTheirs ==
  \A u \in Registered \cap Doodads : owner[u] \in up /\ u \in listed[owner[u]]

\* A doodad's hull is in its owner's keeping, batched or welded but not both,
\* exactly when the doodad stands on a model that loaded; no other tile has one.
OneHullEach ==
  \A u \in Doodads, t \in Loaded :
    /\ (u \in tileBatch[t] \cup tileHulls[t])
         <=> (u \in Registered \cap spawned /\ owner[u] = t /\ u \notin BadModels)
    /\ u \notin tileBatch[t] \cap tileHulls[t]

\* What the world query may gather next frame is solid ground of the map
\* streamed: a tile said resident is up with its collider attached, or failed.
ResidentIsSolid ==
  phase = "input" /\ live /\ mapDir # NoMap =>
    \A t \in residency : \/ t \in up /\ TileCollider(t) \notin colliders
                         \/ read[t] = "failed"

\* The ground the streamer holds for a body is there when the next frame's
\* mover runs: every held tile is resident, or its wait was given up on.
HeldIsSolid ==
  phase = "present" /\ WdtAnswered => inner \subseteq residency \cup gaveUp

=============================================================================
