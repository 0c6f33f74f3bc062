---------------------------- MODULE WorldArrival -----------------------------
(***************************************************************************)
(* The player's arrivals over the terrain streamer: a login, a transfer to *)
(* another map, a teleport, a cinematic and plain walking move the view    *)
(* focus; a snap holds the body still until the stream says its ground is  *)
(* in, and a transfer's ack goes out when that hold ends.                  *)
(*                                                                         *)
(* Of a position the model keeps its chunk, of a clock only whether a      *)
(* deadline has passed, which it may have at any frame that looks.         *)
(***************************************************************************)
EXTENDS TerrainStream

CONSTANTS
  Spots,      \* the chunks a login or a snap may name
  Walkable,   \* the chunks a body may walk on
  Flown,      \* the chunks a shot's camera may glide along
  MaxEvents   \* bound on the server's moves of the player and the shots

ASSUME PlacesAssumption == Spots \cup Walkable \cup Flown \subseteq Chunk

VARIABLES
  stage,        \* "out", "entering" (a pick is pending), "verified", "in" (Player::active), "leaving"
  curMap, pos,  \* CurrentMap (the picked row's before) and the body's chunk
  settling,     \* Player::settling
  worldStale,   \* Player::world_stale
  worldReload,  \* Player::world_reload
  owesAck,      \* Player::owes_worldport_ack
  flying,       \* a cinematic plays: its camera's chunk, or -1
  wasFlying,
  awaitsAck,    \* the server keeps a transfer it sent out of world until its ack
  events

bodyVars == <<stage, curMap, pos>>
holdVars == <<settling, worldStale, worldReload>>
arrivalVars == <<bodyVars, holdVars, owesAck, flying, wasFlying, awaitsAck, events>>
vars == <<streamVars, arrivalVars>>

stream == <<live, phase, focus, mapVars, planVars, tileVars, placeVars, hullVars, loadVars>>

Active == stage = "in"

Init ==
  /\ StreamInit
  /\ stage = "out" /\ curMap = focus.map /\ pos = focus.chunk
  /\ settling = FALSE /\ worldStale = FALSE /\ worldReload = FALSE
  /\ owesAck = FALSE /\ flying = -1 /\ wasFlying = FALSE
  /\ awaitsAck = FALSE /\ events = 0

Event ==
  /\ phase = "input" /\ events < MaxEvents
  /\ events' = events + 1

-----------------------------------------------------------------------------
(* What the net stage and control bring a frame.                            *)

\* A pick enters the world: the picked row is streamed before any avatar.
Enter(m, s) ==
  /\ Event /\ stage = "out"
  /\ stage' = "entering" /\ curMap' = m /\ pos' = s
  /\ OpenWorld
  /\ UNCHANGED <<holdVars, owesAck, flying, wasFlying, awaitsAck>>

\* The login's worldport, which owes no ack.
LoginVerified ==
  /\ phase = "input" /\ stage = "entering"
  /\ stage' = "verified"
  /\ settling' = TRUE /\ worldStale' = TRUE /\ worldReload' = FALSE
  /\ UNCHANGED <<streamVars, curMap, pos, owesAck, flying, wasFlying, awaitsAck, events>>

\* The server first reports our position: take control, held.
Seize ==
  /\ phase = "input" /\ stage = "verified"
  /\ stage' = "in"
  /\ settling' = TRUE /\ worldStale' = TRUE
  /\ UNCHANGED <<streamVars, curMap, pos, worldReload, owesAck, flying, wasFlying, awaitsAck,
                 events>>

\* A transfer to another map, whose sweep dropped any shot: held, its ack owed.
Worldport(m, s) ==
  /\ Event /\ Active /\ ~awaitsAck /\ m # curMap
  /\ curMap' = m /\ pos' = s
  /\ settling' = TRUE /\ worldStale' = TRUE /\ worldReload' = FALSE
  /\ owesAck' = TRUE /\ awaitsAck' = TRUE
  /\ flying' = -1
  /\ UNCHANGED <<streamVars, stage, wasFlying>>

\* A transfer aboard a transport: nothing is held, and the ack goes at once.
WorldportRiding(m, s) ==
  /\ Event /\ Active /\ ~awaitsAck /\ m # curMap
  /\ curMap' = m /\ pos' = s
  /\ worldReload' = FALSE /\ flying' = -1
  /\ UNCHANGED <<streamVars, stage, settling, worldStale, owesAck, wasFlying, awaitsAck>>

\* is_far_reload: thirty yards are less than a chunk, so a move within a chunk or
\* to the next one may be near or far.
FarReload(a, b) == IF b \in a - 1 .. a + 1 THEN BOOLEAN ELSE {TRUE}

\* A teleport on this map: held, and a far one reloads the destination.
Teleport(s) ==
  /\ Event /\ Active /\ ~awaitsAck
  /\ pos' = s
  /\ settling' = TRUE /\ worldStale' = TRUE
  /\ \E far \in FarReload(pos, s) : /\ worldReload' = (worldReload \/ far)
                                   /\ reloadMark' = (reloadMark \/ far)
  /\ UNCHANGED <<stream, stage, curMap, owesAck, flying, wasFlying, awaitsAck>>

\* Where the camera is as a frame's shots are driven: control has seated it behind
\* the body again, at most fifty yards away, whatever shot is on.
CameraAt == pos - 2 .. pos + 2

\* A cinematic's shot opens, the first or the next; a far one reloads its place.
OpenShot(c) ==
  /\ Event /\ Active
  /\ flying' = c
  /\ \E from \in CameraAt : \E far \in FarReload(from, c) : reloadMark' = (reloadMark \/ far)
  /\ UNCHANGED <<stream, bodyVars, holdVars, owesAck, wasFlying, awaitsAck>>

\* drive seats the camera along the shot, and no glide asks for a reload.
Glide(c) ==
  /\ phase = "input" /\ Active /\ flying # -1
  /\ c \in {flying - 1, flying + 1}
  /\ flying' = c
  /\ UNCHANGED <<streamVars, bodyVars, holdVars, owesAck, wasFlying, awaitsAck, events>>

\* The last shot runs out or is skipped: if the camera, seated again, is far from
\* the body, it reloads the body's place.
EndCinematic ==
  /\ phase = "input" /\ Active /\ flying # -1
  /\ flying' = -1
  /\ \E from \in CameraAt : \E far \in FarReload(from, pos) : reloadMark' = (reloadMark \/ far)
  /\ UNCHANGED <<stream, bodyVars, holdVars, owesAck, wasFlying, awaitsAck, events>>

\* A reload of the interface drops the shot, and asks for nothing.
AbandonCinematic ==
  /\ phase = "input" /\ Active /\ flying # -1
  /\ flying' = -1
  /\ UNCHANGED <<streamVars, bodyVars, holdVars, owesAck, wasFlying, awaitsAck, events>>

\* The session ends: the whole Player resource is reset, a frame or more ahead
\* of the world's release; its reload count drops to zero, a mark or none.
EndSession ==
  /\ phase = "input" /\ stage \in {"entering", "verified", "in"}
  /\ stage' = "leaving"
  /\ settling' = FALSE /\ worldStale' = FALSE /\ worldReload' = FALSE
  /\ owesAck' = FALSE /\ flying' = -1 /\ awaitsAck' = FALSE
  /\ reloadMark' \in BOOLEAN
  /\ UNCHANGED <<stream, curMap, pos, wasFlying, events>>

LeaveWorld ==
  /\ stage = "leaving"
  /\ CloseWorld
  /\ stage' = "out"
  /\ UNCHANGED <<curMap, pos, holdVars, owesAck, flying, wasFlying, awaitsAck, events>>

-----------------------------------------------------------------------------
\* Where control's step leaves the body: held, where it was; else as far as the
\* next chunk, if the last stream stage left it ground there or found the map to be
\* one object, whose terrain gates nothing.
Steps ==
  IF Active /\ ~settling
  THEN {pos} \cup {s \in {pos - 1, pos + 1} \cap Walkable : globalWmo \/ TileOf(s) \in residency}
  ELSE {pos}

\* control's walk, then publish_view_focus: a cinematic's rising edge holds the
\* body, and the focus says where to stream from.
PublishViewFocus(to) ==
  LET rises == flying # -1 /\ ~wasFlying /\ Active
      settling1 == settling \/ rises
      stale1 == worldStale \/ rises
      paced == Active /\ ~settling1 /\ ~stale1
      eye == IF Active /\ flying # -1 THEN flying ELSE to
  IN /\ Follow([map |-> curMap, chunk |-> eye, paced |-> paced,
                holds |-> Active /\ (paced \/ flying # -1)], reloadMark)
     /\ settling' = settling1 /\ worldStale' = stale1
     /\ wasFlying' = (flying # -1)
     /\ pos' = to
     /\ UNCHANGED <<stage, curMap, worldReload, owesAck, flying, awaitsAck, events>>

ResidencyReached == progress.resident /\ progress.wanted /\ progress.tile = TileOf(pos)

\* Which end, if any, this frame gives a hold.
StaleNow == worldStale /\ ~ResidencyReached
Arrived == Presentable /\ ~StaleNow /\ progress.tile = TileOf(pos)

EndsResident(ceiling) == settling /\ ~(worldReload /\ ceiling) /\ Arrived
EndsLate(ceiling, stalled) ==
  settling /\ ((worldReload /\ ceiling) \/ (~Arrived /\ ~StaleNow /\ stalled))

ReleaseHoldLateUnacked(ceiling, stalled) ==
  /\ worldStale' = StaleNow
  /\ IF EndsResident(ceiling) \/ EndsLate(ceiling, stalled)
     THEN /\ settling' = FALSE /\ worldReload' = FALSE
          /\ owesAck' = (owesAck /\ EndsLate(ceiling, stalled))
          /\ awaitsAck' = (awaitsAck /\ (~owesAck \/ EndsLate(ceiling, stalled)))
     ELSE UNCHANGED <<settling, worldReload, owesAck, awaitsAck>>
  /\ EndFrame
  /\ UNCHANGED <<bodyVars, flying, wasFlying, events>>

\* release_post_snap_hold: `ceiling` is the reload's, `stalled` a whole budget
\* in which no counter of the stream moved.
ReleaseHold(ceiling, stalled) ==
  /\ worldStale' = StaleNow
  /\ IF EndsResident(ceiling) \/ EndsLate(ceiling, stalled)
     THEN /\ settling' = FALSE /\ worldReload' = FALSE
          /\ owesAck' = FALSE
          /\ awaitsAck' = (awaitsAck /\ ~owesAck)
     ELSE UNCHANGED <<settling, worldReload, owesAck, awaitsAck>>
  /\ EndFrame
  /\ UNCHANGED <<bodyVars, flying, wasFlying, events>>

-----------------------------------------------------------------------------
Frame ==
  \/ (Chain \/ ReleaseWorld) /\ UNCHANGED arrivalVars
  \/ \E to \in Steps : PublishViewFocus(to)
  \/ \E ceiling, stalled \in BOOLEAN : ReleaseHold(ceiling, stalled)

Next ==
  \/ Frame
  \/ Elsewhere /\ UNCHANGED arrivalVars
  \/ \E m \in Maps, s \in Spots : Enter(m, s) \/ Worldport(m, s) \/ WorldportRiding(m, s)
  \/ LoginVerified \/ Seize
  \/ \E s \in Spots : Teleport(s) \/ OpenShot(s)
  \/ \E c \in Flown : Glide(c)
  \/ EndCinematic \/ AbandonCinematic
  \/ EndSession \/ LeaveWorld

Spec == Init /\ [][Next]_vars

\* The work of a load: reads come back, and every frame attaches a collider that
\* is built, furnishes a tile, spawns a thing that is ready and closes a batch
\* that has waited, at least one of each kind there is.
Work ==
  \/ (\E t \in Tile : ReadTile(t)) \/ ReadWdt \/ (\E x \in Uid \cup Prop : ReadModel(x))
  \/ AwaitReadsAndAttach /\ colliders' # colliders
  \/ \E t \in Tile : SpawnTile(t)
  \/ FurnishCells /\ furnished' # furnished
  \/ \E u \in Uid : SpawnDoodad(u) \/ SpawnBuilding(u)
  \/ \E b \in Buildings, p \in Prop : SpawnProp(b, p)
  \/ FlushHullWelds /\ hullVars' # hullVars

FairSpec == Spec /\ WF_vars(Frame) /\ SF_vars(Work /\ UNCHANGED arrivalVars)

-----------------------------------------------------------------------------
\* A transfer the server waits on is owed its ack and still held for, so the
\* ack has a release to go out at: no end of a hold but the one that sends it.
AckHasItsHold == awaitsAck => owesAck /\ settling

\* A placement stands, and every collider of it is attached.
Solid(u) ==
  /\ PlacementUp(u)
  /\ CollidersOf({}, {u}) \cap colliders = {}
  /\ u \in Doodads => WeldCollider(owner[u]) \notin colliders
                        /\ \A t \in Tile : u \notin tileBatch[t]

\* The ground of a chunk is the map's own and is in, or the map has none there.
OwnGround(c) ==
  LET t == TileOf(c)
  IN /\ mapDir = curMap
     /\ \/ t \in furnished \cap residency
        \/ read[t] = "failed"
        \/ wdt = "ok" /\ t \notin Authored[mapDir]

\* The ground is in, with what stands on it.
GroundIn(c) ==
  /\ OwnGround(c)
  /\ \A u \in listed[TileOf(c)] : Solid(u)
  /\ globalWmo => \A u \in GlobalOf[mapDir] : Solid(u)

\* A body is let go as arrived only on the map it is on, where its tile's ground is
\* whole and in the world query, or failed for good, or is none of the map's, whatever
\* moved it while the load ran (world_focus.rs, release_post_snap_hold and
\* residency_reached).
ArrivedOnOwnGround ==
  [][phase = "present" /\ settling /\ ~settling' /\ Arrived => OwnGround(pos)]_vars

\* A body is let go as arrived only where what stands on its ground stands too, every
\* collider attached: the release keys on scene_ready, "The focus tile and its 8
\* neighbours are up with every placement they reference" (terrain_stream.rs).  The
\* counts behind it are latched, so the code breaks it: a shot's camera that glides
\* off to tiles which are whole completes the load there, and the body's own tile,
\* once furnished, does not re-arm it when the shot ends.
ReleasedOntoItsGround ==
  [][phase = "present" /\ settling /\ ~settling' /\ Arrived => GroundIn(pos)]_vars

\* A load is over some time: a body that stays where it is, its eye its own, gets
\* the whole scene about it, though a tile or a model of it could not be read.
LoadArrives ==
  \A s \in Spots :
    LET there == Active /\ pos = s /\ flying = -1
    IN there ~> Presentable \/ ~there
=============================================================================
