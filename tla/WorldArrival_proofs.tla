------------------------- MODULE WorldArrival_proofs -------------------------
(***************************************************************************)
(* What the streamer under every arrival keeps, for every strip, window,   *)
(* set of maps and content: its types; placements are counted by the tiles *)
(* that list them and the spawner's count is the work there is; a doodad's *)
(* owner is a spawned tile that lists it, and keeps its one hull; the      *)
(* tiles said resident are solid and the held ones are among them; and a   *)
(* transfer's ack has the hold it goes out at.                             *)
(***************************************************************************)
EXTENDS WorldArrival, FiniteSetTheorems, TLAPS

-----------------------------------------------------------------------------
(* The steps, sorted by what they do to the placements.                     *)

placing == <<refs, listed, up, owner, globalWmo, mapDir>>

\* Every step of the whole leaves the placements alone or is one of the six that
\* do not.
LEMMA Sorted ==
    ASSUME [Next]_vars
    PROVE  \/ UNCHANGED placing
           \/ SwapMap \/ ReleaseWorld \/ WatchWdt
           \/ \E t \in Tile : Unload(t) \/ SpawnTile(t)
<1>1. ASSUME Chain PROVE \/ UNCHANGED placing \/ SwapMap \/ WatchWdt
                         \/ \E t \in Tile : Unload(t) \/ SpawnTile(t)
  <2>1. ASSUME SkipFrame \/ StreamOn \/ AwaitReadsAndAttach \/ PublishProgress \/ FurnishCells
               \/ RetireFailed \/ EndSpawns \/ FlushHullWelds \/ PublishTerrainResidency
        PROVE  UNCHANGED placing
    BY <2>1 DEF SkipFrame, StreamOn, Request, AwaitReadsAndAttach, PublishProgress, FurnishCells, RetireFailed,
                EndSpawns, FlushHullWelds, PublishTerrainResidency, placing, mapVars, tileVars, placeVars
  <2>2. ASSUME \/ \E u \in Uid : SpawnDoodad(u) \/ SpawnBuilding(u)
               \/ \E b \in Buildings, p \in Prop : SpawnProp(b, p)
        PROVE  UNCHANGED placing
    BY <2>2 DEF SpawnDoodad, SpawnBuilding, SpawnProp, placing, mapVars, tileVars
  <2> QED
    BY <1>1, <2>1, <2>2 DEF Chain
<1>2. ASSUME NEW f, NEW marked, Follow(f, marked) PROVE UNCHANGED placing
  BY <1>2 DEF Follow, placing, mapVars, tileVars, placeVars
<1>3. ASSUME EndFrame PROVE UNCHANGED placing
  BY <1>3 DEF EndFrame, placing, mapVars, tileVars, placeVars
<1>4. ASSUME OpenWorld \/ CloseWorld PROVE UNCHANGED placing
  BY <1>4 DEF OpenWorld, CloseWorld, placing, mapVars, tileVars, placeVars
<1>5. ASSUME Elsewhere PROVE UNCHANGED placing
  BY <1>5 DEF Elsewhere, ReadTile, ReadWdt, ReadModel, FreeModel, placing, mapVars, tileVars, placeVars
<1>6. ASSUME Frame PROVE \/ UNCHANGED placing \/ SwapMap \/ ReleaseWorld \/ WatchWdt
                         \/ \E t \in Tile : Unload(t) \/ SpawnTile(t)
  BY <1>1, <1>2, <1>3, <1>6 DEF Frame, PublishViewFocus, ReleaseHold
<1>7. ASSUME UNCHANGED streamVars \/ UNCHANGED stream PROVE UNCHANGED placing
  BY <1>7 DEF streamVars, stream, placing, mapVars, tileVars, placeVars
<1>8. ASSUME NEW m, NEW s, Enter(m, s) \/ Worldport(m, s) \/ WorldportRiding(m, s) PROVE UNCHANGED placing
  BY <1>4, <1>7, <1>8 DEF Enter, Worldport, WorldportRiding
<1>9. ASSUME NEW s, Teleport(s) PROVE UNCHANGED placing
  BY <1>7, <1>9 DEF Teleport
<1>10. ASSUME EndCinematic \/ AbandonCinematic \/ \E c : OpenShot(c) \/ Glide(c) PROVE UNCHANGED placing
  BY <1>7, <1>10 DEF EndCinematic, AbandonCinematic, OpenShot, Glide
<1>11. ASSUME LoginVerified \/ Seize \/ EndSession \/ LeaveWorld PROVE UNCHANGED placing
  BY <1>4, <1>7, <1>11 DEF LoginVerified, Seize, EndSession, LeaveWorld
<1>12. ASSUME UNCHANGED vars PROVE UNCHANGED placing
  BY <1>7, <1>12 DEF vars
<1> QED
  BY <1>5, <1>6, <1>8, <1>9, <1>10, <1>11, <1>12 DEF Next

\* The maps named are the server's, at every step.
MapsNamed == focus.map \in Maps /\ curMap \in Maps

LEMMA MapsStep == MapsNamed /\ [Next]_vars => MapsNamed'
<1> SUFFICES ASSUME MapsNamed, [Next]_vars PROVE MapsNamed'
  OBVIOUS
<1>1. ASSUME Chain \/ Elsewhere \/ EndFrame \/ OpenWorld \/ CloseWorld \/ ReleaseWorld PROVE focus' = focus
  <2>1. ASSUME Chain PROVE focus' = focus
    BY <2>1 DEF Chain, SwapMap, WatchWdt, SkipFrame, StreamOn, Unload, Request, SpawnTile, AwaitReadsAndAttach,
                PublishProgress, FurnishCells, RetireFailed, SpawnDoodad, SpawnBuilding, SpawnProp, EndSpawns,
                FlushHullWelds, PublishTerrainResidency, frameVars
  <2>2. ASSUME Elsewhere PROVE focus' = focus
    BY <2>2 DEF Elsewhere, ReadTile, ReadWdt, ReadModel, FreeModel, frameVars
  <2> QED
    BY <1>1, <2>1, <2>2 DEF EndFrame, OpenWorld, CloseWorld, ReleaseWorld
<1>2. ASSUME NEW to, PublishViewFocus(to) PROVE MapsNamed'
  <2>1. curMap' = curMap /\ focus'.map = curMap
    BY <1>2 DEF PublishViewFocus, Follow
  <2> QED
    BY <2>1 DEF MapsNamed
<1>3. ASSUME Frame PROVE MapsNamed'
  BY <1>1, <1>2, <1>3 DEF Frame, ReleaseHold, MapsNamed, arrivalVars, bodyVars
<1>4. ASSUME Elsewhere /\ UNCHANGED arrivalVars PROVE MapsNamed'
  BY <1>1, <1>4 DEF MapsNamed, arrivalVars, bodyVars
<1>5. ASSUME NEW m \in Maps, NEW s, Enter(m, s) \/ Worldport(m, s) \/ WorldportRiding(m, s) PROVE MapsNamed'
  BY <1>1, <1>5 DEF Enter, Worldport, WorldportRiding, MapsNamed, streamVars, frameVars
<1>6. ASSUME LoginVerified \/ Seize PROVE MapsNamed'
  BY <1>6 DEF LoginVerified, Seize, MapsNamed, streamVars, frameVars
<1>7. ASSUME NEW s, Teleport(s) PROVE MapsNamed'
  BY <1>7 DEF Teleport, MapsNamed, stream
<1>8. ASSUME EndCinematic \/ AbandonCinematic \/ \E c : OpenShot(c) \/ Glide(c) PROVE MapsNamed'
  BY <1>8 DEF EndCinematic, AbandonCinematic, OpenShot, Glide, MapsNamed, stream, streamVars, frameVars, bodyVars
<1>9. ASSUME EndSession \/ LeaveWorld PROVE MapsNamed'
  BY <1>1, <1>9 DEF EndSession, LeaveWorld, MapsNamed, stream
<1>10. ASSUME UNCHANGED vars PROVE MapsNamed'
  BY <1>10 DEF vars, streamVars, frameVars, arrivalVars, bodyVars, MapsNamed
<1> QED
  BY <1>3, <1>4, <1>5, <1>6, <1>7, <1>8, <1>9, <1>10 DEF Next

\* Where in the frame the map is known and the world lives.
Phased ==
  /\ phase \in Phases
  /\ phase \notin {"input", "stream", "release"} => mapDir \in Maps
  /\ phase \notin {"input", "release"} => live
  /\ phase = "input" /\ ~live => mapDir = NoMap

LEMMA PhasedStep == MapsNamed /\ Phased /\ [Next]_vars => Phased'
<1> SUFFICES ASSUME MapsNamed, Phased, [Next]_vars PROVE Phased'
  OBVIOUS
<1>1. ASSUME UNCHANGED <<phase, live, mapDir>> PROVE Phased'
  BY <1>1 DEF Phased
<1>2. ASSUME Chain PROVE Phased'
  <2>1. CASE SwapMap
    BY <2>1 DEF SwapMap, Phased, Phases, MapsNamed
  <2>2. CASE WatchWdt
    BY <2>2 DEF WatchWdt, Phased, Phases, MapsNamed
  <2>3. CASE SkipFrame \/ StreamOn
    BY <2>3 DEF SkipFrame, StreamOn, Request, Phased, Phases, mapVars
  <2>4. ASSUME NEW t \in Tile, Unload(t) PROVE Phased'
    BY <2>4 DEF Unload, Request, Phased, Phases, mapVars
  <2>5. CASE AwaitReadsAndAttach
    BY <2>5 DEF AwaitReadsAndAttach, Phased, Phases, mapVars
  <2>6. ASSUME NEW t \in Tile, SpawnTile(t) PROVE Phased'
    BY <1>1, <2>6 DEF SpawnTile, frameVars, mapVars
  <2>7. CASE PublishProgress \/ FurnishCells \/ RetireFailed
    BY <2>7 DEF PublishProgress, FurnishCells, RetireFailed, Phased, Phases, mapVars
  <2>8. ASSUME \/ \E u \in Uid : SpawnDoodad(u) \/ SpawnBuilding(u)
               \/ \E b \in Buildings, p \in Prop : SpawnProp(b, p)
        PROVE  Phased'
    BY <1>1, <2>8 DEF SpawnDoodad, SpawnBuilding, SpawnProp, frameVars, mapVars
  <2>9. CASE EndSpawns \/ FlushHullWelds \/ PublishTerrainResidency
    BY <2>9 DEF EndSpawns, FlushHullWelds, PublishTerrainResidency, Phased, Phases, mapVars
  <2> QED
    BY <1>2, <2>1, <2>2, <2>3, <2>4, <2>5, <2>6, <2>7, <2>8, <2>9 DEF Chain
<1>3. ASSUME ReleaseWorld PROVE Phased'
  BY <1>3 DEF ReleaseWorld, Phased, Phases, mapVars
<1>4. ASSUME NEW f, NEW marked, Follow(f, marked) PROVE Phased'
  BY <1>4 DEF Follow, Phased, Phases, mapVars
<1>5. ASSUME EndFrame \/ OpenWorld \/ CloseWorld PROVE Phased'
  BY <1>5 DEF EndFrame, OpenWorld, CloseWorld, Phased, Phases, mapVars
<1>6. ASSUME Elsewhere PROVE Phased'
  BY <1>1, <1>6 DEF Elsewhere, ReadTile, ReadWdt, ReadModel, FreeModel, frameVars, mapVars
<1>7. ASSUME Frame PROVE Phased'
  BY <1>2, <1>3, <1>4, <1>5, <1>7 DEF Frame, PublishViewFocus, ReleaseHold
<1>8. ASSUME UNCHANGED streamVars \/ UNCHANGED stream PROVE Phased'
  BY <1>1, <1>8 DEF streamVars, stream, frameVars, mapVars
<1>9. ASSUME NEW m, NEW s, Enter(m, s) \/ Worldport(m, s) \/ WorldportRiding(m, s) PROVE Phased'
  BY <1>5, <1>8, <1>9 DEF Enter, Worldport, WorldportRiding
<1>10. ASSUME NEW s, Teleport(s) PROVE Phased'
  BY <1>8, <1>10 DEF Teleport
<1>11. ASSUME EndCinematic \/ AbandonCinematic \/ \E c : OpenShot(c) \/ Glide(c) PROVE Phased'
  BY <1>8, <1>11 DEF EndCinematic, AbandonCinematic, OpenShot, Glide
<1>12. ASSUME LoginVerified \/ Seize \/ EndSession \/ LeaveWorld PROVE Phased'
  BY <1>5, <1>8, <1>12 DEF LoginVerified, Seize, EndSession, LeaveWorld
<1>13. ASSUME UNCHANGED vars PROVE Phased'
  BY <1>8, <1>13 DEF vars
<1> QED
  BY <1>6, <1>7, <1>9, <1>10, <1>11, <1>12, <1>13 DEF Next

-----------------------------------------------------------------------------
(* The references.  A tile that is not up lists nothing, so the tile that   *)
(* spawns is a new referrer of all it lists; the building of a map is       *)
(* registered once, while globalWmo says so.                                *)

Listing ==
  /\ refs \in [Uid -> Int] /\ listed \in [Tile -> SUBSET Uid] /\ up \subseteq Tile
  /\ globalWmo \in BOOLEAN
  /\ \A t \in Tile \ up : listed[t] = {}

Counts == Listing /\ MapsNamed /\ RefsAreReferrers

LEMMA TilesAreFinite == \A u : IsFiniteSet(Referrers(u)) /\ Cardinality(Referrers(u)) \in Nat
<1> SUFFICES ASSUME NEW u PROVE IsFiniteSet(Referrers(u)) /\ Cardinality(Referrers(u)) \in Nat
  OBVIOUS
<1>1. IsFiniteSet(Tile)
  BY StripAssumption, FS_Interval DEF Tile
<1>2. Referrers(u) \in SUBSET Tile
  BY DEF Referrers
<1> QED
  BY <1>1, <1>2, FS_Subset, FS_CardinalityType

\* A tile that comes up refers to what it lists.
LEMMA ReferredToo ==
    ASSUME Listing, NEW t \in Tile \ up, NEW S \in SUBSET Uid, listed' = [listed EXCEPT ![t] = S], NEW u \in Uid
    PROVE  Cardinality(Referrers(u)') = Cardinality(Referrers(u)) + (IF u \in S THEN 1 ELSE 0)
<1>1. Referrers(u)' = IF u \in S THEN Referrers(u) \cup {t} ELSE Referrers(u)
  BY DEF Referrers, Listing
<1>2. t \notin Referrers(u)
  BY DEF Referrers, Listing
<1>3. IsFiniteSet(Referrers(u)) /\ Cardinality(Referrers(u)) \in Nat
  BY TilesAreFinite
<1>4. Cardinality(Referrers(u) \cup {t}) = Cardinality(Referrers(u)) + 1
  BY <1>2, <1>3, FS_AddElement
<1>5. CASE u \in S
  BY <1>1, <1>4, <1>5
<1>6. CASE u \notin S
  <2>1. Cardinality(Referrers(u)') = Cardinality(Referrers(u))
    BY <1>1, <1>6
  <2> QED
    BY <1>3, <1>6, <2>1
<1> QED
  BY <1>5, <1>6

\* A tile that goes refers to nothing.
LEMMA ReferredLess ==
    ASSUME Listing, NEW t \in Tile, listed' = [listed EXCEPT ![t] = {}], NEW u \in Uid
    PROVE  /\ Referrers(u)' = Referrers(u) \ {t}
           /\ Cardinality(Referrers(u)') = Cardinality(Referrers(u)) - (IF u \in listed[t] THEN 1 ELSE 0)
<1>1. Referrers(u)' = Referrers(u) \ {t}
  BY DEF Referrers, Listing
<1>2. t \in Referrers(u) <=> u \in listed[t]
  BY DEF Referrers
<1>3. IsFiniteSet(Referrers(u)) /\ Cardinality(Referrers(u)) \in Nat
  BY TilesAreFinite
<1>4. Cardinality(Referrers(u) \ {t}) =
        IF t \in Referrers(u) THEN Cardinality(Referrers(u)) - 1 ELSE Cardinality(Referrers(u))
  BY <1>3, FS_RemoveElement
<1>5. CASE u \in listed[t]
  BY <1>1, <1>2, <1>4, <1>5
<1>6. CASE u \notin listed[t]
  <2>1. Cardinality(Referrers(u)') = Cardinality(Referrers(u))
    BY <1>1, <1>2, <1>4, <1>6
  <2> QED
    BY <1>1, <1>3, <1>6, <2>1
<1> QED
  BY <1>5, <1>6

\* Everything goes: a count that was exact is zero.
LEMMA CountsDropped ==
    ASSUME Counts, DropStreamedWorld
    PROVE  Listing' /\ RefsAreReferrers' /\ Registered' = {}
<1>1. /\ listed' = [t \in Tile |-> {}] /\ up' = {} /\ globalWmo' = FALSE
      /\ refs' = [u \in Uid |-> refs[u] - Cardinality(Referrers(u))
                    - (IF globalWmo /\ u \in GlobalOf[mapDir] THEN 1 ELSE 0)]
  BY DEF DropStreamedWorld
<1>2. ASSUME NEW u \in Uid PROVE refs'[u] = 0 /\ Cardinality(Referrers(u)') = 0 /\ GlobalRef(u)' = 0
  <2>1. refs[u] = Cardinality(Referrers(u)) + GlobalRef(u)
    BY DEF Counts, RefsAreReferrers
  <2>2. GlobalRef(u) = (IF globalWmo /\ u \in GlobalOf[mapDir] THEN 1 ELSE 0) /\ GlobalRef(u) \in Int
    BY DEF GlobalRef
  <2>3. Cardinality(Referrers(u)) \in Int
    BY TilesAreFinite
  <2>4. refs'[u] = refs[u] - Cardinality(Referrers(u)) - GlobalRef(u)
    BY <1>1, <2>2
  <2>5. refs'[u] = 0
    BY <2>1, <2>2, <2>3, <2>4
  <2>6. Referrers(u)' = {}
    BY <1>1 DEF Referrers
  <2>7. GlobalRef(u)' = 0
    BY <1>1 DEF GlobalRef
  <2> QED
    BY <2>5, <2>6, <2>7, FS_EmptySet
<1>3. refs' \in [Uid -> Int]
  <2>1. refs' = [u \in Uid |-> refs'[u]]
    BY <1>1
  <2> HIDE <1>1
  <2> QED
    BY <1>2, <2>1
<1>4. Listing'
  BY <1>1, <1>3 DEF Listing
<1>5. RefsAreReferrers'
  BY <1>2 DEF RefsAreReferrers
<1>6. Registered' = {}
  BY <1>2 DEF Registered
<1> QED
  BY <1>4, <1>5, <1>6

\* A tile is unloaded: what it lists loses one reference, and one referrer.
LEMMA CountsUnloaded ==
    ASSUME Counts, NEW t \in Tile, Unload(t)
    PROVE  Listing' /\ RefsAreReferrers'
<1>1. /\ up' = up \ {t} /\ listed' = [listed EXCEPT ![t] = {}]
      /\ refs' = [u \in Uid |-> IF u \in listed[t] THEN refs[u] - 1 ELSE refs[u]]
      /\ UNCHANGED <<mapDir, globalWmo>>
  BY DEF Unload, DropTile, Request, mapVars
<1>2. Listing'
  BY <1>1 DEF Counts, Listing
<1>3. ASSUME NEW u \in Uid PROVE refs'[u] = Cardinality(Referrers(u)') + GlobalRef(u)'
  <2>1. Cardinality(Referrers(u)') = Cardinality(Referrers(u)) - (IF u \in listed[t] THEN 1 ELSE 0)
    BY <1>1, ReferredLess DEF Counts
  <2>2. refs[u] = Cardinality(Referrers(u)) + GlobalRef(u) /\ GlobalRef(u)' = GlobalRef(u) /\ GlobalRef(u) \in Int
    BY <1>1 DEF Counts, RefsAreReferrers, GlobalRef
  <2>3. Cardinality(Referrers(u)) \in Int
    BY TilesAreFinite
  <2>4. refs'[u] = IF u \in listed[t] THEN refs[u] - 1 ELSE refs[u]
    BY <1>1
  <2> HIDE <1>1
  <2> QED
    BY <2>1, <2>2, <2>3, <2>4
<1> QED
  BY <1>2, <1>3 DEF RefsAreReferrers

\* A tile is spawned: what it lists gains one reference, and one referrer.
LEMMA CountsSpawned ==
    ASSUME Counts, mapDir \in Maps, NEW t \in Tile, SpawnTile(t)
    PROVE  Listing' /\ RefsAreReferrers'
<1> DEFINE S == Lists[mapDir][t]
<1>1. /\ up' = up \cup {t} /\ listed' = [listed EXCEPT ![t] = S]
      /\ refs' = [u \in Uid |-> IF u \in S THEN refs[u] + 1 ELSE refs[u]]
      /\ UNCHANGED <<mapDir, globalWmo>>
      /\ S \in SUBSET Uid
  BY ContentAssumption DEF SpawnTile, Register, mapVars
<1>2. t \notin up
  BY DEF SpawnTile, Landed, Nearest
<1> HIDE DEF S
<1>3. Listing'
  BY <1>1 DEF Counts, Listing
<1>4. ASSUME NEW u \in Uid PROVE refs'[u] = Cardinality(Referrers(u)') + GlobalRef(u)'
  <2>1. Cardinality(Referrers(u)') = Cardinality(Referrers(u)) + (IF u \in S THEN 1 ELSE 0)
    BY <1>1, <1>2, ReferredToo DEF Counts
  <2>2. refs[u] = Cardinality(Referrers(u)) + GlobalRef(u) /\ GlobalRef(u)' = GlobalRef(u) /\ GlobalRef(u) \in Int
    BY <1>1 DEF Counts, RefsAreReferrers, GlobalRef
  <2>3. Cardinality(Referrers(u)) \in Int
    BY TilesAreFinite
  <2>4. refs'[u] = IF u \in S THEN refs[u] + 1 ELSE refs[u]
    BY <1>1
  <2> HIDE <1>1
  <2> QED
    BY <2>1, <2>2, <2>3, <2>4
<1> QED
  BY <1>3, <1>4 DEF RefsAreReferrers

\* The building of a map is registered, once.
LEMMA CountsGlobal ==
    ASSUME Counts, WatchWdt
    PROVE  Listing' /\ RefsAreReferrers'
<1>1. CASE wdt = "ok" /\ GlobalOf[mapDir] # {} /\ ~globalWmo
  <2> DEFINE S == GlobalOf[mapDir]
  <2>1. /\ refs' = [u \in Uid |-> IF u \in S THEN refs[u] + 1 ELSE refs[u]]
        /\ globalWmo' = TRUE /\ UNCHANGED <<mapDir, listed, up>>
    BY <1>1 DEF WatchWdt, Register, tileVars
  <2>2. Listing'
    BY <2>1 DEF Counts, Listing
  <2>3. ASSUME NEW u \in Uid PROVE refs'[u] = Cardinality(Referrers(u)') + GlobalRef(u)'
    <3>1. Referrers(u)' = Referrers(u)
      BY <2>1 DEF Referrers
    <3>2. refs[u] = Cardinality(Referrers(u)) + GlobalRef(u) /\ GlobalRef(u) = 0
          /\ GlobalRef(u)' = IF u \in S THEN 1 ELSE 0
      BY <1>1, <2>1 DEF Counts, RefsAreReferrers, GlobalRef
    <3>3. Cardinality(Referrers(u)) \in Int
      BY TilesAreFinite
    <3>4. refs'[u] = IF u \in S THEN refs[u] + 1 ELSE refs[u]
      BY <2>1
    <3> HIDE <2>1
    <3> QED
      BY <3>1, <3>2, <3>3, <3>4
  <2> QED
    BY <2>2, <2>3 DEF RefsAreReferrers
<1>2. CASE UNCHANGED <<placeVars, globalWmo>>
  <2>1. UNCHANGED <<refs, listed, up, globalWmo, mapDir>>
    BY <1>2 DEF WatchWdt, placeVars, tileVars
  <2> QED
    BY <2>1 DEF Counts, Listing, RefsAreReferrers, Referrers, GlobalRef
<1> QED
  BY <1>1, <1>2 DEF WatchWdt

\* What the three invariants about the stream rest on.
LEMMA CountsStep == Phased /\ Counts /\ [Next]_vars => Counts'
<1> SUFFICES ASSUME Phased, Counts, [Next]_vars PROVE Listing' /\ RefsAreReferrers'
  BY MapsStep DEF Counts
<1>1. CASE UNCHANGED placing
  BY <1>1 DEF placing, Counts, Listing, RefsAreReferrers, Referrers, GlobalRef
<1>2. CASE SwapMap
  BY <1>2, CountsDropped DEF SwapMap
<1>3. CASE ReleaseWorld
  <2>1. CASE UNCHANGED <<mapVars, placeVars, tileVars>>
    <3>1. UNCHANGED placing
      BY <2>1 DEF placing, mapVars, placeVars, tileVars
    <3> QED
      BY <1>1, <3>1
  <2> QED
    BY <1>3, <2>1, CountsDropped DEF ReleaseWorld
<1>4. CASE WatchWdt
  BY <1>4, CountsGlobal
<1>5. ASSUME NEW t \in Tile, Unload(t) PROVE Listing' /\ RefsAreReferrers'
  BY <1>5, CountsUnloaded
<1>6. ASSUME NEW t \in Tile, SpawnTile(t) PROVE Listing' /\ RefsAreReferrers'
  <2>1. mapDir \in Maps
    BY <1>6 DEF SpawnTile, Phased
  <2> QED
    BY <1>6, <2>1, CountsSpawned
<1> QED
  BY <1>1, <1>2, <1>3, <1>4, <1>5, <1>6, Sorted

LEMMA Started == Init => Phased /\ Counts
<1> SUFFICES ASSUME Init PROVE Phased /\ Counts
  OBVIOUS
<1>1. /\ phase = "input" /\ live = FALSE /\ mapDir = NoMap /\ globalWmo = FALSE
      /\ focus \in [map : Maps, chunk : Chunk, paced : {FALSE}, holds : {FALSE}] /\ curMap = focus.map
      /\ up = {} /\ listed = [t \in Tile |-> {}] /\ refs = [u \in Uid |-> 0]
  BY DEF Init, StreamInit
<1>2. Phased /\ MapsNamed
  BY <1>1 DEF Phased, Phases, MapsNamed
<1>3. Listing
  <2>1. refs \in [Uid -> Int] /\ listed \in [Tile -> SUBSET Uid]
    BY <1>1
  <2>2. \A t \in Tile : listed[t] = {}
    BY <1>1
  <2> QED
    BY <1>1, <2>1, <2>2 DEF Listing
<1>4. ASSUME NEW u \in Uid PROVE refs[u] = Cardinality(Referrers(u)) + GlobalRef(u)
  <2>1. Referrers(u) = {} /\ GlobalRef(u) = 0 /\ refs[u] = 0
    BY <1>1 DEF Referrers, GlobalRef
  <2> QED
    BY <2>1, FS_EmptySet
<1> QED
  BY <1>2, <1>3, <1>4 DEF Counts, RefsAreReferrers

LEMMA CountsHold == Spec => [](Phased /\ Counts)
<1>1. Phased /\ Counts /\ [Next]_vars => (Phased /\ Counts)'
  BY PhasedStep, CountsStep DEF Counts
<1> QED
  BY <1>1, Started, PTL DEF Spec

\* A placement is counted by the tiles that list it and the map's claim on its one
\* building, through every load, unload, map swap and leave: nothing is freed under a
\* tile that shows it or kept past the last (terrain_stream.rs, register_* and
\* release_placement).
THEOREM RefsAreReferrersHolds == Spec => []RefsAreReferrers
<1>1. Counts => RefsAreReferrers
  BY DEF Counts
<1> QED
  BY <1>1, CountsHold, PTL

-----------------------------------------------------------------------------
(* The owners of the doodads.                                               *)

Owned == owner \in [Uid -> Int] /\ OwnersShowTheirs

\* No map claims a doodad: its count is its referrers.
LEMMA DoodadCount ==
    ASSUME Counts, mapDir \in Maps, NEW u \in Doodads
    PROVE  u \in Uid /\ refs[u] = Cardinality(Referrers(u)) /\ GlobalRef(u) = 0
<1>1. u \in Uid /\ u \notin Buildings /\ u \notin GlobalOf[mapDir]
  BY ContentAssumption DEF Uid
<1>2. GlobalRef(u) = 0 /\ refs[u] = Cardinality(Referrers(u)) + GlobalRef(u)
  BY <1>1 DEF GlobalRef, Counts, RefsAreReferrers
<1> QED
  BY <1>1, <1>2, TilesAreFinite

\* The heir is another tile that lists the doodad.
LEMMA HeirLists ==
    ASSUME NEW u, NEW c, Referrers(u) \ {c} # {}
    PROVE  NewOwner(u, c) \in Referrers(u) \ {c}
<1> DEFINE R == Referrers(u) \ {c}
<1>1. (CHOOSE t \in R : TRUE) \in R
  OBVIOUS
<1> QED
  BY <1>1 DEF NewOwner

LEMMA OwnedUnloaded ==
    ASSUME Phased, Counts, Owned, NEW c \in Tile, Unload(c)
    PROVE  OwnersShowTheirs'
<1> DEFINE freed == {u \in listed[c] : refs[u] = 1}
<1>1. /\ up' = up \ {c} /\ listed' = [listed EXCEPT ![c] = {}]
      /\ refs' = [u \in Uid |-> IF u \in listed[c] THEN refs[u] - 1 ELSE refs[u]]
      /\ owner' = [u \in Uid |-> IF u \in Straddlers(c, freed) THEN NewOwner(u, c) ELSE owner[u]]
      /\ mapDir \in Maps
  BY DEF Unload, DropTile, Request, mapVars, Phased
<1>2. listed \in [Tile -> SUBSET Uid] /\ up \subseteq Tile /\ refs \in [Uid -> Int]
      /\ \A t \in Tile \ up : listed[t] = {}
  BY DEF Counts, Listing
<1>3. SUFFICES ASSUME NEW u \in Doodads, u \in Uid, refs'[u] > 0
               PROVE  owner'[u] \in up' /\ u \in listed'[owner'[u]]
  BY DEF OwnersShowTheirs, Registered, Uid
<1>4. u \in Registered /\ owner[u] \in up /\ u \in listed[owner[u]]
  <2>1. refs[u] > 0
    BY <1>1, <1>2, <1>3
  <2> QED
    BY <1>3, <2>1 DEF Registered, Owned, OwnersShowTheirs
<1>5. CASE u \in Straddlers(c, freed)
  <2>1. NewOwner(u, c) \in Referrers(u) \ {c}
    BY <1>5, HeirLists DEF Straddlers
  <2>2. NewOwner(u, c) \in Tile /\ u \in listed[NewOwner(u, c)] /\ NewOwner(u, c) # c
    BY <2>1 DEF Referrers
  <2>3. NewOwner(u, c) \in up
    BY <1>2, <2>2
  <2>4. owner'[u] = NewOwner(u, c)
    BY <1>1, <1>3, <1>5
  <2> QED
    BY <1>1, <1>2, <2>2, <2>3, <2>4
<1>6. CASE u \notin Straddlers(c, freed)
  <2>1. owner'[u] = owner[u]
    BY <1>1, <1>3, <1>6
  <2>2. owner[u] # c
    <3> SUFFICES ASSUME owner[u] = c PROVE FALSE
      OBVIOUS
    <3>1. u \in listed[c] /\ refs[u] # 1
      BY <1>1, <1>2, <1>3, <1>4
    <3>2. Referrers(u) \ {c} = {}
      BY <1>6, <3>1 DEF Straddlers
    <3>3. Referrers(u) = {c}
      BY <1>4, <3>1, <3>2 DEF Referrers
    <3>4. refs[u] = 1
      BY <1>1, <3>3, DoodadCount, FS_Singleton
    <3> QED
      BY <3>1, <3>4
  <2> QED
    BY <1>1, <1>2, <1>4, <2>1, <2>2
<1> QED
  BY <1>5, <1>6

LEMMA OwnedStep == Phased /\ Counts /\ Owned /\ [Next]_vars => Owned'
<1> SUFFICES ASSUME Phased, Counts, Owned, [Next]_vars PROVE Owned'
  OBVIOUS
<1>1. CASE UNCHANGED placing
  BY <1>1 DEF placing, Owned, OwnersShowTheirs, Registered
<1>2. ASSUME DropStreamedWorld PROVE Owned'
  <2>1. Registered' = {} /\ owner' = owner
    BY <1>2, CountsDropped DEF DropStreamedWorld
  <2> QED
    BY <2>1 DEF Owned, OwnersShowTheirs
<1>3. CASE SwapMap
  BY <1>2, <1>3 DEF SwapMap
<1>4. CASE ReleaseWorld
  <2>1. CASE UNCHANGED <<mapVars, placeVars, tileVars>>
    <3>1. UNCHANGED placing
      BY <2>1 DEF placing, mapVars, placeVars, tileVars
    <3> QED
      BY <1>1, <3>1
  <2> QED
    BY <1>2, <1>4, <2>1 DEF ReleaseWorld
<1>5. CASE WatchWdt
  <2>1. UNCHANGED <<listed, up>>
    BY <1>5 DEF WatchWdt, tileVars
  <2>2. CASE Register(GlobalOf[mapDir], 0) /\ mapDir \in Maps
    <3>1. GlobalOf[mapDir] \in SUBSET Buildings /\ \A u \in Doodads : u \notin Buildings
      BY <2>2, ContentAssumption
    <3>2. /\ owner' \in [Uid -> Int]
          /\ \A u \in Doodads : u \in Uid /\ refs'[u] = refs[u] /\ owner'[u] = owner[u]
      BY <2>2, <3>1 DEF Register, Uid, Owned
    <3> QED
      BY <2>1, <3>2 DEF Owned, OwnersShowTheirs, Registered
  <2>3. CASE UNCHANGED placeVars
    BY <2>1, <2>3 DEF placeVars, Owned, OwnersShowTheirs, Registered
  <2> QED
    BY <1>5, <2>2, <2>3 DEF WatchWdt, Counts, MapsNamed
<1>6. ASSUME NEW c \in Tile, Unload(c) PROVE Owned'
  <2>1. owner' \in [Uid -> Int]
    <3> DEFINE freed == {u \in listed[c] : refs[u] = 1}
    <3>1. owner' = [u \in Uid |-> IF u \in Straddlers(c, freed) THEN NewOwner(u, c) ELSE owner[u]]
      BY <1>6 DEF Unload, DropTile
    <3>2. \A u \in Straddlers(c, freed) : NewOwner(u, c) \in Int
      BY HeirLists, StripAssumption DEF Straddlers, Referrers, Tile
    <3> HIDE DEF freed
    <3> QED
      BY <3>1, <3>2 DEF Owned
  <2> QED
    BY <1>6, <2>1, OwnedUnloaded DEF Owned
<1>7. ASSUME NEW t \in Tile, SpawnTile(t) PROVE Owned'
  <2> DEFINE S == Lists[mapDir][t]
  <2>1. /\ up' = up \cup {t} /\ listed' = [listed EXCEPT ![t] = S]
        /\ refs' = [u \in Uid |-> IF u \in S THEN refs[u] + 1 ELSE refs[u]]
        /\ owner' = [u \in Uid |-> IF u \in S \ Registered THEN t ELSE owner[u]]
    BY <1>7 DEF SpawnTile, Register
  <2>2. t \notin up /\ t \in Int
    BY <1>7, StripAssumption DEF SpawnTile, Landed, Nearest, Tile
  <2> HIDE DEF S
  <2>3. owner' \in [Uid -> Int]
    BY <2>1, <2>2 DEF Owned
  <2>4. ASSUME NEW u \in Doodads, u \in Uid, refs'[u] > 0
        PROVE  owner'[u] \in up' /\ u \in listed'[owner'[u]]
    <3>1. CASE u \in S \ Registered
      <4>1. owner'[u] = t
        BY <2>1, <2>4, <3>1
      <4> QED
        BY <2>1, <3>1, <4>1 DEF Counts, Listing
    <3>2. CASE u \in Registered
      <4>1. owner'[u] = owner[u] /\ owner[u] \in up /\ u \in listed[owner[u]]
        BY <2>1, <2>4, <3>2 DEF Owned, OwnersShowTheirs
      <4> QED
        BY <2>1, <2>2, <4>1 DEF Counts, Listing
    <3>3. CASE u \notin S /\ u \notin Registered
      BY <2>1, <2>4, <3>3 DEF Registered
    <3> QED
      BY <3>1, <3>2, <3>3
  <2> QED
    BY <2>3, <2>4 DEF Owned, OwnersShowTheirs, Registered, Uid
<1> QED
  BY <1>1, <1>3, <1>4, <1>5, <1>6, <1>7, Sorted

LEMMA OwnedStarts == Init => Owned
<1> SUFFICES ASSUME Init PROVE Owned
  OBVIOUS
<1>1. owner = [u \in Uid |-> 0] /\ refs = [u \in Uid |-> 0]
  BY DEF Init, StreamInit
<1>2. owner \in [Uid -> Int] /\ Registered = {}
  BY <1>1 DEF Registered
<1> QED
  BY <1>2 DEF Owned, OwnersShowTheirs

\* A doodad that stands is in the keeping of a spawned tile that lists it, whichever
\* tiles unload and in whatever order (handoff_straddlers always finds an heir).
THEOREM OwnersShowTheirsHolds == Spec => []OwnersShowTheirs
<1>1. Owned => OwnersShowTheirs
  BY DEF Owned
<1> QED
  BY <1>1, OwnedStarts, OwnedStep, CountsHold, PTL DEF Spec

-----------------------------------------------------------------------------
(* The ground.                                                              *)

\* What a step is for the stream.
LEMMA StreamSteps ==
    ASSUME [Next]_vars
    PROVE  \/ UNCHANGED stream
           \/ Chain \/ Elsewhere \/ ReleaseWorld \/ EndFrame \/ OpenWorld \/ CloseWorld
           \/ \E f, marked : Follow(f, marked)
<1>1. ASSUME Frame PROVE Chain \/ ReleaseWorld \/ EndFrame \/ \E f, marked : Follow(f, marked)
  BY <1>1 DEF Frame, PublishViewFocus, ReleaseHold
<1>2. ASSUME UNCHANGED streamVars PROVE UNCHANGED stream
  BY <1>2 DEF streamVars, frameVars, stream
<1>3. ASSUME NEW m, NEW s, Enter(m, s) \/ Worldport(m, s) \/ WorldportRiding(m, s)
      PROVE  OpenWorld \/ UNCHANGED stream
  BY <1>2, <1>3 DEF Enter, Worldport, WorldportRiding
<1>4. ASSUME \/ LoginVerified \/ Seize \/ EndSession \/ LeaveWorld
             \/ EndCinematic \/ AbandonCinematic \/ \E c : Teleport(c) \/ OpenShot(c) \/ Glide(c)
      PROVE  CloseWorld \/ UNCHANGED stream
  BY <1>2, <1>4 DEF LoginVerified, Seize, EndSession, LeaveWorld, Teleport,
                   EndCinematic, AbandonCinematic, OpenShot, Glide
<1> QED
  BY <1>1, <1>2, <1>3, <1>4 DEF Next, vars

\* A tile that is up was read, and one that is whole is up.
Reads ==
  /\ read \in [Tile -> {"none", "loading", "ok", "failed"}]
  /\ up \subseteq Tile /\ furnished \subseteq up
  /\ \A t \in up : read[t] = "ok"

tiles == <<read, up, furnished>>

LEMMA AnswerIsOne == \A t : AdtAnswer(t) \in {"ok", "failed"}
  BY DEF AdtAnswer

LEMMA ReadsKept == Reads /\ UNCHANGED tiles => Reads'
  BY DEF Reads, tiles

\* A request loads no tile that is up, but for the one it unloads.
LEMMA ReadsRequested ==
    ASSUME Reads, NEW drop \in SUBSET Tile, Request(drop), up' = up \ drop, furnished' = furnished \ drop
    PROVE  Reads'
<1>1. PICK ask \in Requests(Loaded \ drop) :
        read' = [t \in Tile |-> IF t \in ask THEN "loading" ELSE IF t \in drop THEN "none" ELSE read[t]]
  BY DEF Request
<1>2. \A t \in ask : t \notin Loaded \ drop
  BY DEF Requests, Nearest
<1>3. \A t \in up \ drop : t \in Loaded \ drop
  BY DEF Reads, Loaded
<1>4. read' \in [Tile -> {"none", "loading", "ok", "failed"}]
  BY <1>1 DEF Reads
<1>5. ASSUME NEW t \in up' PROVE read'[t] = "ok"
  BY <1>1, <1>2, <1>3, <1>5 DEF Reads
<1> QED
  BY <1>4, <1>5 DEF Reads

LEMMA ReadsStep == Reads /\ [Next]_vars => Reads'
<1> SUFFICES ASSUME Reads, [Next]_vars PROVE Reads'
  OBVIOUS
<1>1. ASSUME DropStreamedWorld PROVE Reads'
  BY <1>1 DEF DropStreamedWorld, Reads
<1>2. CASE Chain
  <2>1. CASE SwapMap
    BY <1>1, <2>1 DEF SwapMap
  <2>2. CASE StreamOn
    <3>1. Request({}) /\ up' = up \ {} /\ furnished' = furnished \ {} /\ {} \in SUBSET Tile
      BY <2>2 DEF StreamOn
    <3> QED
      BY <3>1, ReadsRequested
  <2>3. ASSUME NEW c \in Tile, Unload(c) PROVE Reads'
    <3>1. Request({c}) /\ up' = up \ {c} /\ furnished' = furnished \ {c} /\ {c} \in SUBSET Tile
      BY <2>3 DEF Unload, DropTile
    <3> QED
      BY <3>1, ReadsRequested
  <2>4. ASSUME NEW t \in Tile, SpawnTile(t) PROVE Reads'
    <3>1. read' = read /\ furnished' = furnished /\ up' = up \cup {t} /\ read[t] = "ok"
      BY <2>4 DEF SpawnTile, Landed, Nearest
    <3> QED
      BY <3>1 DEF Reads
  <2>5. CASE AwaitReadsAndAttach
    <3>1. PICK late \in SUBSET InnerReads :
            read' = [t \in Tile |-> IF t \in InnerReads \ late THEN AdtAnswer(t) ELSE read[t]]
      BY <2>5 DEF AwaitReadsAndAttach
    <3>2. up' = up /\ furnished' = furnished
      BY <2>5 DEF AwaitReadsAndAttach
    <3>3. \A t \in InnerReads : read[t] = "loading"
      BY DEF InnerReads
    <3>4. read' \in [Tile -> {"none", "loading", "ok", "failed"}]
      BY <3>1, AnswerIsOne DEF Reads
    <3>5. \A t \in up : read'[t] = "ok"
      BY <3>1, <3>3 DEF Reads
    <3> QED
      BY <3>2, <3>4, <3>5 DEF Reads
  <2>6. CASE FurnishCells
    <3>1. PICK more : /\ furnished' = furnished \cup (Bare \cap inner) \cup more
                      /\ more \subseteq Bare
      <4>1. PICK more \in IF ~focus.paced THEN {Bare} ELSE {{}} \cup {{t} : t \in Nearest(Bare \ inner, window)} :
              furnished' = furnished \cup (Bare \cap inner) \cup more
        BY <2>6 DEF FurnishCells
      <4>2. more \subseteq Bare
        BY <4>1 DEF Nearest
      <4> QED
        BY <4>1, <4>2
    <3>2. read' = read /\ up' = up
      BY <2>6 DEF FurnishCells
    <3> QED
      BY <3>1, <3>2 DEF Reads, Bare
  <2>7. ASSUME \/ WatchWdt \/ SkipFrame \/ PublishProgress \/ RetireFailed \/ EndSpawns \/ FlushHullWelds
               \/ PublishTerrainResidency \/ \E u \in Uid : SpawnDoodad(u) \/ SpawnBuilding(u)
               \/ \E b \in Buildings, p \in Prop : SpawnProp(b, p)
        PROVE  UNCHANGED tiles
    BY <2>7 DEF WatchWdt, SkipFrame, PublishProgress, RetireFailed, EndSpawns, FlushHullWelds,
                PublishTerrainResidency, SpawnDoodad, SpawnBuilding, SpawnProp, tileVars, tiles
  <2> QED
    BY <1>2, <2>1, <2>2, <2>3, <2>4, <2>5, <2>6, <2>7, ReadsKept DEF Chain
<1>3. CASE Elsewhere
  <2>1. ASSUME NEW t \in Tile, ReadTile(t) PROVE Reads'
    <3>1. read[t] = "loading" /\ read' = [read EXCEPT ![t] = AdtAnswer(t)] /\ up' = up /\ furnished' = furnished
      BY <2>1 DEF ReadTile
    <3> QED
      BY <3>1, AnswerIsOne DEF Reads
  <2>2. ASSUME ReadWdt \/ \E x \in Uid \cup Prop : ReadModel(x) \/ FreeModel(x) PROVE UNCHANGED tiles
    BY <2>2 DEF ReadWdt, ReadModel, FreeModel, tileVars, tiles
  <2> QED
    BY <1>3, <2>1, <2>2, ReadsKept DEF Elsewhere
<1>4. CASE ReleaseWorld
  <2>1. CASE UNCHANGED tileVars
    BY <2>1, ReadsKept DEF tileVars, tiles
  <2> QED
    BY <1>1, <1>4, <2>1 DEF ReleaseWorld
<1>5. ASSUME \/ UNCHANGED stream \/ EndFrame \/ OpenWorld \/ CloseWorld \/ \E f, marked : Follow(f, marked)
      PROVE  UNCHANGED tiles
  BY <1>5 DEF EndFrame, OpenWorld, CloseWorld, Follow, stream, tileVars, tiles
<1> QED
  BY <1>2, <1>3, <1>4, <1>5, ReadsKept, StreamSteps

\* What the mover may stand on between a frame's residency and the next frame.
Standing(t) == (t \in up /\ TileCollider(t) \notin colliders) \/ read[t] = "failed"

Resident ==
  phase = "present" \/ (phase = "input" /\ live /\ mapDir # NoMap) =>
    \A t \in residency : t \in Tile /\ Standing(t)

ground == <<up, read, colliders, residency>>

LEMMA ResidentStep == Reads /\ Phased /\ Resident /\ [Next]_vars => Resident'
<1> SUFFICES ASSUME Reads, Phased, Resident, [Next]_vars PROVE Resident'
  OBVIOUS
<1>1. ASSUME UNCHANGED ground, UNCHANGED <<phase, live, mapDir>> PROVE Resident'
  BY <1>1 DEF Resident, Standing, ground
<1>2. CASE Chain
  <2>1. CASE PublishTerrainResidency
    <3>1. residency' = SolidTiles /\ UNCHANGED <<up, read, colliders>>
      BY <2>1 DEF PublishTerrainResidency, tileVars
    <3> QED
      BY <3>1 DEF SolidTiles, Loaded, Resident, Standing
  <2>2. ASSUME ~PublishTerrainResidency PROVE phase' \notin {"present", "input"}
    <3>1. CASE SwapMap \/ WatchWdt \/ SkipFrame \/ StreamOn \/ AwaitReadsAndAttach \/ PublishProgress
                 \/ FurnishCells \/ RetireFailed \/ EndSpawns \/ FlushHullWelds
      BY <3>1 DEF SwapMap, WatchWdt, SkipFrame, StreamOn, Request, AwaitReadsAndAttach, PublishProgress, FurnishCells,
                  RetireFailed, EndSpawns, FlushHullWelds
    <3>2. CASE \E t \in Tile : Unload(t) \/ SpawnTile(t)
      BY <3>2 DEF Unload, Request, SpawnTile, frameVars
    <3>3. CASE \/ \E u \in Uid : SpawnDoodad(u) \/ SpawnBuilding(u)
               \/ \E b \in Buildings, p \in Prop : SpawnProp(b, p)
      BY <3>3 DEF SpawnDoodad, SpawnBuilding, SpawnProp, frameVars
    <3> QED
      BY <1>2, <2>2, <3>1, <3>2, <3>3 DEF Chain
  <2> QED
    BY <2>1, <2>2 DEF Resident
<1>3. CASE Elsewhere
  <2>1. ASSUME NEW t \in Tile, ReadTile(t) PROVE Resident'
    <3>1. /\ read[t] = "loading" /\ read' = [read EXCEPT ![t] = AdtAnswer(t)]
          /\ UNCHANGED <<up, colliders, residency, phase, live, mapDir>>
      BY <2>1 DEF ReadTile, loadVars, frameVars, mapVars
    <3> QED
      BY <3>1 DEF Resident, Standing, Reads
  <2>2. CASE ReadWdt \/ \E x \in Uid \cup Prop : ReadModel(x) \/ FreeModel(x)
    <3>1. UNCHANGED ground /\ UNCHANGED <<phase, live, mapDir>>
      BY <2>2 DEF ReadWdt, ReadModel, FreeModel, tileVars, loadVars, frameVars, mapVars, ground
    <3> QED
      BY <1>1, <3>1
  <2> QED
    BY <1>3, <2>1, <2>2 DEF Elsewhere
<1>4. CASE ReleaseWorld
  <2>1. phase' = "input" /\ mapDir' = NoMap
    BY <1>4 DEF ReleaseWorld, mapVars
  <2> QED
    BY <2>1 DEF Resident
<1>5. CASE EndFrame
  <2>1. phase = "present" /\ UNCHANGED ground
    BY <1>5 DEF EndFrame, tileVars, loadVars, ground
  <2> QED
    BY <2>1 DEF Resident, Standing, ground
<1>6. CASE OpenWorld
  <2>1. phase' = "input" /\ mapDir' = NoMap
    BY <1>6 DEF OpenWorld, mapVars, Phased
  <2> QED
    BY <2>1 DEF Resident
<1>7. CASE CloseWorld \/ \E f, marked : Follow(f, marked)
  BY <1>7 DEF CloseWorld, Follow, Resident
<1>8. CASE UNCHANGED stream
  <2>1. UNCHANGED ground /\ UNCHANGED <<phase, live, mapDir>>
    BY <1>8 DEF stream, tileVars, loadVars, mapVars, ground
  <2> QED
    BY <1>1, <2>1
<1> QED
  BY <1>2, <1>3, <1>4, <1>5, <1>6, <1>7, <1>8, StreamSteps

LEMMA GroundStarts == Init => Reads /\ Resident
<1> SUFFICES ASSUME Init PROVE Reads /\ Resident
  OBVIOUS
<1>1. read = [t \in Tile |-> "none"] /\ up = {} /\ furnished = {} /\ residency = {}
  BY DEF Init, StreamInit
<1> QED
  BY <1>1 DEF Reads, Resident

\* A tile the world query may gather next frame is solid: up with its collider attached,
\* or failed for good (residency.rs, publish_terrain_residency).
THEOREM ResidentIsSolidHolds == Spec => []ResidentIsSolid
<1>1. Resident => ResidentIsSolid
  BY DEF Resident, ResidentIsSolid, Standing
<1> QED
  BY <1>1, GroundStarts, ReadsStep, ResidentStep, CountsHold, PTL DEF Spec

-----------------------------------------------------------------------------
(* The ground held for a body.                                              *)

\* Wherever the window is centred, it spans tiles of the strip.
LEMMA SpansAreTiles == \A c : InnerTiles(c) \subseteq Tile /\ WantedTiles(c) \subseteq Tile
<1> SUFFICES ASSUME NEW c PROVE InnerTiles(c) \subseteq Tile /\ WantedTiles(c) \subseteq Tile
  OBVIOUS
<1>1. LastTile \in Nat /\ ChunksPerTile \in Nat \ {0}
  BY StripAssumption
<1>2. (LastTile + 1) * ChunksPerTile \in Nat /\ (LastTile + 1) * ChunksPerTile >= 1
  BY <1>1
<1>3. ASSUME NEW d PROVE Clamp(d) \in Nat /\ Clamp(d) < (LastTile + 1) * ChunksPerTile
  <2>1. CASE d \in Chunk /\ ~(d < 0)
    BY <1>2, <2>1 DEF Clamp, Chunk
  <2>2. CASE d \notin Chunk \/ d < 0
    BY <1>2, <2>2 DEF Clamp
  <2> QED
    BY <2>1, <2>2
<1>4. ASSUME NEW x \in Nat, x < (LastTile + 1) * ChunksPerTile PROVE TileOf(x) \in Tile
  <2>1. x \div ChunksPerTile \in Nat /\ ChunksPerTile * (x \div ChunksPerTile) <= x
    BY <1>1
  <2>2. ~(x \div ChunksPerTile >= LastTile + 1)
    <3>1. ASSUME NEW q \in Nat, q >= LastTile + 1 PROVE ChunksPerTile * q >= (LastTile + 1) * ChunksPerTile
      BY <1>1, <3>1
    <3> QED
      BY <1>1, <1>2, <1>4, <2>1, <3>1
  <2> QED
    BY <1>1, <2>1, <2>2 DEF TileOf, Tile
<1> QED
  BY <1>1, <1>3, <1>4 DEF InnerTiles, WantedTiles, TileSpan, Tile

\* A plan stands from the window to the load's facts; a frame without one skipped
\* over a finished world, whose held tiles are whole.
Planned ==
  /\ phase \notin {"await", "spawn"} => plan = {}
  /\ "complete" \in DOMAIN progress
  /\ inner \subseteq Tile
  /\ plan = {} /\ settled /\ progress.complete => inner \subseteq furnished
  /\ phase \in {"await", "spawn"} /\ plan = {} => inner \subseteq furnished
  /\ phase \in {"await", "spawn"} /\ plan # {} /\ WdtAnswered => inner \subseteq Loaded

\* What a frame has done for a held tile when it comes to each of its systems.
HeldSoFar(t) ==
  /\ phase = "spawn" => t \in gaveUp \/ read[t] \in {"ok", "failed"}
  /\ phase = "furnish" => t \in gaveUp \/ t \in up \/ read[t] = "failed"
  /\ phase \in {"retire", "place", "weld", "publish"} => t \in gaveUp \/ Standing(t)
  /\ phase = "present" => t \in gaveUp \/ t \in residency

Held == WdtAnswered => \A t \in inner : HeldSoFar(t)

planned == <<plan, progress, inner, settled, furnished, read, wdt>>
held == <<inner, gaveUp, read, up, colliders, residency, wdt>>

LEMMA PlannedKept ==
    ASSUME Planned, UNCHANGED planned,
           phase' = phase \/ {phase, phase'} \cap {"await", "spawn"} = {}
    PROVE  Planned'
BY DEF Planned, planned, Loaded, WdtAnswered

LEMMA HeldKept ==
    ASSUME Held, UNCHANGED held, phase' = phase
    PROVE  Held'
BY DEF Held, HeldSoFar, Standing, held, WdtAnswered

\* The steps between the frames' stream stages.
LEMMA HeldElsewhere ==
    ASSUME Reads, Phased, Planned, Held,
           \/ Elsewhere \/ EndFrame \/ OpenWorld \/ CloseWorld \/ UNCHANGED stream
           \/ \E f, marked : Follow(f, marked)
    PROVE  Planned' /\ Held'
<1>1. CASE \E t \in Tile : ReadTile(t)
  <2>1. PICK t \in Tile : ReadTile(t)
    BY <1>1
  <2>2. phase = "input" /\ phase' = "input" /\ UNCHANGED <<plan, progress, inner, settled, furnished>>
    BY <2>1 DEF ReadTile, frameVars, planVars, loadVars
  <2> QED
    BY <2>2 DEF Planned, Held, HeldSoFar
<1>2. CASE ReadWdt
  <2>1. phase = "input" /\ phase' = "input" /\ UNCHANGED <<plan, progress, inner, settled, furnished>>
    BY <1>2 DEF ReadWdt, frameVars, planVars, tileVars, loadVars
  <2> QED
    BY <2>1 DEF Planned, Held, HeldSoFar
<1>3. CASE \E x \in Uid \cup Prop : ReadModel(x) \/ FreeModel(x)
  <2>1. UNCHANGED planned /\ UNCHANGED held /\ phase' = phase
    BY <1>3 DEF ReadModel, FreeModel, frameVars, mapVars, planVars, tileVars, planned, held
  <2> QED
    BY <2>1, PlannedKept, HeldKept
<1>4. CASE EndFrame \/ OpenWorld \/ CloseWorld \/ \E f, marked : Follow(f, marked)
  <2>1. UNCHANGED planned
    BY <1>4 DEF EndFrame, OpenWorld, CloseWorld, Follow, mapVars, planVars, tileVars, loadVars, planned
  <2>2. phase \in {"present", "input"} /\ phase' \in {"input", "release", "stream"}
    BY <1>4 DEF EndFrame, OpenWorld, CloseWorld, Follow
  <2>3. Planned'
    BY <2>1, <2>2, PlannedKept
  <2> QED
    BY <2>2, <2>3 DEF Held, HeldSoFar
<1>5. CASE UNCHANGED stream
  <2>1. UNCHANGED planned /\ UNCHANGED held /\ phase' = phase
    BY <1>5 DEF stream, mapVars, planVars, tileVars, loadVars, planned, held
  <2> QED
    BY <2>1, PlannedKept, HeldKept
<1> QED
  BY <1>1, <1>2, <1>3, <1>4, <1>5 DEF Elsewhere

\* The window's requests: once the WDT has answered, every held tile is loaded or asked for.
LEMMA HeldRequested ==
    ASSUME NEW drop \in SUBSET Tile, phase = "window", Planned, Request(drop)
    PROVE  Planned' /\ Held'
<1>1. PICK ask \in Requests(Loaded \ drop) :
        read' = [t \in Tile |-> IF t \in ask THEN "loading" ELSE IF t \in drop THEN "none" ELSE read[t]]
  BY DEF Request
<1>2. /\ phase' = "await" /\ plan' # {} /\ inner' = HeldTiles /\ progress' = progress
      /\ WdtAnswered' = WdtAnswered
  BY DEF Request, mapVars, WdtAnswered
<1>3. HeldTiles \subseteq Tile /\ HeldTiles \subseteq DesiredTiles
  BY SpansAreTiles DEF HeldTiles
<1>4. ASSUME WdtAnswered PROVE HeldTiles \ (Loaded \ drop) \subseteq ask
  BY <1>1, <1>3, <1>4 DEF Requests
<1>5. ASSUME WdtAnswered, NEW t \in HeldTiles PROVE read'[t] # "none"
  <2>1. CASE t \in ask
    BY <1>1, <1>3, <2>1
  <2>2. CASE t \in Loaded \ drop
    BY <1>1, <1>3, <2>2 DEF Loaded
  <2> QED
    BY <1>4, <1>5, <2>1, <2>2
<1>6. Planned'
  BY <1>2, <1>3, <1>5 DEF Planned, Loaded
<1>7. Held'
  BY <1>2 DEF Held, HeldSoFar
<1> QED
  BY <1>6, <1>7

\* The wait answers a held tile's read or gives it up.
LEMMA HeldAwaited ==
    ASSUME Reads, Planned, Held, AwaitReadsAndAttach
    PROVE  Planned' /\ Held'
<1>1. /\ phase = "await" /\ phase' = "spawn"
      /\ UNCHANGED <<plan, inner, settled, furnished, up, wdt>>
  BY DEF AwaitReadsAndAttach, mapVars, planVars
<1>2. PICK late \in SUBSET InnerReads :
        /\ read' = [t \in Tile |-> IF t \in InnerReads \ late THEN AdtAnswer(t) ELSE read[t]]
        /\ gaveUp' = gaveUp \cup late
  BY DEF AwaitReadsAndAttach
<1>3. "complete" \in DOMAIN progress' /\ progress'.complete = progress.complete
  BY DEF AwaitReadsAndAttach, Planned
<1>4. ASSUME NEW t \in Tile, read[t] # "none" PROVE read'[t] # "none"
  BY <1>2, <1>4, AnswerIsOne
<1>5. Planned'
  BY <1>1, <1>3, <1>4 DEF Planned, Loaded, WdtAnswered
<1>6. ASSUME WdtAnswered, NEW t \in inner PROVE t \in gaveUp' \/ read'[t] \in {"ok", "failed"}
  <2>1. CASE plan = {}
    <3>1. t \in up /\ read[t] = "ok"
      BY <1>1, <2>1 DEF Planned, Reads
    <3> QED
      BY <1>2, <3>1, AnswerIsOne DEF Planned
  <2>2. CASE plan # {}
    <3>1. t \in Tile /\ read[t] \in {"loading", "ok", "failed"}
      BY <1>1, <1>6, <2>2 DEF Planned, Loaded, Reads
    <3>2. read[t] = "loading" => t \in InnerReads \/ t \in gaveUp
      BY <2>2 DEF InnerReads
    <3> QED
      BY <1>2, <3>1, <3>2, AnswerIsOne
  <2> QED
    BY <2>1, <2>2
<1>7. Held'
  BY <1>1, <1>6 DEF Held, HeldSoFar, WdtAnswered
<1> QED
  BY <1>5, <1>7

\* The load's facts go out with every held tile spawned, and a finished world is whole.
LEMMA HeldPublished ==
    ASSUME Reads, Planned, Held, PublishProgress
    PROVE  Planned' /\ Held'
<1>1. /\ phase = "spawn" /\ phase' = "furnish" /\ plan' = {}
      /\ UNCHANGED <<inner, furnished, read, up, gaveUp, wdt>>
  BY DEF PublishProgress, mapVars, tileVars
<1>2. "complete" \in DOMAIN progress' /\ (settled' /\ progress'.complete => inner \subseteq furnished)
  <2>1. CASE plan = {}
    BY <1>1, <2>1 DEF PublishProgress, Planned
  <2>2. CASE plan # {}
    <3>1. PICK p \in plan : /\ settled' = (p.quiet /\ Loaded \subseteq furnished)
                            /\ progress' = Published(p.desired)
      BY <2>2 DEF PublishProgress
    <3>2. "complete" \in DOMAIN progress'
      BY <3>1 DEF Published, Planned
    <3>3. progress'.complete => FocusResident(p.desired)
      BY <3>1 DEF Published, Planned, LoadRearmed, SceneReady
    <3>4. progress'.complete => inner \subseteq Loaded
      BY <1>1, <2>2, <3>3 DEF FocusResident, Planned
    <3> QED
      BY <3>1, <3>2, <3>4
  <2> QED
    BY <2>1, <2>2
<1>3. Planned'
  BY <1>1, <1>2 DEF Planned
<1>4. ASSUME WdtAnswered, NEW t \in inner PROVE t \in gaveUp \/ t \in up \/ read[t] = "failed"
  <2>1. CASE plan = {}
    BY <1>1, <2>1 DEF Planned, Reads
  <2>2. CASE Landed \cap inner = {}
    BY <1>1, <1>4, <2>2 DEF Landed, Loaded, Planned, Held, HeldSoFar
  <2> QED
    BY <2>1, <2>2 DEF PublishProgress
<1>5. Held'
  BY <1>1, <1>4 DEF Held, HeldSoFar, WdtAnswered
<1> QED
  BY <1>3, <1>5

\* The frame's chain.
LEMMA HeldChain ==
    ASSUME Reads, Phased, Planned, Held, Chain
    PROVE  Planned' /\ Held'
<1>1. CASE SwapMap
  <2>1. /\ phase' = "await" /\ plan' # {} /\ wdt' = "loading" /\ progress' = progress
        /\ inner' \subseteq Tile
    BY <1>1, SpansAreTiles DEF SwapMap
  <2> QED
    BY <2>1 DEF Planned, Held, WdtAnswered
<1>2. CASE WatchWdt
  <2>1. UNCHANGED planned /\ phase = "stream" /\ phase' = "window"
    BY <1>2 DEF WatchWdt, planVars, tileVars, loadVars, planned
  <2> QED
    BY <2>1, PlannedKept DEF Held, HeldSoFar
<1>3. CASE SkipFrame
  <2>1. /\ phase = "window" /\ phase' = "await" /\ settled /\ progress.complete
        /\ inner' \subseteq inner /\ UNCHANGED <<plan, progress, settled, furnished>>
    BY <1>3 DEF SkipFrame, Idle, tileVars, loadVars
  <2> QED
    BY <2>1 DEF Planned, Held, HeldSoFar
<1>4. CASE StreamOn
  BY <1>4, HeldRequested DEF StreamOn
<1>5. ASSUME NEW c \in Tile, Unload(c) PROVE Planned' /\ Held'
  BY <1>5, HeldRequested DEF Unload
<1>6. ASSUME NEW t \in Tile, SpawnTile(t) PROVE Planned' /\ Held'
  <2>1. UNCHANGED planned /\ phase = "spawn" /\ phase' = phase /\ UNCHANGED <<inner, gaveUp, read, wdt>>
    BY <1>6 DEF SpawnTile, frameVars, mapVars, planVars, planned
  <2> QED
    BY <2>1, PlannedKept DEF Held, HeldSoFar, WdtAnswered
<1>7. CASE FurnishCells
  <2>1. /\ phase = "furnish" /\ phase' = "retire" /\ colliders' = colliders \ {TileCollider(t) : t \in inner}
        /\ UNCHANGED <<plan, progress, inner, settled, read, wdt, up, gaveUp>>
    BY <1>7 DEF FurnishCells, mapVars, planVars
  <2>2. furnished \subseteq furnished'
    BY <1>7 DEF FurnishCells
  <2>3. Planned'
    BY <2>1, <2>2 DEF Planned
  <2>4. Held'
    BY <2>1 DEF Held, HeldSoFar, Standing, WdtAnswered
  <2> QED
    BY <2>3, <2>4
<1>8. CASE RetireFailed \/ EndSpawns
  <2>1. /\ UNCHANGED planned /\ UNCHANGED held
        /\ phase \in {"retire", "place"} /\ phase' \in {"place", "weld"}
    BY <1>8 DEF RetireFailed, EndSpawns, mapVars, planVars, tileVars, loadVars, planned, held
  <2> QED
    BY <2>1, PlannedKept DEF Held, HeldSoFar, Standing, held, WdtAnswered
<1>9. CASE \/ \E u \in Uid : SpawnDoodad(u)
           \/ \E b \in Buildings, p \in Prop : SpawnProp(b, p)
  <2>1. UNCHANGED planned /\ UNCHANGED held /\ phase' = phase
    BY <1>9 DEF SpawnDoodad, SpawnProp, frameVars, mapVars, planVars, tileVars, loadVars, planned, held
  <2> QED
    BY <2>1, PlannedKept, HeldKept
<1>10. ASSUME NEW u \in Uid, SpawnBuilding(u) PROVE Planned' /\ Held'
  <2>1. /\ UNCHANGED planned /\ UNCHANGED <<inner, gaveUp, up, residency>> /\ phase' = phase
        /\ colliders' = colliders \cup {BuildingCollider(u)}
    BY <1>10 DEF SpawnBuilding, frameVars, mapVars, planVars, tileVars, planned
  <2>2. \A t : TileCollider(t) \in colliders' => TileCollider(t) \in colliders
    BY <2>1 DEF TileCollider, BuildingCollider
  <2>3. Held'
    BY <2>1, <2>2 DEF Held, HeldSoFar, Standing, planned, WdtAnswered
  <2> QED
    BY <2>1, <2>3, PlannedKept
<1>11. CASE FlushHullWelds
  <2>1. /\ UNCHANGED planned /\ UNCHANGED <<inner, gaveUp, up>> /\ phase = "weld" /\ phase' = "publish"
    BY <1>11 DEF FlushHullWelds, mapVars, planVars, tileVars, planned
  <2>2. PICK T, B : colliders' = colliders \cup {WeldCollider(t) : t \in T} \cup {PropsCollider(b) : b \in B}
    BY <1>11 DEF FlushHullWelds
  <2>3. \A t : TileCollider(t) \in colliders' => TileCollider(t) \in colliders
    BY <2>2 DEF TileCollider, WeldCollider, PropsCollider
  <2>4. Held'
    BY <2>1, <2>3 DEF Held, HeldSoFar, Standing, planned, WdtAnswered
  <2> QED
    BY <2>1, <2>4, PlannedKept
<1>12. CASE PublishTerrainResidency
  <2>1. /\ UNCHANGED planned /\ phase = "publish" /\ phase' = "present"
        /\ UNCHANGED <<inner, gaveUp, wdt>> /\ residency' = SolidTiles
    BY <1>12 DEF PublishTerrainResidency, mapVars, planVars, tileVars, planned
  <2>2. ASSUME NEW t \in inner, Standing(t) PROVE t \in SolidTiles
    <3>1. t \in Tile
      BY DEF Planned
    <3> QED
      BY <2>2, <3>1 DEF Standing, SolidTiles, Loaded, Reads
  <2>3. Held'
    BY <2>1, <2>2 DEF Held, HeldSoFar, WdtAnswered
  <2> QED
    BY <2>1, <2>3, PlannedKept
<1>13. CASE AwaitReadsAndAttach \/ PublishProgress
  BY <1>13, HeldAwaited, HeldPublished
<1> QED
  BY <1>1, <1>2, <1>3, <1>4, <1>5, <1>6, <1>7, <1>8, <1>9, <1>10, <1>11, <1>12, <1>13 DEF Chain

LEMMA HeldStep == Reads /\ Phased /\ Planned /\ Held /\ [Next]_vars => Planned' /\ Held'
<1> SUFFICES ASSUME Reads, Phased, Planned, Held, [Next]_vars PROVE Planned' /\ Held'
  OBVIOUS
<1>1. CASE ReleaseWorld
  <2>1. phase = "release" /\ phase' = "input" /\ plan = {}
    BY <1>1 DEF ReleaseWorld, Planned
  <2>2. CASE UNCHANGED <<mapVars, planVars, tileVars, placeVars, hullVars, loadVars>>
    <3>1. UNCHANGED planned
      BY <2>2 DEF mapVars, planVars, tileVars, loadVars, planned
    <3> QED
      BY <2>1, <3>1, PlannedKept DEF Held, HeldSoFar
  <2>3. CASE DropStreamedWorld /\ inner' = {} /\ progress' = NoProgress /\ plan' = plan
    BY <2>1, <2>3 DEF Planned, Held, NoProgress
  <2> QED
    BY <1>1, <2>2, <2>3 DEF ReleaseWorld
<1> QED
  BY <1>1, HeldChain, HeldElsewhere, StreamSteps

\* The ground the streamer holds for a body is there when the next frame's mover runs, or
\* its wait was given up on (terrain_stream.rs, await_inner_tiles; residency.rs).
THEOREM HeldIsSolidHolds == Spec => []HeldIsSolid
<1>1. Init => Planned /\ Held
  BY DEF Init, StreamInit, Planned, Held, WdtAnswered, NoProgress
<1>2. Planned /\ Held => HeldIsSolid
  BY DEF Held, HeldSoFar, HeldIsSolid
<1> QED
  BY <1>1, <1>2, GroundStarts, ReadsStep, HeldStep, CountsHold, PTL DEF Spec

-----------------------------------------------------------------------------
(* The pending work.  What is not registered is not spawned, and only a     *)
(* standing building has props left.                                        *)

Placed ==
  /\ spawned \subseteq Registered
  /\ propsLeft \in [Buildings -> SUBSET Prop]
  /\ \A b \in Buildings : propsLeft[b] # {} => b \in spawned
  /\ pendingSpawns \in Int

Exact == Placed /\ PendingIsExact

counting == <<refs, spawned, propsLeft, pendingSpawns>>

\* The sets counted are finite.
LEMMA WorkIsFinite ==
    /\ IsFiniteSet(Uid) /\ IsFiniteSet(Buildings \X Prop)
    /\ \A S : S \subseteq Uid \/ S \subseteq Buildings \X Prop => IsFiniteSet(S) /\ Cardinality(S) \in Nat
<1>1. IsFiniteSet(Uid)
  BY ContentAssumption, FS_Union DEF Uid
<1>2. IsFiniteSet(Buildings \X Prop)
  BY ContentAssumption, FS_Product
<1>3. ASSUME NEW S, S \subseteq Uid \/ S \subseteq Buildings \X Prop PROVE IsFiniteSet(S) /\ Cardinality(S) \in Nat
  <2>1. IsFiniteSet(S)
    BY <1>1, <1>2, <1>3, FS_Subset
  <2> QED
    BY <2>1, FS_CardinalityType
<1> QED
  BY <1>1, <1>2, <1>3

\* Apart, two sets count for their sum; what goes of a set counts for itself.
LEMMA CountBoth ==
    ASSUME NEW S, NEW T, IsFiniteSet(S), IsFiniteSet(T), S \cap T = {}
    PROVE  Cardinality(S \cup T) = Cardinality(S) + Cardinality(T)
<1>1. Cardinality(S) \in Nat /\ Cardinality(T) \in Nat /\ Cardinality(S \cap T) = 0
  BY FS_CardinalityType, FS_EmptySet
<1>2. Cardinality(S \cup T) = Cardinality(S) + Cardinality(T) - Cardinality(S \cap T)
  BY FS_Union
<1> QED
  BY <1>1, <1>2

LEMMA CountLess ==
    ASSUME NEW S, NEW T, IsFiniteSet(S), T \subseteq S
    PROVE  Cardinality(S \ T) = Cardinality(S) - Cardinality(T)
<1>1. S \cap T = T
  OBVIOUS
<1> QED
  BY <1>1, FS_Difference

LEMMA WorkIn == \A U : Unspawned \subseteq Uid /\ PropWork(U) \subseteq Buildings \X Prop
BY DEF Unspawned, Registered, PropWork

\* A step counts right when its change of the count is that of both sets.
LEMMA CountsRight ==
    ASSUME Exact, NEW n \in Int, NEW m \in Int, Placed', pendingSpawns' = pendingSpawns + n + m,
           Cardinality(Unspawned') = Cardinality(Unspawned) + n,
           Cardinality(PropWork(Registered)') = Cardinality(PropWork(Registered)) + m
    PROVE  Exact'
<1>1. Cardinality(Unspawned) \in Int /\ Cardinality(PropWork(Registered)) \in Int
  BY WorkIsFinite, WorkIn
<1>2. pendingSpawns = Cardinality(Unspawned) + Cardinality(PropWork(Registered))
  BY DEF Exact, PendingIsExact
<1>3. pendingSpawns' = Cardinality(Unspawned') + Cardinality(PropWork(Registered)')
  BY <1>1, <1>2
<1> QED
  BY <1>3 DEF Exact, PendingIsExact

\* Registering: the new ones wait for their models.
LEMMA ExactRegistered ==
    ASSUME Counts, Exact, NEW U \in SUBSET Uid, NEW t, Register(U, t)
    PROVE  Exact'
<1> DEFINE new == U \ Registered
<1>1. /\ refs' = [u \in Uid |-> IF u \in U THEN refs[u] + 1 ELSE refs[u]]
      /\ pendingSpawns' = pendingSpawns + Cardinality(new) /\ UNCHANGED <<spawned, propsLeft>>
  BY DEF Register
<1>2. \A u \in Uid : refs[u] \in Nat
  <2>1. ASSUME NEW u \in Uid PROVE refs[u] \in Nat
    <3>1. refs[u] = Cardinality(Referrers(u)) + GlobalRef(u) /\ GlobalRef(u) \in {0, 1}
      BY DEF Counts, RefsAreReferrers, GlobalRef
    <3> QED
      BY <3>1, TilesAreFinite
  <2> QED
    BY <2>1
<1>3. Registered' = Registered \cup new
  BY <1>1, <1>2 DEF Registered
<1>4. Placed'
  BY <1>1, <1>3, WorkIsFinite DEF Exact, Placed
<1>5. Unspawned' = Unspawned \cup new /\ Unspawned \cap new = {}
  BY <1>1, <1>3 DEF Unspawned, Exact, Placed
<1>6. PropWork(Registered)' = PropWork(Registered)
  <2>1. \A b \in Buildings : propsLeft[b] # {} => b \in Registered
    BY DEF Exact, Placed
  <2> QED
    BY <1>1, <1>3, <2>1 DEF PropWork
<1>7. new \subseteq Uid
  OBVIOUS
<1> HIDE DEF new
<1>8. /\ Cardinality(Unspawned') = Cardinality(Unspawned) + Cardinality(new)
      /\ Cardinality(new) \in Int /\ Cardinality(PropWork(Registered)) \in Int
  BY <1>5, <1>7, CountBoth, WorkIsFinite, WorkIn
<1>9. pendingSpawns' = pendingSpawns + Cardinality(new) + 0
  BY <1>1, <1>8 DEF Exact, Placed
<1>10. Cardinality(PropWork(Registered)') = Cardinality(PropWork(Registered)) + 0
  BY <1>6, <1>8
<1> QED
  BY <1>4, <1>8, <1>9, <1>10, CountsRight

\* Everything goes, and the count with it.
LEMMA ExactDropped ==
    ASSUME Counts, Exact, DropStreamedWorld
    PROVE  Exact'
<1> DEFINE left == [u \in Uid |-> refs[u] - Cardinality(Referrers(u))
                      - (IF globalWmo /\ u \in GlobalOf[mapDir] THEN 1 ELSE 0)]
           freed == {u \in Registered : left[u] = 0}
<1>1. /\ refs' = left /\ spawned' = spawned \ freed
      /\ propsLeft' = [b \in Buildings |-> IF b \in freed THEN {} ELSE propsLeft[b]]
      /\ pendingSpawns' = pendingSpawns - FreedWork(freed)
  BY DEF DropStreamedWorld
<1>2. freed = Registered
  <2>1. ASSUME NEW u \in Uid PROVE left[u] = 0
    <3>1. refs'[u] = 0
      <4>1. u \notin Registered' /\ RefsAreReferrers' /\ Listing'
        BY CountsDropped
      <4>2. refs'[u] = Cardinality(Referrers(u)') + GlobalRef(u)' /\ GlobalRef(u)' \in {0, 1}
        BY <4>1 DEF RefsAreReferrers, GlobalRef
      <4>3. Cardinality(Referrers(u)') \in Nat
        <5>1. IsFiniteSet(Tile)
          BY StripAssumption, FS_Interval DEF Tile
        <5>2. Referrers(u)' \in SUBSET Tile
          BY DEF Referrers
        <5> QED
          BY <5>1, <5>2, FS_Subset, FS_CardinalityType
      <4> HIDE DEF left
      <4> QED
        BY <4>1, <4>2, <4>3 DEF Registered
    <3> HIDE DEF left
    <3> QED
      BY <1>1, <3>1
  <2> HIDE DEF left
  <2> QED
    BY <2>1 DEF Registered
<1> HIDE DEF left, freed
<1>3. Registered' = {}
  BY CountsDropped
<1>4. spawned' = {} /\ \A b \in Buildings : propsLeft'[b] = {}
  BY <1>1, <1>2 DEF Exact, Placed
<1>5. Unspawned' = {} /\ PropWork(Registered)' = {}
  BY <1>3, <1>4 DEF Unspawned, PropWork
<1>6. pendingSpawns' = 0
  <2>1. FreedWork(freed) = Cardinality(Unspawned) + Cardinality(PropWork(Registered))
    <3>1. Unspawned \cap freed = Unspawned
      BY <1>2 DEF Unspawned
    <3> QED
      BY <1>2, <3>1 DEF FreedWork
  <2> QED
    BY <1>1, <2>1 DEF Exact, Placed, PendingIsExact
<1>7. propsLeft' \in [Buildings -> SUBSET Prop]
  BY <1>1 DEF Exact, Placed
<1>8. Placed'
  BY <1>3, <1>4, <1>6, <1>7 DEF Placed
<1> QED
  BY <1>5, <1>6, <1>8, FS_EmptySet DEF Exact, PendingIsExact

\* A tile goes: the freed take their work with them, and what it owned of the others
\* waits again.
LEMMA ExactUnloaded ==
    ASSUME Counts, Exact, NEW c \in Tile, Unload(c)
    PROVE  Exact'
<1> DEFINE freed == {u \in listed[c] : refs[u] = 1}
           moved == Straddlers(c, freed)
<1>1. /\ refs' = [u \in Uid |-> IF u \in listed[c] THEN refs[u] - 1 ELSE refs[u]]
      /\ spawned' = spawned \ (freed \cup moved)
      /\ propsLeft' = [b \in Buildings |-> IF b \in freed THEN {} ELSE propsLeft[b]]
      /\ pendingSpawns' = pendingSpawns - FreedWork(freed) + Cardinality(moved \cap spawned)
  BY DEF Unload, DropTile
<1>2. refs \in [Uid -> Int] /\ listed[c] \subseteq Uid
  BY DEF Counts, Listing
<1>3. listed[c] \subseteq Registered
  <2>1. ASSUME NEW u \in listed[c] PROVE refs[u] > 0
    <3>1. refs[u] = Cardinality(Referrers(u)) + GlobalRef(u) /\ GlobalRef(u) \in {0, 1}
      BY <1>2 DEF Counts, RefsAreReferrers, GlobalRef
    <3>2. c \in Referrers(u)
      BY DEF Referrers
    <3>3. Cardinality(Referrers(u)) # 0
      BY <3>2, TilesAreFinite, FS_EmptySet
    <3> QED
      BY <3>1, <3>3, TilesAreFinite
  <2> QED
    BY <1>2, <2>1 DEF Registered
<1>4. freed \subseteq Registered /\ moved \subseteq Registered \ freed /\ moved \cap Buildings = {}
  BY <1>3, ContentAssumption DEF Straddlers
<1>5. Registered' = Registered \ freed
  BY <1>1, <1>2, <1>3 DEF Registered
<1> HIDE DEF freed, moved
<1>6. Placed'
  <2>1. propsLeft' \in [Buildings -> SUBSET Prop] /\ spawned' \subseteq Registered'
    BY <1>1, <1>5 DEF Exact, Placed
  <2>2. ASSUME NEW b \in Buildings, propsLeft'[b] # {} PROVE b \in spawned'
    BY <1>1, <1>4, <2>2 DEF Exact, Placed
  <2>3. pendingSpawns' \in Int
    <3>1. /\ Unspawned \cap freed \subseteq Uid /\ PropWork(freed) \subseteq Buildings \X Prop
          /\ moved \cap spawned \subseteq Uid
      BY <1>4, WorkIn DEF Registered
    <3> QED
      BY <1>1, <3>1, WorkIsFinite DEF FreedWork, Exact, Placed
  <2> QED
    BY <2>1, <2>2, <2>3 DEF Placed
<1> DEFINE gone == Unspawned \cap freed
           back == moved \cap spawned
<1>7. /\ Unspawned' = (Unspawned \ gone) \cup back
      /\ (Unspawned \ gone) \cap back = {}
      /\ gone \subseteq Unspawned /\ back \subseteq Uid
  BY <1>1, <1>4, <1>5 DEF Unspawned, Registered, Exact, Placed
<1>8. PropWork(Registered)' = PropWork(Registered) \ PropWork(freed) /\ PropWork(freed) \subseteq PropWork(Registered)
  <2>1. PropWork(freed) \subseteq PropWork(Registered)
    BY <1>4 DEF PropWork
  <2>2. ASSUME NEW w \in Buildings \X Prop
        PROVE  w \in PropWork(Registered)' <=> w \in PropWork(Registered) \ PropWork(freed)
    <3>1. w[1] \in Buildings
      BY <2>2
    <3>2. w \in PropWork(Registered)' <=> w[1] \in Registered' /\ w[2] \in propsLeft'[w[1]]
      BY <2>2 DEF PropWork
    <3>3. \A U : w \in PropWork(U) <=> w[1] \in U /\ w[2] \in propsLeft[w[1]]
      BY <2>2 DEF PropWork
    <3> QED
      BY <1>1, <1>5, <3>1, <3>2, <3>3
  <2> QED
    BY <2>1, <2>2 DEF PropWork
<1>9. pendingSpawns' = pendingSpawns - (Cardinality(gone) + Cardinality(PropWork(freed))) + Cardinality(back)
  BY <1>1 DEF FreedWork
<1> HIDE DEF gone, back
<1>10. /\ Cardinality(Unspawned) \in Nat /\ IsFiniteSet(Unspawned)
       /\ Cardinality(gone) \in Nat /\ Cardinality(back) \in Nat /\ IsFiniteSet(back)
       /\ IsFiniteSet(Unspawned \ gone)
       /\ Cardinality(PropWork(freed)) \in Nat /\ Cardinality(PropWork(Registered)) \in Nat
       /\ IsFiniteSet(PropWork(Registered))
  <2>1. Unspawned \subseteq Uid /\ gone \subseteq Uid /\ Unspawned \ gone \subseteq Uid
    BY <1>7, WorkIn
  <2> QED
    BY <1>7, <2>1, WorkIsFinite, WorkIn
<1>11. Cardinality(Unspawned') = Cardinality(Unspawned) - Cardinality(gone) + Cardinality(back)
  <2>1. Cardinality(Unspawned \ gone) = Cardinality(Unspawned) - Cardinality(gone)
    BY <1>7, <1>10, CountLess
  <2>2. Cardinality((Unspawned \ gone) \cup back) = Cardinality(Unspawned \ gone) + Cardinality(back)
    BY <1>7, <1>10, CountBoth
  <2> QED
    BY <1>7, <2>1, <2>2
<1>12. Cardinality(PropWork(Registered)') = Cardinality(PropWork(Registered)) - Cardinality(PropWork(freed))
  BY <1>8, <1>10, CountLess
<1>13. PendingIsExact'
  BY <1>9, <1>10, <1>11, <1>12 DEF Exact, PendingIsExact
<1> QED
  BY <1>6, <1>13 DEF Exact

\* The failed models retire.
LEMMA ExactRetired ==
    ASSUME Exact, RetireFailed
    PROVE  Exact'
<1> DEFINE bad == FailedModels
           badWork == {w \in PropWork(Registered) : w[2] \in FailedProps(w[1])}
<1>1. /\ spawned' = spawned \cup bad /\ refs' = refs
      /\ propsLeft' = [b \in Buildings |-> IF b \in Registered THEN propsLeft[b] \ FailedProps(b) ELSE propsLeft[b]]
      /\ pendingSpawns' = pendingSpawns - Cardinality(bad) - Cardinality(badWork)
  BY DEF RetireFailed
<1>2. bad \subseteq Unspawned /\ badWork \subseteq PropWork(Registered)
  BY DEF FailedModels
<1>3. Registered' = Registered
  BY <1>1 DEF Registered
<1>4. PropWork(Registered)' = PropWork(Registered) \ badWork
  <2>1. ASSUME NEW w \in Buildings \X Prop
        PROVE  w \in PropWork(Registered)' <=> w \in PropWork(Registered) \ badWork
    <3>1. w[1] \in Buildings
      BY <2>1
    <3>2. w \in PropWork(Registered)' <=> w[1] \in Registered /\ w[2] \in propsLeft'[w[1]]
      BY <1>3, <2>1 DEF PropWork
    <3>3. w \in PropWork(Registered) <=> w[1] \in Registered /\ w[2] \in propsLeft[w[1]]
      BY <2>1 DEF PropWork
    <3> QED
      BY <1>1, <3>1, <3>2, <3>3
  <2> QED
    BY <2>1 DEF PropWork
<1> HIDE DEF bad, badWork
<1>5. Unspawned' = Unspawned \ bad
  BY <1>1, <1>3 DEF Unspawned
<1>6. /\ IsFiniteSet(Unspawned) /\ IsFiniteSet(PropWork(Registered))
      /\ Cardinality(Unspawned) \in Nat /\ Cardinality(PropWork(Registered)) \in Nat
      /\ Cardinality(bad) \in Nat /\ Cardinality(badWork) \in Nat
  <2>1. bad \subseteq Uid /\ badWork \subseteq Buildings \X Prop
    BY <1>2, WorkIn
  <2> QED
    BY <2>1, WorkIsFinite, WorkIn
<1>7. Cardinality(Unspawned') = Cardinality(Unspawned) - Cardinality(bad)
  BY <1>2, <1>5, <1>6, CountLess
<1>8. Cardinality(PropWork(Registered)') = Cardinality(PropWork(Registered)) - Cardinality(badWork)
  BY <1>2, <1>4, <1>6, CountLess
<1>9. Placed'
  <2>1. propsLeft' \in [Buildings -> SUBSET Prop] /\ \A b \in Buildings : propsLeft'[b] # {} => b \in spawned'
    BY <1>1 DEF Exact, Placed
  <2>2. spawned' \subseteq Registered'
    BY <1>1, <1>2, <1>3 DEF Unspawned, Exact, Placed
  <2> QED
    BY <1>1, <1>6, <2>1, <2>2 DEF Exact, Placed
<1>10. PendingIsExact'
  BY <1>1, <1>6, <1>7, <1>8 DEF Exact, PendingIsExact
<1> QED
  BY <1>9, <1>10 DEF Exact

\* One thing stands: a doodad, a building with its props to come, a prop.
LEMMA ExactDoodad ==
    ASSUME Exact, NEW u \in Uid, SpawnDoodad(u)
    PROVE  Exact'
<1>1. /\ u \in Unspawned /\ spawned' = spawned \cup {u} /\ pendingSpawns' = pendingSpawns - 1
      /\ refs' = refs /\ propsLeft' = propsLeft
  BY DEF SpawnDoodad
<1>2. Registered' = Registered /\ Unspawned' = Unspawned \ {u} /\ PropWork(Registered)' = PropWork(Registered)
  BY <1>1 DEF Registered, Unspawned, PropWork
<1>3. /\ Cardinality(Unspawned') = Cardinality(Unspawned) - 1
      /\ Cardinality(Unspawned) \in Nat /\ Cardinality(PropWork(Registered)) \in Nat
  BY <1>1, <1>2, WorkIsFinite, WorkIn, FS_RemoveElement
<1>4. Placed'
  BY <1>1, <1>2 DEF Exact, Placed, Unspawned
<1>5. PendingIsExact'
  BY <1>1, <1>2, <1>3 DEF Exact, PendingIsExact
<1> QED
  BY <1>4, <1>5 DEF Exact

LEMMA ExactBuilding ==
    ASSUME Exact, NEW u \in Uid, SpawnBuilding(u)
    PROVE  Exact'
<1>1. /\ u \in Unspawned /\ u \in Buildings /\ spawned' = spawned \cup {u} /\ refs' = refs
      /\ pendingSpawns' = pendingSpawns + Cardinality(Props[u]) - 1
      /\ propsLeft' = [propsLeft EXCEPT ![u] = Props[u]]
  BY DEF SpawnBuilding
<1>2. Registered' = Registered /\ Unspawned' = Unspawned \ {u}
  BY <1>1 DEF Registered, Unspawned
<1>3. Props[u] \subseteq Prop /\ IsFiniteSet(Props[u]) /\ Cardinality(Props[u]) \in Nat
  <2>1. Props[u] \subseteq Prop /\ IsFiniteSet(Prop)
    BY <1>1, ContentAssumption
  <2> QED
    BY <2>1, FS_Subset, FS_CardinalityType
<1>4. propsLeft[u] = {} /\ u \in Registered
  BY <1>1 DEF Exact, Placed, Unspawned
<1> DEFINE more == {u} \X Props[u]
<1>5. IsFiniteSet(more) /\ Cardinality(more) = Cardinality(Props[u])
  <2>1. IsFiniteSet({u}) /\ Cardinality({u}) = 1
    BY FS_Singleton
  <2>2. IsFiniteSet(more) /\ Cardinality(more) = Cardinality({u}) * Cardinality(Props[u])
    BY <1>3, <2>1, FS_Product
  <2> QED
    BY <1>3, <2>1, <2>2
<1>6. PropWork(Registered)' = PropWork(Registered) \cup more /\ PropWork(Registered) \cap more = {}
  <2>1. ASSUME NEW w \in Buildings \X Prop
        PROVE  /\ w \in PropWork(Registered)' <=> w \in PropWork(Registered) \/ w \in more
               /\ ~(w \in PropWork(Registered) /\ w \in more)
    <3>1. w[1] \in Buildings /\ w[2] \in Prop /\ w = <<w[1], w[2]>>
      BY <2>1
    <3>2. w \in PropWork(Registered)' <=> w[1] \in Registered /\ w[2] \in propsLeft'[w[1]]
      BY <1>2, <2>1 DEF PropWork
    <3>3. w \in PropWork(Registered) <=> w[1] \in Registered /\ w[2] \in propsLeft[w[1]]
      BY <2>1 DEF PropWork
    <3>4. w \in more <=> w[1] = u /\ w[2] \in Props[u]
      BY <3>1
    <3>5. propsLeft'[w[1]] = IF w[1] = u THEN Props[u] ELSE propsLeft[w[1]]
      BY <1>1, <3>1 DEF Exact, Placed
    <3> HIDE DEF more
    <3> QED
      BY <1>4, <3>2, <3>3, <3>4, <3>5
  <2>2. more \subseteq Buildings \X Prop
    BY <1>1, <1>3
  <2> HIDE DEF more
  <2> QED
    BY <2>1, <2>2 DEF PropWork
<1> HIDE DEF more
<1>7. /\ IsFiniteSet(Unspawned) /\ Cardinality(Unspawned) \in Nat
      /\ IsFiniteSet(PropWork(Registered)) /\ Cardinality(PropWork(Registered)) \in Nat
  BY WorkIsFinite, WorkIn
<1>8. Cardinality(Unspawned') = Cardinality(Unspawned) - 1
  BY <1>1, <1>2, <1>7, FS_RemoveElement
<1>9. Cardinality(PropWork(Registered)') = Cardinality(PropWork(Registered)) + Cardinality(Props[u])
  BY <1>5, <1>6, <1>7, CountBoth
<1>10. Placed'
  BY <1>1, <1>2, <1>3, <1>4 DEF Exact, Placed
<1>11. PendingIsExact'
  BY <1>1, <1>3, <1>7, <1>8, <1>9 DEF Exact, PendingIsExact
<1> QED
  BY <1>10, <1>11 DEF Exact

LEMMA ExactProp ==
    ASSUME Exact, NEW b \in Buildings, NEW p \in Prop, SpawnProp(b, p)
    PROVE  Exact'
<1>1. /\ b \in Registered /\ p \in propsLeft[b] /\ pendingSpawns' = pendingSpawns - 1
      /\ propsLeft' = [propsLeft EXCEPT ![b] = @ \ {p}]
      /\ refs' = refs /\ spawned' = spawned
  BY DEF SpawnProp
<1>2. Registered' = Registered /\ Unspawned' = Unspawned
  BY <1>1 DEF Registered, Unspawned
<1>3. PropWork(Registered)' = PropWork(Registered) \ {<<b, p>>} /\ <<b, p>> \in PropWork(Registered)
  <2>1. ASSUME NEW w \in Buildings \X Prop
        PROVE  w \in PropWork(Registered)' <=> w \in PropWork(Registered) /\ w # <<b, p>>
    <3>1. w[1] \in Buildings /\ w[2] \in Prop /\ w = <<w[1], w[2]>>
      BY <2>1
    <3>2. w \in PropWork(Registered)' <=> w[1] \in Registered /\ w[2] \in propsLeft'[w[1]]
      BY <1>2, <2>1 DEF PropWork
    <3>3. w \in PropWork(Registered) <=> w[1] \in Registered /\ w[2] \in propsLeft[w[1]]
      BY <2>1 DEF PropWork
    <3>4. w = <<b, p>> <=> w[1] = b /\ w[2] = p
      BY <3>1
    <3>5. propsLeft'[w[1]] = IF w[1] = b THEN propsLeft[b] \ {p} ELSE propsLeft[w[1]]
      BY <1>1, <3>1 DEF Exact, Placed
    <3> QED
      BY <3>2, <3>3, <3>4, <3>5
  <2>2. <<b, p>> \in PropWork(Registered)
    BY <1>1 DEF PropWork
  <2> QED
    BY <2>1, <2>2 DEF PropWork
<1>4. /\ Cardinality(Unspawned) \in Nat
      /\ IsFiniteSet(PropWork(Registered)) /\ Cardinality(PropWork(Registered)) \in Nat
  BY WorkIsFinite, WorkIn
<1>5. Cardinality(PropWork(Registered)') = Cardinality(PropWork(Registered)) - 1
  BY <1>3, <1>4, FS_RemoveElement
<1>6. Placed'
  BY <1>1, <1>2 DEF Exact, Placed
<1>7. PendingIsExact'
  BY <1>1, <1>2, <1>4, <1>5 DEF Exact, PendingIsExact
<1> QED
  BY <1>6, <1>7 DEF Exact

LEMMA ExactStep == Phased /\ Counts /\ Exact /\ [Next]_vars => Exact'
<1> SUFFICES ASSUME Phased, Counts, Exact, [Next]_vars PROVE Exact'
  OBVIOUS
<1>1. ASSUME UNCHANGED counting PROVE Exact'
  BY <1>1 DEF counting, Exact, Placed, PendingIsExact, Unspawned, Registered, PropWork
<1>2. CASE Chain
  <2>1. CASE SwapMap
    BY <2>1, ExactDropped DEF SwapMap
  <2>2. CASE WatchWdt
    <3>1. CASE UNCHANGED placeVars
      BY <1>1, <3>1 DEF placeVars, counting
    <3>2. CASE Register(GlobalOf[mapDir], 0)
      <4>1. mapDir \in Maps
        BY <2>2 DEF WatchWdt, Counts, MapsNamed
      <4>2. GlobalOf[mapDir] \in SUBSET Uid
        BY <4>1, ContentAssumption DEF Uid
      <4> QED
        BY <3>2, <4>2, ExactRegistered
    <3> QED
      BY <2>2, <3>1, <3>2 DEF WatchWdt
  <2>3. ASSUME NEW t \in Tile, SpawnTile(t) PROVE Exact'
    <3>1. mapDir \in Maps /\ Register(Lists[mapDir][t], t)
      BY <2>3 DEF SpawnTile, Phased
    <3>2. Lists[mapDir][t] \in SUBSET Uid
      BY <3>1, ContentAssumption
    <3> QED
      BY <3>1, <3>2, ExactRegistered
  <2>4. ASSUME NEW t \in Tile, Unload(t) PROVE Exact'
    BY <2>4, ExactUnloaded
  <2>5. CASE RetireFailed
    BY <2>5, ExactRetired
  <2>6. ASSUME NEW u \in Uid, SpawnDoodad(u) \/ SpawnBuilding(u) PROVE Exact'
    BY <2>6, ExactDoodad, ExactBuilding
  <2>7. ASSUME NEW b \in Buildings, NEW p \in Prop, SpawnProp(b, p) PROVE Exact'
    BY <2>7, ExactProp
  <2>8. CASE \/ SkipFrame \/ StreamOn \/ AwaitReadsAndAttach \/ PublishProgress \/ FurnishCells \/ EndSpawns
             \/ FlushHullWelds \/ PublishTerrainResidency
    BY <1>1, <2>8 DEF SkipFrame, StreamOn, AwaitReadsAndAttach, PublishProgress, FurnishCells, EndSpawns,
                      FlushHullWelds, PublishTerrainResidency, placeVars, counting
  <2> QED
    BY <1>2, <2>1, <2>2, <2>3, <2>4, <2>5, <2>6, <2>7, <2>8 DEF Chain
<1>3. CASE ReleaseWorld
  BY <1>1, <1>3, ExactDropped DEF ReleaseWorld, placeVars, counting
<1>4. CASE Elsewhere
  BY <1>1, <1>4 DEF Elsewhere, ReadTile, ReadWdt, ReadModel, FreeModel, placeVars, counting
<1>5. CASE EndFrame \/ OpenWorld \/ CloseWorld \/ UNCHANGED stream \/ \E f, marked : Follow(f, marked)
  BY <1>1, <1>5 DEF EndFrame, OpenWorld, CloseWorld, Follow, stream, placeVars, counting
<1> QED
  BY <1>2, <1>3, <1>4, <1>5, StreamSteps

LEMMA ExactStarts == Init => Exact
<1> SUFFICES ASSUME Init PROVE Exact
  OBVIOUS
<1>1. refs = [u \in Uid |-> 0] /\ spawned = {} /\ propsLeft = [b \in Buildings |-> {}] /\ pendingSpawns = 0
  BY DEF Init, StreamInit
<1>2. Registered = {}
  BY <1>1 DEF Registered
<1>3. Unspawned = {} /\ PropWork(Registered) = {}
  BY <1>2 DEF Unspawned, PropWork
<1>4. propsLeft \in [Buildings -> SUBSET Prop]
  BY <1>1
<1> QED
  BY <1>1, <1>3, <1>4, FS_EmptySet DEF Exact, Placed, PendingIsExact

\* The spawner's count is exactly the work there is, through every registration, handover,
\* failure and drop, so it neither skips its walk over a hole nor underflows
\* (terrain_stream/spawn/mod.rs, pending_spawns).
THEOREM PendingIsExactHolds == Spec => []PendingIsExact
<1>1. Exact => PendingIsExact
  BY DEF Exact
<1> QED
  BY <1>1, ExactStarts, ExactStep, CountsHold, PTL DEF Spec

-----------------------------------------------------------------------------
(* The types.                                                               *)

Typed ==
  /\ TypeOK /\ pos \in Chunk /\ flying \in Chunk \cup {-1}
  /\ wdt = "loading" => mapDir \in Maps

LEMMA TypesDropped ==
    ASSUME TypeOK, DropStreamedWorld
    PROVE  /\ read' \in [Tile -> {"none"}] /\ up' = {} /\ furnished' = {} /\ gaveUp' = {}
           /\ listed' \in [Tile -> SUBSET Uid] /\ spawned' \subseteq Uid /\ owner' = owner
           /\ propsLeft' \in [Buildings -> SUBSET Prop]
           /\ tileBatch' \in [Tile -> SUBSET Doodads] /\ tileHulls' \in [Tile -> SUBSET Doodads]
           /\ propBatch' \in [Buildings -> SUBSET Prop] /\ propHulls' \in [Buildings -> SUBSET Prop]
           /\ globalWmo' = FALSE /\ settled' = FALSE /\ orphans' = orphans
BY DEF DropStreamedWorld, TypeOK

\* Of a placement's variables, the counts are typed where they are counted.
Counted == refs \in [Uid -> Int] /\ pendingSpawns \in Int

LEMMA TypesMapped ==
    ASSUME Typed, Counted', SwapMap \/ ReleaseWorld
    PROVE  TypeOK' /\ (wdt' = "loading" => mapDir' \in Maps)
<1>1. CASE SwapMap
  <2>1. DropStreamedWorld /\ TypeOK
    BY <1>1 DEF SwapMap, Typed
  <2>2. /\ mapDir' = focus.map /\ wdt' = "loading" /\ window' = focus.chunk
        /\ inner' = (IF focus.holds THEN InnerTiles(focus.chunk) ELSE {})
        /\ plan' = {[desired |-> WantedTiles(focus.chunk), quiet |-> TRUE]}
        /\ phase' = "await"
        /\ UNCHANGED <<live, focus, reloadMark, wasPaced, answered, progress, residency>>
    BY <1>1 DEF SwapMap
  <2>3. focus.map \in Maps /\ focus.chunk \in Chunk
    BY <2>1 DEF TypeOK, Focuses
  <2>4. /\ phase' \in Phases /\ mapDir' \in Maps /\ window' \in Chunk
        /\ inner' \subseteq Tile /\ \A p \in plan' : p.desired \subseteq Tile /\ p.quiet \in BOOLEAN
    BY <2>2, <2>3, SpansAreTiles DEF Phases
  <2>5. read' \in [Tile -> {"none", "loading", "ok", "failed"}] /\ owner' \in [Uid -> Tile]
    BY <2>1, TypesDropped DEF TypeOK
  <2> QED
    BY <2>1, <2>2, <2>4, <2>5, TypesDropped DEF TypeOK, Counted
<1>2. CASE ReleaseWorld
  <2>1. CASE UNCHANGED <<mapVars, planVars, tileVars, placeVars, hullVars, loadVars>>
    BY <1>2, <2>1 DEF ReleaseWorld, mapVars, planVars, tileVars, placeVars, hullVars, loadVars, Typed, TypeOK, Phases
  <2>2. CASE DropStreamedWorld /\ mapDir' = NoMap /\ wdt' = "none" /\ inner' = {} /\ window' = -1
             /\ UNCHANGED <<plan, wasPaced, answered, residency>>
    <3>1. read' \in [Tile -> {"none", "loading", "ok", "failed"}] /\ owner' \in [Uid -> Tile]
      BY <2>2, TypesDropped DEF TypeOK, Typed
    <3> QED
      BY <1>2, <2>2, <3>1, TypesDropped DEF ReleaseWorld, Typed, TypeOK, Phases, Counted
  <2> QED
    BY <1>2, <2>1, <2>2 DEF ReleaseWorld
<1> QED
  BY <1>1, <1>2

LEMMA TypesRequested ==
    ASSUME Typed, NEW drop, Request(drop)
    PROVE  /\ phase' \in Phases /\ window' \in Chunk /\ inner' \subseteq Tile
           /\ \A p \in plan' : p.desired \subseteq Tile /\ p.quiet \in BOOLEAN
           /\ read' \in [Tile -> {"none", "loading", "ok", "failed"}] /\ gaveUp' \subseteq Tile
<1>1. PICK ask : read' = [t \in Tile |-> IF t \in ask THEN "loading" ELSE IF t \in drop THEN "none" ELSE read[t]]
  BY DEF Request
<1>2. DesiredTiles \subseteq Tile /\ HeldTiles \subseteq Tile
  BY SpansAreTiles DEF DesiredTiles, HeldTiles
<1>3. focus.chunk \in Chunk
  BY DEF Typed, TypeOK, Focuses
<1>4. read' \in [Tile -> {"none", "loading", "ok", "failed"}]
  BY <1>1 DEF Typed, TypeOK
<1> QED
  BY <1>2, <1>3, <1>4 DEF Request, Typed, TypeOK, Phases

\* The steps that ask for tiles and let them go.
LEMMA TypesWindowed ==
    ASSUME Typed, Counted', StreamOn \/ \E c \in Tile : Unload(c)
    PROVE  TypeOK' /\ UNCHANGED <<wdt, mapDir>>
<1>1. CASE StreamOn
  <2>1. Request({}) /\ UNCHANGED <<up, furnished, listed, placeVars, tileHulls, propHulls, colliders>>
    BY <1>1 DEF StreamOn
  <2> QED
    BY <2>1, TypesRequested DEF Request, Typed, TypeOK, mapVars, placeVars
<1>2. ASSUME NEW c \in Tile, Unload(c) PROVE TypeOK' /\ UNCHANGED <<wdt, mapDir>>
  <2>1. Request({c}) /\ DropTile(c)
    BY <1>2 DEF Unload
  <2>2. /\ up' \subseteq Tile /\ furnished' \subseteq Tile /\ listed' \in [Tile -> SUBSET Uid] /\ spawned' \subseteq Uid
        /\ propsLeft' \in [Buildings -> SUBSET Prop] /\ tileHulls' \in [Tile -> SUBSET Doodads]
        /\ propHulls' \in [Buildings -> SUBSET Prop]
    BY <2>1 DEF DropTile, Typed, TypeOK
  <2>3. owner' \in [Uid -> Tile]
    <3>1. PICK freed : owner' = [u \in Uid |-> IF u \in Straddlers(c, freed) THEN NewOwner(u, c) ELSE owner[u]]
      BY <2>1 DEF DropTile
    <3>2. \A u \in Straddlers(c, freed) : NewOwner(u, c) \in Tile
      BY HeirLists DEF Straddlers, Referrers
    <3> QED
      BY <3>1, <3>2 DEF Typed, TypeOK
  <2> QED
    BY <2>1, <2>2, <2>3, TypesRequested DEF Request, Typed, TypeOK, mapVars, Counted
<1> QED
  BY <1>1, <1>2

LEMMA TypesRegistered ==
    ASSUME Typed, NEW U, NEW t \in Tile, Register(U, t)
    PROVE  owner' \in [Uid -> Tile] /\ UNCHANGED <<spawned, propsLeft>>
BY DEF Register, Typed, TypeOK

\* The rest of the frame.
LEMMA TypesChained ==
    ASSUME Typed, Phased, Counted', Chain, ~SwapMap, ~StreamOn, ~(\E c \in Tile : Unload(c))
    PROVE  TypeOK' /\ UNCHANGED <<wdt, mapDir>>
<1>1. CASE WatchWdt
  <2>1. 0 \in Tile
    BY StripAssumption DEF Tile
  <2>2. CASE Register(GlobalOf[mapDir], 0) /\ globalWmo' = TRUE
    <3>1. owner' \in [Uid -> Tile] /\ UNCHANGED <<spawned, propsLeft>>
      BY <2>1, <2>2, TypesRegistered
    <3>2. mapDir \in Maps
      BY <1>1 DEF WatchWdt, Typed, TypeOK, Focuses
    <3> QED
      BY <1>1, <2>2, <3>1, <3>2 DEF WatchWdt, Typed, TypeOK, Counted, Phases, planVars, tileVars, hullVars, loadVars
  <2>3. CASE UNCHANGED <<placeVars, globalWmo>>
    BY <1>1, <2>3 DEF WatchWdt, Typed, TypeOK, Counted, Phases, placeVars, planVars, tileVars, hullVars, loadVars
  <2> QED
    BY <1>1, <2>2, <2>3 DEF WatchWdt
<1>2. CASE SkipFrame
  BY <1>2 DEF SkipFrame, Typed, TypeOK, Phases, mapVars, tileVars, placeVars, hullVars, loadVars
<1>3. ASSUME NEW t \in Tile, SpawnTile(t) PROVE TypeOK' /\ UNCHANGED <<wdt, mapDir>>
  <2>1. owner' \in [Uid -> Tile] /\ UNCHANGED <<spawned, propsLeft>>
    BY <1>3, TypesRegistered DEF SpawnTile
  <2>2. listed' = [listed EXCEPT ![t] = Lists[mapDir][t]] /\ Lists[mapDir][t] \subseteq Uid
    BY <1>3, ContentAssumption DEF SpawnTile, Phased
  <2>3. listed' \in [Tile -> SUBSET Uid]
    BY <2>2 DEF Typed, TypeOK
  <2> QED
    BY <1>3, <2>1, <2>3 DEF SpawnTile, Typed, TypeOK, Counted, frameVars, mapVars, planVars, hullVars
<1>4. CASE AwaitReadsAndAttach
  <2>1. PICK late \in SUBSET InnerReads :
          /\ read' = [t \in Tile |-> IF t \in InnerReads \ late THEN AdtAnswer(t) ELSE read[t]]
          /\ gaveUp' = gaveUp \cup late
    BY <1>4 DEF AwaitReadsAndAttach
  <2>2. read' \in [Tile -> {"none", "loading", "ok", "failed"}] /\ gaveUp' \subseteq Tile
    BY <2>1, AnswerIsOne DEF Typed, TypeOK, InnerReads
  <2> QED
    BY <1>4, <2>2 DEF AwaitReadsAndAttach, Typed, TypeOK, Phases, mapVars, planVars, placeVars, hullVars
<1>5. CASE PublishProgress
  <2>1. settled' \in BOOLEAN /\ wasPaced' \in BOOLEAN /\ reloadMark' \in BOOLEAN
    <3>1. CASE plan = {}
      BY <1>5, <3>1 DEF PublishProgress, Typed, TypeOK
    <3>2. CASE plan # {}
      <4>1. PICK p \in plan : settled' = (p.quiet /\ Loaded \subseteq furnished)
                              /\ wasPaced' = focus.paced /\ reloadMark' = FALSE
        BY <1>5, <3>2 DEF PublishProgress
      <4> QED
        BY <4>1 DEF Typed, TypeOK, Focuses
    <3> QED
      BY <3>1, <3>2
  <2> QED
    BY <1>5, <2>1 DEF PublishProgress, Typed, TypeOK, Phases, mapVars, tileVars, placeVars, hullVars
<1>6. CASE FurnishCells
  <2>1. furnished' \subseteq Tile
    <3>1. PICK more \in IF ~focus.paced THEN {Bare} ELSE {{}} \cup {{t} : t \in Nearest(Bare \ inner, window)} :
            furnished' = furnished \cup (Bare \cap inner) \cup more
      BY <1>6 DEF FurnishCells
    <3>2. more \subseteq Bare
      BY <3>1 DEF Nearest
    <3> QED
      BY <3>1, <3>2 DEF Bare, Typed, TypeOK
  <2> QED
    BY <1>6, <2>1 DEF FurnishCells, Typed, TypeOK, Phases, mapVars, planVars, placeVars, hullVars
<1>7. CASE RetireFailed
  <2>1. spawned' \subseteq Uid /\ propsLeft' \in [Buildings -> SUBSET Prop]
    BY <1>7 DEF RetireFailed, FailedModels, Unspawned, Registered, Typed, TypeOK
  <2> QED
    BY <1>7, <2>1 DEF RetireFailed, Typed, TypeOK, Phases, Counted, mapVars, planVars, tileVars, hullVars, loadVars
<1>8. ASSUME NEW u \in Uid, SpawnDoodad(u) PROVE TypeOK' /\ UNCHANGED <<wdt, mapDir>>
  <2>1. spawned' \subseteq Uid /\ tileBatch' \in [Tile -> SUBSET Doodads]
    BY <1>8 DEF SpawnDoodad, Typed, TypeOK
  <2> QED
    BY <1>8, <2>1 DEF SpawnDoodad, Typed, TypeOK, Counted, frameVars, mapVars, planVars, tileVars, loadVars
<1>9. ASSUME NEW u \in Uid, SpawnBuilding(u) PROVE TypeOK' /\ UNCHANGED <<wdt, mapDir>>
  <2>1. u \in Buildings /\ Props[u] \subseteq Prop
    BY <1>9, ContentAssumption DEF SpawnBuilding
  <2>2. /\ spawned' \subseteq Uid /\ propsLeft' \in [Buildings -> SUBSET Prop]
        /\ propHulls' \in [Buildings -> SUBSET Prop] /\ orphans' \subseteq Prop
    BY <1>9, <2>1 DEF SpawnBuilding, Typed, TypeOK
  <2> QED
    BY <1>9, <2>2 DEF SpawnBuilding, Typed, TypeOK, Counted, frameVars, mapVars, planVars, tileVars
<1>10. ASSUME NEW b \in Buildings, NEW p \in Prop, SpawnProp(b, p) PROVE TypeOK' /\ UNCHANGED <<wdt, mapDir>>
  <2>1. propsLeft' \in [Buildings -> SUBSET Prop] /\ propBatch' \in [Buildings -> SUBSET Prop]
    BY <1>10 DEF SpawnProp, Typed, TypeOK
  <2> QED
    BY <1>10, <2>1 DEF SpawnProp, Typed, TypeOK, Counted, frameVars, mapVars, planVars, tileVars, loadVars
<1>11. CASE EndSpawns
  BY <1>11 DEF EndSpawns, Typed, TypeOK, Phases, mapVars, planVars, tileVars, placeVars, hullVars, loadVars
<1>12. CASE FlushHullWelds
  <2>1. /\ tileBatch' \in [Tile -> SUBSET Doodads] /\ tileHulls' \in [Tile -> SUBSET Doodads]
        /\ propBatch' \in [Buildings -> SUBSET Prop] /\ propHulls' \in [Buildings -> SUBSET Prop]
    <3>1. /\ \A t \in Tile : tileBatch'[t] \in {{}, tileBatch[t]}
          /\ \A t \in Tile : tileHulls'[t] \in {tileHulls[t], tileHulls[t] \cup tileBatch[t]}
          /\ \A b \in Buildings : propBatch'[b] \in {{}, propBatch[b]}
          /\ \A b \in Buildings : propHulls'[b] \in {propHulls[b], propHulls[b] \cup propBatch[b]}
          /\ tileBatch' = [t \in Tile |-> tileBatch'[t]] /\ tileHulls' = [t \in Tile |-> tileHulls'[t]]
          /\ propBatch' = [b \in Buildings |-> propBatch'[b]] /\ propHulls' = [b \in Buildings |-> propHulls'[b]]
      BY <1>12 DEF FlushHullWelds
    <3> QED
      BY <3>1 DEF Typed, TypeOK
  <2> QED
    BY <1>12, <2>1 DEF FlushHullWelds, Typed, TypeOK, Phases, mapVars, planVars, tileVars, placeVars
<1>13. CASE PublishTerrainResidency
  <2>1. residency' \subseteq Tile
    BY <1>13 DEF PublishTerrainResidency, SolidTiles, Loaded
  <2> QED
    BY <1>13, <2>1 DEF PublishTerrainResidency, Typed, TypeOK, Phases, mapVars, planVars, tileVars, placeVars, hullVars
<1> QED
  BY <1>1, <1>2, <1>3, <1>4, <1>5, <1>6, <1>7, <1>8, <1>9, <1>10, <1>11, <1>12, <1>13 DEF Chain

\* Between the stream stages.
LEMMA TypesElsewhere ==
    ASSUME Typed, Elsewhere
    PROVE  TypeOK' /\ mapDir' = mapDir /\ (wdt' = "loading" => wdt = "loading")
<1>1. ASSUME NEW t \in Tile, ReadTile(t) PROVE TypeOK' /\ UNCHANGED <<wdt, mapDir>>
  <2>1. read' \in [Tile -> {"none", "loading", "ok", "failed"}]
    BY <1>1, AnswerIsOne DEF ReadTile, Typed, TypeOK
  <2> QED
    BY <1>1, <2>1 DEF ReadTile, Typed, TypeOK, frameVars, mapVars, planVars, placeVars, hullVars, loadVars
<1>2. CASE ReadWdt
  <2>1. wdt' \in {"ok", "failed"}
    BY <1>2, ContentAssumption DEF ReadWdt, Typed
  <2> QED
    BY <1>2, <2>1 DEF ReadWdt, Typed, TypeOK, frameVars, planVars, tileVars, placeVars, hullVars, loadVars
<1>3. ASSUME NEW x \in Uid \cup Prop, ReadModel(x) \/ FreeModel(x) PROVE TypeOK' /\ UNCHANGED <<wdt, mapDir>>
  <2>1. answered' \subseteq Uid \cup Prop
    BY <1>3 DEF ReadModel, FreeModel, Typed, TypeOK
  <2> QED
    BY <1>3, <2>1 DEF ReadModel, FreeModel, Typed, TypeOK, frameVars, mapVars, planVars, tileVars, placeVars, hullVars
<1> QED
  BY <1>1, <1>2, <1>3 DEF Elsewhere

\* The frame's marks aside, these leave the streamer alone.
rest == <<mapVars, planVars, tileVars, placeVars, hullVars, loadVars>>

LEMMA TypesOfFrame ==
    ASSUME Typed, UNCHANGED rest, phase' \in Phases, live' \in BOOLEAN, reloadMark' \in BOOLEAN, focus' \in Focuses
    PROVE  TypeOK' /\ UNCHANGED <<wdt, mapDir>>
BY DEF Typed, TypeOK, rest, mapVars, planVars, tileVars, placeVars, hullVars, loadVars

LEMMA TypedStep == Typed /\ Phased /\ Counts /\ Exact /\ [Next]_vars => Typed'
<1> SUFFICES ASSUME Typed, Phased, Counts, Exact, [Next]_vars PROVE Typed'
  OBVIOUS
<1>1. Counted'
  <2>1. Counts' /\ Exact'
    BY CountsStep, ExactStep
  <2> QED
    BY <2>1 DEF Counts, Listing, Exact, Placed, Counted
<1>2. ASSUME TypeOK', wdt' = "loading" => mapDir' \in Maps, UNCHANGED <<pos, flying>> PROVE Typed'
  BY <1>2 DEF Typed
<1>3. ASSUME Chain \/ ReleaseWorld PROVE TypeOK' /\ (wdt' = "loading" => mapDir' \in Maps)
  <2>1. ASSUME SwapMap \/ ReleaseWorld PROVE TypeOK' /\ (wdt' = "loading" => mapDir' \in Maps)
    BY <1>1, <2>1, TypesMapped
  <2>2. ASSUME StreamOn \/ \E c \in Tile : Unload(c) PROVE TypeOK' /\ UNCHANGED <<wdt, mapDir>>
    BY <1>1, <2>2, TypesWindowed
  <2>3. ASSUME Chain, ~SwapMap, ~StreamOn, ~(\E c \in Tile : Unload(c)) PROVE TypeOK' /\ UNCHANGED <<wdt, mapDir>>
    BY <1>1, <2>3, TypesChained
  <2> QED
    BY <1>3, <2>1, <2>2, <2>3 DEF Typed
<1>4. CASE (Chain \/ ReleaseWorld) /\ UNCHANGED arrivalVars
  BY <1>2, <1>3, <1>4 DEF arrivalVars, bodyVars
<1>5. ASSUME NEW to \in Steps, PublishViewFocus(to) PROVE Typed'
  <2>1. to \in Chunk
    BY PlacesAssumption DEF Steps, Typed
  <2>2. /\ phase' = "stream" /\ UNCHANGED <<live, rest>>
        /\ reloadMark' = reloadMark /\ pos' = to /\ flying' = flying
    BY <1>5 DEF PublishViewFocus, Follow, rest
  <2>3. focus' \in Focuses
    <3> DEFINE eye == IF Active /\ flying # -1 THEN flying ELSE to
    <3>1. PICK paced \in BOOLEAN, holds \in BOOLEAN : focus' = [map |-> curMap, chunk |-> eye, paced |-> paced, holds |-> holds]
      BY <1>5 DEF PublishViewFocus, Follow, Active
    <3>2. eye \in Chunk /\ curMap \in Maps
      BY <2>1 DEF Typed, Counts, MapsNamed
    <3> QED
      BY <3>1, <3>2 DEF Focuses
  <2>4. TypeOK' /\ UNCHANGED <<wdt, mapDir>>
    BY <2>2, <2>3, TypesOfFrame DEF Phases, Typed, TypeOK
  <2> QED
    BY <2>1, <2>2, <2>4 DEF Typed
<1>6. ASSUME \/ UNCHANGED stream /\ reloadMark' \in BOOLEAN
             \/ EndFrame \/ OpenWorld \/ CloseWorld
      PROVE  TypeOK' /\ UNCHANGED <<wdt, mapDir>>
  <2>1. /\ UNCHANGED rest /\ phase' \in Phases /\ live' \in BOOLEAN /\ reloadMark' \in BOOLEAN
        /\ focus' = focus
    BY <1>6 DEF stream, rest, EndFrame, OpenWorld, CloseWorld, Phases, Typed, TypeOK
  <2> QED
    BY <2>1, TypesOfFrame DEF Typed, TypeOK
<1>7. ASSUME UNCHANGED streamVars PROVE TypeOK' /\ UNCHANGED <<wdt, mapDir>>
  BY <1>6, <1>7 DEF streamVars, frameVars, stream, Typed, TypeOK
<1>8. ASSUME NEW ceiling, NEW stalled, ReleaseHold(ceiling, stalled) PROVE Typed'
  BY <1>2, <1>6, <1>8 DEF ReleaseHold, bodyVars, Typed
<1>9. CASE Elsewhere /\ UNCHANGED arrivalVars
  BY <1>2, <1>9, TypesElsewhere DEF arrivalVars, bodyVars, Typed
<1>10. ASSUME NEW m \in Maps, NEW s \in Spots, Enter(m, s) \/ Worldport(m, s) \/ WorldportRiding(m, s) PROVE Typed'
  <2>1. pos' = s /\ flying' \in {flying, -1} /\ (OpenWorld \/ UNCHANGED streamVars)
    BY <1>10 DEF Enter, Worldport, WorldportRiding
  <2> QED
    BY <1>6, <1>7, <2>1, PlacesAssumption DEF Typed
<1>11. CASE LoginVerified \/ Seize
  BY <1>2, <1>7, <1>11 DEF LoginVerified, Seize, Typed
<1>12. ASSUME NEW s \in Spots, Teleport(s) PROVE Typed'
  <2>1. pos' = s /\ flying' = flying /\ UNCHANGED stream
    BY <1>12 DEF Teleport
  <2>2. reloadMark' \in BOOLEAN
    BY <1>12 DEF Teleport, FarReload, Typed, TypeOK
  <2> QED
    BY <1>6, <2>1, <2>2, PlacesAssumption DEF Typed
<1>13. ASSUME NEW c \in Spots \cup Flown \cup {-1}, UNCHANGED <<stream, pos>>, flying' = c, reloadMark' \in BOOLEAN
       PROVE  Typed'
  BY <1>6, <1>13, PlacesAssumption DEF Typed
<1>14. ASSUME NEW c \in Spots, OpenShot(c) PROVE Typed'
  <2>1. reloadMark' \in BOOLEAN
    BY <1>14 DEF OpenShot, FarReload, Typed, TypeOK
  <2> QED
    BY <1>13, <1>14, <2>1 DEF OpenShot, bodyVars
<1>15. ASSUME NEW c \in Flown, Glide(c) PROVE Typed'
  BY <1>13, <1>15 DEF Glide, bodyVars, streamVars, stream, frameVars, Typed, TypeOK
<1>16. CASE EndCinematic \/ AbandonCinematic
  <2>1. UNCHANGED <<stream, pos>> /\ flying' = -1
    BY <1>16 DEF EndCinematic, AbandonCinematic, bodyVars, stream, streamVars, frameVars
  <2>2. reloadMark' \in BOOLEAN
    BY <1>16 DEF EndCinematic, AbandonCinematic, FarReload, streamVars, frameVars, Typed, TypeOK
  <2> QED
    BY <1>13, <2>1, <2>2
<1>17. CASE EndSession
  <2>1. flying' = -1 /\ pos' = pos /\ UNCHANGED stream /\ reloadMark' \in BOOLEAN
    BY <1>17 DEF EndSession
  <2> QED
    BY <1>6, <2>1 DEF Typed
<1>18. CASE LeaveWorld
  BY <1>2, <1>6, <1>18 DEF LeaveWorld, Typed
<1>19. CASE UNCHANGED vars
  BY <1>2, <1>7, <1>19 DEF vars, arrivalVars, bodyVars, Typed
<1> QED
  BY <1>4, <1>5, <1>8, <1>9, <1>10, <1>11, <1>12, <1>14, <1>15, <1>16, <1>17, <1>18, <1>19 DEF Next, Frame

LEMMA TypesStart == Init => Typed
<1> SUFFICES ASSUME Init PROVE Typed
  OBVIOUS
<1>1. /\ phase = "input" /\ live = FALSE /\ reloadMark = FALSE
      /\ mapDir = NoMap /\ wdt = "none" /\ globalWmo = FALSE
      /\ window = -1 /\ inner = {} /\ plan = {} /\ settled = FALSE /\ wasPaced = FALSE
      /\ up = {} /\ furnished = {} /\ gaveUp = {} /\ spawned = {} /\ pendingSpawns = 0 /\ answered = {}
      /\ orphans = {} /\ residency = {} /\ flying = -1
  BY DEF Init, StreamInit
<1>2. focus \in Focuses /\ pos \in Chunk
  BY DEF Init, StreamInit, Focuses
<1>3. /\ read \in [Tile -> {"none", "loading", "ok", "failed"}] /\ listed \in [Tile -> SUBSET Uid]
      /\ refs \in [Uid -> Int] /\ propsLeft \in [Buildings -> SUBSET Prop]
  BY DEF Init, StreamInit
<1>4. owner \in [Uid -> Tile]
  BY StripAssumption DEF Init, StreamInit, Tile
<1>5. /\ tileBatch \in [Tile -> SUBSET Doodads] /\ tileHulls \in [Tile -> SUBSET Doodads]
      /\ propBatch \in [Buildings -> SUBSET Prop] /\ propHulls \in [Buildings -> SUBSET Prop]
  BY DEF Init, StreamInit
<1>6. /\ phase \in Phases /\ mapDir \in Maps \cup {NoMap} /\ wdt \in {"none", "loading", "ok", "failed"}
      /\ window \in Chunk \cup {-1} /\ flying \in Chunk \cup {-1} /\ ~globalWmo /\ wdt # "loading"
      /\ \A p \in plan : p.desired \subseteq Tile /\ p.quiet \in BOOLEAN
  BY <1>1 DEF Phases
<1>7. /\ live \in BOOLEAN /\ reloadMark \in BOOLEAN /\ globalWmo \in BOOLEAN
      /\ settled \in BOOLEAN /\ wasPaced \in BOOLEAN
  BY <1>1, Zenon
<1>8. pendingSpawns \in Int
  BY <1>1
<1>9. /\ inner \subseteq Tile /\ up \subseteq Tile /\ furnished \subseteq Tile /\ gaveUp \subseteq Tile
      /\ spawned \subseteq Uid /\ answered \subseteq Uid \cup Prop /\ orphans \subseteq Prop
      /\ residency \subseteq Tile
  BY <1>1
<1>10. TypeOK
  BY <1>2, <1>3, <1>4, <1>5, <1>6, <1>7, <1>8, <1>9, Zenon DEF TypeOK
<1> QED
  BY <1>2, <1>6, <1>10 DEF Typed

\* The types of the streamer's tables, counts, welds and colliders, held by every
\* system of the frame and every arrival (benilla-world, terrain_stream).
THEOREM TypeCorrect == Spec => []TypeOK
<1>1. Typed => TypeOK
  BY DEF Typed
<1> QED
  BY <1>1, TypesStart, TypedStep, ExactStarts, ExactStep, CountsHold, PTL DEF Spec

-----------------------------------------------------------------------------
(* The hulls.  A tile that is not loaded keeps no weld, and no batch either *)
(* outside the part of a frame between its unload and the next flush, in    *)
(* which it is not asked for again: a tile that comes in finds none.        *)

Stands(u, t) == u \in Registered \cap spawned /\ owner[u] = t /\ u \notin BadModels

Bring == {"await", "spawn", "furnish", "retire", "place", "weld"}

HullsOf(t) ==
  /\ t \in Loaded =>
       \A u \in Doodads : /\ (u \in tileBatch[t] \cup tileHulls[t]) <=> Stands(u, t)
                          /\ u \notin tileBatch[t] \cap tileHulls[t]
  /\ t \notin Loaded => tileHulls[t] = {} /\ (phase \notin Bring => tileBatch[t] = {})

Hulled == \A t \in Tile : HullsOf(t)

Known == Typed /\ Phased /\ Counts /\ Exact /\ Owned /\ Reads

\* Tiles come in the order of their chunks.
LEMMA TilesInOrder ==
    ASSUME NEW x \in Nat, NEW y \in Nat, x <= y
    PROVE  TileOf(x) \in Nat /\ TileOf(y) \in Nat /\ TileOf(x) <= TileOf(y)
<1>1. ChunksPerTile \in Nat \ {0}
  BY StripAssumption
<1>2. /\ x \div ChunksPerTile \in Nat /\ ChunksPerTile * (x \div ChunksPerTile) <= x
      /\ y \div ChunksPerTile \in Nat /\ y < ChunksPerTile * ((y \div ChunksPerTile) + 1)
  BY <1>1
<1>3. ASSUME NEW p \in Nat, NEW q \in Nat, p >= q + 1 PROVE ChunksPerTile * p >= ChunksPerTile * (q + 1)
  BY <1>1, <1>3
<1>4. ~(x \div ChunksPerTile >= (y \div ChunksPerTile) + 1)
  <2> DEFINE p == x \div ChunksPerTile
             q == y \div ChunksPerTile
  <2>1. p \in Nat /\ q \in Nat /\ ChunksPerTile * p <= x /\ y < ChunksPerTile * (q + 1)
    BY <1>2
  <2> HIDE DEF p, q
  <2>2. ASSUME p >= q + 1 PROVE FALSE
    <3>1. ChunksPerTile * p >= ChunksPerTile * (q + 1)
      BY <1>3, <2>1, <2>2
    <3>2. ChunksPerTile * p \in Int /\ ChunksPerTile * (q + 1) \in Int
      BY <1>1, <2>1
    <3> QED
      BY <2>1, <3>1, <3>2
  <2>3. ~(p >= q + 1)
    BY <2>2
  <2> QED
    BY <2>3 DEF p, q
<1> QED
  BY <1>2, <1>4 DEF TileOf

\* A wider window spans all a narrower one does.
LEMMA KeepsWanted == ASSUME NEW c \in Chunk PROVE WantedTiles(c) \subseteq Keeps(c)
<1>1. LastTile \in Nat /\ ChunksPerTile \in Nat \ {0} /\ OuterHalf \in Nat /\ KeepBand \in Nat
  BY StripAssumption
<1>2. (LastTile + 1) * ChunksPerTile \in Nat /\ (LastTile + 1) * ChunksPerTile >= 1 /\ c \in Int
  BY <1>1 DEF Chunk
<1>3. ASSUME NEW x \in Int, NEW y \in Int, x <= y PROVE Clamp(x) \in Nat /\ Clamp(y) \in Nat /\ Clamp(x) <= Clamp(y)
  BY <1>2, <1>3 DEF Clamp, Chunk
<1>4. TileOf(Clamp(c - (OuterHalf + KeepBand))) <= TileOf(Clamp(c - OuterHalf))
  BY <1>1, <1>2, <1>3, TilesInOrder
<1>5. TileOf(Clamp(c + OuterHalf)) <= TileOf(Clamp(c + (OuterHalf + KeepBand)))
  BY <1>1, <1>2, <1>3, TilesInOrder
<1>6. \A d \in Int : TileOf(Clamp(d)) \in Nat
  BY <1>3, TilesInOrder
<1> QED
  BY <1>1, <1>2, <1>4, <1>5, <1>6 DEF WantedTiles, Keeps, TileSpan

\* What is asked for was not loaded, and is none of the stale.
LEMMA AskedAreNew ==
    ASSUME Known, NEW drop \in SUBSET Stale, Request(drop)
    PROVE  /\ \A t \in Tile : t \in Loaded' /\ t \notin Loaded => t \notin up /\ t \notin drop
           /\ \A t \in Tile : t \in Loaded /\ t \notin Loaded' => t \in drop
           /\ \A t \in drop : t \notin Loaded'
<1>1. PICK ask \in Requests(Loaded \ drop) :
        read' = [t \in Tile |-> IF t \in ask THEN "loading" ELSE IF t \in drop THEN "none" ELSE read[t]]
  BY DEF Request
<1>2. ask \subseteq DesiredTiles
  BY DEF Requests, Nearest
<1>3. focus.chunk \in Chunk
  BY DEF Known, Typed, TypeOK, Focuses
<1>4. ask \cap drop = {}
  BY <1>2, <1>3, KeepsWanted DEF DesiredTiles, Stale
<1>5. \A t \in up : t \in Loaded
  BY DEF Known, Reads, Loaded
<1> QED
  BY <1>1, <1>4, <1>5 DEF Loaded

LEMMA HulledRequested ==
    ASSUME Known, Hulled, StreamOn
    PROVE  Hulled'
<1>1. /\ Request({}) /\ phase = "window" /\ phase' = "await"
      /\ UNCHANGED <<refs, owner, spawned, tileBatch, tileHulls, up>>
  BY DEF StreamOn, Request, placeVars
<1>2. Registered' = Registered
  BY <1>1 DEF Registered
<1>3. ASSUME NEW t \in Tile PROVE HullsOf(t)'
  <2>1. (t \in Loaded' /\ t \notin Loaded => t \notin up) /\ (t \in Loaded => t \in Loaded')
    BY <1>1, AskedAreNew
  <2>2. CASE t \in Loaded \/ t \notin Loaded'
    BY <1>1, <1>2, <2>1, <2>2 DEF Hulled, HullsOf, Stands, Bring
  <2>3. CASE t \in Loaded' /\ t \notin Loaded
    <3>1. tileBatch[t] = {} /\ tileHulls[t] = {}
      BY <1>1, <2>3 DEF Hulled, HullsOf, Bring
    <3>2. \A u \in Doodads : ~Stands(u, t)
      BY <2>1, <2>3 DEF Stands, Known, Owned, OwnersShowTheirs
    <3> QED
      BY <1>1, <1>2, <2>3, <3>1, <3>2 DEF HullsOf, Stands
  <2> QED
    BY <2>2, <2>3
<1> QED
  BY <1>3 DEF Hulled

\* A doodad in the keeping of another tile outlives this one and stays as it is; one
\* that this tile kept stands nowhere.
LEMMA StandsUnloaded ==
    ASSUME Known, NEW c \in Tile, Unload(c), NEW t \in Tile \ {c}, NEW u \in Doodads
    PROVE  Stands(u, t)' <=> Stands(u, t)
<1> DEFINE freed == {x \in listed[c] : refs[x] = 1}
<1>1. /\ refs' = [x \in Uid |-> IF x \in listed[c] THEN refs[x] - 1 ELSE refs[x]]
      /\ owner' = [x \in Uid |-> IF x \in Straddlers(c, freed) THEN NewOwner(x, c) ELSE owner[x]]
      /\ spawned' = spawned \ (freed \cup Straddlers(c, freed))
      /\ mapDir \in Maps
  BY DEF Unload, DropTile, Known, Phased
<1>2. u \in Uid /\ refs[u] = Cardinality(Referrers(u)) /\ refs \in [Uid -> Int] /\ spawned \subseteq Registered
  BY <1>1, DoodadCount DEF Known, Counts, Listing, Exact, Placed
<1>3. ASSUME Stands(u, t) PROVE Stands(u, t)'
  <2>1. u \in Registered /\ owner[u] = t /\ t \in Referrers(u)
    BY <1>3 DEF Stands, Known, Owned, OwnersShowTheirs, Referrers
  <2>2. u \notin Straddlers(c, freed)
    BY <2>1 DEF Straddlers
  <2>3. ASSUME u \in listed[c] PROVE refs[u] > 1
    <3>1. c \in Referrers(u) /\ Referrers(u) # {c}
      BY <2>1, <2>3 DEF Referrers
    <3>2. refs[u] # 1
      <4> SUFFICES ASSUME refs[u] = 1 PROVE FALSE
        OBVIOUS
      <4>1. PICK x : Referrers(u) = {x}
        BY <1>2, TilesAreFinite, FS_Singleton
      <4> QED
        BY <3>1, <4>1
    <3> QED
      BY <1>2, <2>1, <3>2 DEF Registered
  <2>4. u \notin freed
    BY <2>3
  <2>5. owner'[u] = t
    BY <1>1, <1>2, <2>1, <2>2
  <2>6. refs'[u] > 0
    BY <1>1, <1>2, <2>1, <2>3 DEF Registered
  <2>7. u \in spawned'
    BY <1>1, <1>3, <2>2, <2>4 DEF Stands
  <2> QED
    BY <1>2, <1>3, <2>5, <2>6, <2>7 DEF Stands, Registered
<1>4. ASSUME Stands(u, t)' PROVE Stands(u, t)
  <2>1. u \in spawned /\ u \notin Straddlers(c, freed)
    BY <1>1, <1>4 DEF Stands
  <2>2. owner[u] = t
    BY <1>1, <1>2, <1>4, <2>1 DEF Stands
  <2> QED
    BY <1>2, <1>4, <2>1, <2>2 DEF Stands
<1> QED
  BY <1>3, <1>4

LEMMA HulledUnloaded ==
    ASSUME Known, Hulled, NEW c \in Tile, Unload(c)
    PROVE  Hulled'
<1>1. /\ Request({c}) /\ phase = "window" /\ phase' = "await" /\ c \in Stale
      /\ tileBatch' = tileBatch /\ tileHulls' = [tileHulls EXCEPT ![c] = {}]
  BY DEF Unload, DropTile, Request, Farthest
<1>2. c \notin Loaded'
  BY <1>1, AskedAreNew
<1>3. tileHulls'[c] = {} /\ \A t \in Tile \ {c} : tileHulls'[t] = tileHulls[t]
  BY <1>1 DEF Known, Typed, TypeOK
<1>4. HullsOf(c)'
  BY <1>1, <1>2, <1>3 DEF HullsOf, Bring
<1>5. ASSUME NEW t \in Tile \ {c} PROVE HullsOf(t)'
  <2>1. (t \in Loaded' /\ t \notin Loaded => t \notin up) /\ (t \in Loaded => t \in Loaded')
    BY <1>1, AskedAreNew
  <2>2. \A u \in Doodads : Stands(u, t)' <=> Stands(u, t)
    BY StandsUnloaded
  <2>3. CASE t \in Loaded
    BY <1>1, <1>3, <2>1, <2>2, <2>3 DEF Hulled, HullsOf
  <2>4. CASE t \notin Loaded
    <3>1. tileBatch'[t] = {} /\ tileHulls'[t] = {}
      BY <1>1, <1>3, <2>4 DEF Hulled, HullsOf, Bring
    <3>2. ASSUME NEW u \in Doodads, t \in Loaded' PROVE ~Stands(u, t)
      BY <2>1, <2>4, <3>2 DEF Stands, Known, Owned, OwnersShowTheirs
    <3> QED
      BY <2>2, <3>1, <3>2 DEF HullsOf
  <2> QED
    BY <2>3, <2>4
<1> QED
  BY <1>4, <1>5 DEF Hulled

\* What changes none of it for a doodad, and moves the frame no further into or out of
\* the part of it where a batch may be of an unloaded tile.
LEMMA HulledKept ==
    ASSUME Hulled, Loaded' = Loaded, UNCHANGED <<tileBatch, tileHulls>>, phase \in Bring => phase' \in Bring,
           \A u \in Doodads, t \in Tile : Stands(u, t)' <=> Stands(u, t)
    PROVE  Hulled'
BY DEF Hulled, HullsOf

LEMMA HulledFlushed ==
    ASSUME Known, Hulled, FlushHullWelds
    PROVE  Hulled'
<1>1. PICK T \in SUBSET Loaded :
        /\ tileBatch' = [t \in Tile |-> IF t \in Loaded \ T THEN tileBatch[t] ELSE {}]
        /\ tileHulls' = [t \in Tile |-> IF t \in T THEN tileHulls[t] \cup tileBatch[t] ELSE tileHulls[t]]
  BY DEF FlushHullWelds
<1>2. Loaded' = Loaded /\ \A u, t : Stands(u, t)' <=> Stands(u, t)
  BY DEF FlushHullWelds, tileVars, placeVars, Loaded, Stands, Registered
<1>3. ASSUME NEW t \in Tile PROVE HullsOf(t)'
  <2>1. CASE t \in T
    <3>1. tileBatch'[t] = {} /\ tileHulls'[t] = tileHulls[t] \cup tileBatch[t] /\ t \in Loaded
      BY <1>1, <2>1
    <3> QED
      BY <1>2, <3>1 DEF Hulled, HullsOf
  <2>2. CASE t \in Loaded \ T
    <3>1. tileBatch'[t] = tileBatch[t] /\ tileHulls'[t] = tileHulls[t]
      BY <1>1, <2>2
    <3> QED
      BY <1>2, <2>2, <3>1 DEF Hulled, HullsOf
  <2>3. CASE t \notin Loaded
    <3>1. tileBatch'[t] = {} /\ tileHulls'[t] = tileHulls[t]
      BY <1>1, <2>3
    <3> QED
      BY <1>2, <2>3, <3>1 DEF Hulled, HullsOf
  <2> QED
    BY <2>1, <2>2, <2>3
<1> QED
  BY <1>3 DEF Hulled

LEMMA HulledDoodad ==
    ASSUME Known, Hulled, NEW d \in Uid, SpawnDoodad(d)
    PROVE  Hulled'
<1>1. /\ d \in Unspawned \cap Doodads /\ d \notin BadModels /\ spawned' = spawned \cup {d}
      /\ tileBatch' = [tileBatch EXCEPT ![owner[d]] = @ \cup {d}]
      /\ UNCHANGED <<phase, read, refs, owner, tileHulls>>
  BY DEF SpawnDoodad, frameVars, tileVars
<1>2. Loaded' = Loaded /\ Registered' = Registered
  BY <1>1 DEF Loaded, Registered
<1>3. d \in Registered /\ d \notin spawned /\ owner[d] \in Tile /\ owner[d] \in Loaded
  BY <1>1 DEF Unspawned, Known, Owned, OwnersShowTheirs, Reads, Loaded
<1>4. \A u \in Doodads, t \in Tile : Stands(u, t)' <=> Stands(u, t) \/ (u = d /\ t = owner[d])
  BY <1>1, <1>2, <1>3 DEF Stands
<1>5. \A t \in Tile : tileBatch'[t] = IF t = owner[d] THEN tileBatch[t] \cup {d} ELSE tileBatch[t]
  BY <1>1 DEF Known, Typed, TypeOK
<1>6. d \notin tileBatch[owner[d]] \cup tileHulls[owner[d]]
  BY <1>1, <1>3 DEF Hulled, HullsOf, Stands
<1>7. ASSUME NEW t \in Tile PROVE HullsOf(t)'
  <2>1. CASE t = owner[d]
    BY <1>1, <1>2, <1>3, <1>4, <1>5, <1>6, <2>1 DEF Hulled, HullsOf
  <2>2. CASE t # owner[d]
    BY <1>1, <1>2, <1>4, <1>5, <2>2 DEF Hulled, HullsOf
  <2> QED
    BY <2>1, <2>2
<1> QED
  BY <1>7 DEF Hulled

\* What is registered anew has not been spawned.
LEMMA StandsRegistered ==
    ASSUME Known, NEW U, NEW c, Register(U, c)
    PROVE  \A u \in Doodads, t \in Tile : Stands(u, t)' <=> Stands(u, t)
<1>1. /\ refs' = [u \in Uid |-> IF u \in U THEN refs[u] + 1 ELSE refs[u]]
      /\ owner' = [u \in Uid |-> IF u \in U \ Registered THEN c ELSE owner[u]]
      /\ spawned' = spawned
  BY DEF Register
<1>2. spawned \subseteq Registered /\ refs \in [Uid -> Int]
  BY DEF Known, Exact, Placed, Counts, Listing
<1>3. ASSUME NEW u \in spawned PROVE u \in Registered' /\ owner'[u] = owner[u]
  BY <1>1, <1>2, <1>3 DEF Registered
<1> QED
  BY <1>1, <1>2, <1>3 DEF Stands

LEMMA HulledStep == Known /\ Hulled /\ [Next]_vars => Hulled'
<1> SUFFICES ASSUME Known, Hulled, [Next]_vars PROVE Hulled'
  OBVIOUS
<1>1. ASSUME UNCHANGED <<read, refs, spawned, owner, tileBatch, tileHulls>>, phase \in Bring => phase' \in Bring
      PROVE Hulled'
  <2>1. Loaded' = Loaded /\ \A u \in Doodads, t \in Tile : Stands(u, t)' <=> Stands(u, t)
    BY <1>1 DEF Loaded, Stands, Registered
  <2> QED
    BY <1>1, <2>1, HulledKept
<1>2. ASSUME DropStreamedWorld PROVE Hulled'
  <2>1. /\ Loaded' = {} /\ tileBatch' = [t \in Tile |-> {}] /\ tileHulls' = [t \in Tile |-> {}]
    BY <1>2 DEF DropStreamedWorld, Loaded
  <2> QED
    BY <2>1 DEF Hulled, HullsOf
<1>3. CASE Chain
  <2>1. CASE SwapMap
    BY <1>2, <2>1 DEF SwapMap
  <2>2. CASE WatchWdt
    <3>1. UNCHANGED <<read, tileBatch, tileHulls>> /\ phase \notin Bring
      BY <2>2 DEF WatchWdt, tileVars, hullVars, Bring
    <3>2. CASE UNCHANGED placeVars
      BY <1>1, <3>1, <3>2 DEF placeVars
    <3>3. CASE Register(GlobalOf[mapDir], 0)
      <4>1. Loaded' = Loaded
        BY <3>1 DEF Loaded
      <4> QED
        BY <3>1, <3>3, <4>1, StandsRegistered, HulledKept
    <3> QED
      BY <2>2, <3>2, <3>3 DEF WatchWdt
  <2>3. CASE StreamOn
    BY <2>3, HulledRequested
  <2>4. ASSUME NEW c \in Tile, Unload(c) PROVE Hulled'
    BY <2>4, HulledUnloaded
  <2>5. ASSUME NEW t \in Tile, SpawnTile(t) PROVE Hulled'
    <3>1. Register(Lists[mapDir][t], t) /\ UNCHANGED <<phase, read, tileBatch, tileHulls>>
      BY <2>5 DEF SpawnTile, frameVars, hullVars
    <3>2. Loaded' = Loaded
      BY <3>1 DEF Loaded
    <3> QED
      BY <3>1, <3>2, StandsRegistered, HulledKept
  <2>6. CASE AwaitReadsAndAttach
    <3>1. PICK late : read' = [t \in Tile |-> IF t \in InnerReads \ late THEN AdtAnswer(t) ELSE read[t]]
      BY <2>6 DEF AwaitReadsAndAttach
    <3>2. Loaded' = Loaded
      BY <3>1, AnswerIsOne DEF Loaded, InnerReads
    <3>3. UNCHANGED <<refs, spawned, owner, tileBatch, tileHulls>> /\ phase' = "spawn"
      BY <2>6 DEF AwaitReadsAndAttach, placeVars, hullVars
    <3>4. \A u \in Doodads, t \in Tile : Stands(u, t)' <=> Stands(u, t)
      BY <3>3 DEF Stands, Registered
    <3> QED
      BY <3>2, <3>3, <3>4, HulledKept DEF Bring
  <2>7. CASE RetireFailed
    <3>1. /\ UNCHANGED <<read, refs, owner, tileBatch, tileHulls>> /\ phase' = "place"
          /\ spawned' = spawned \cup FailedModels
      BY <2>7 DEF RetireFailed, tileVars, hullVars
    <3>2. Loaded' = Loaded /\ \A u \in Doodads, t \in Tile : Stands(u, t)' <=> Stands(u, t)
      BY <3>1 DEF Loaded, Stands, Registered, FailedModels
    <3> QED
      BY <3>1, <3>2, HulledKept DEF Bring
  <2>8. ASSUME NEW u \in Uid, SpawnDoodad(u) PROVE Hulled'
    BY <2>8, HulledDoodad
  <2>9. ASSUME NEW b \in Uid, SpawnBuilding(b) PROVE Hulled'
    <3>1. /\ UNCHANGED <<phase, read, refs, owner, tileBatch, tileHulls>>
          /\ spawned' = spawned \cup {b} /\ b \in Buildings
      BY <2>9 DEF SpawnBuilding, frameVars, tileVars
    <3>2. \A u \in Doodads : u # b
      BY <3>1, ContentAssumption
    <3>3. Loaded' = Loaded /\ \A u \in Doodads, t \in Tile : Stands(u, t)' <=> Stands(u, t)
      BY <3>1, <3>2 DEF Loaded, Stands, Registered
    <3> QED
      BY <3>1, <3>3, HulledKept
  <2>10. CASE FlushHullWelds
    BY <2>10, HulledFlushed
  <2>11. CASE \/ SkipFrame \/ PublishProgress \/ FurnishCells \/ EndSpawns \/ PublishTerrainResidency
              \/ \E b \in Buildings, p \in Prop : SpawnProp(b, p)
    BY <1>1, <2>11 DEF SkipFrame, PublishProgress, FurnishCells, EndSpawns, PublishTerrainResidency, SpawnProp,
                       frameVars, tileVars, placeVars, hullVars, Bring
  <2> QED
    BY <1>3, <2>1, <2>2, <2>3, <2>4, <2>5, <2>6, <2>7, <2>8, <2>9, <2>10, <2>11 DEF Chain
<1>4. CASE ReleaseWorld
  <2>1. phase \notin Bring
    BY <1>4 DEF ReleaseWorld, Bring
  <2> QED
    BY <1>1, <1>2, <1>4, <2>1 DEF ReleaseWorld, tileVars, placeVars, hullVars
<1>5. CASE Elsewhere
  <2>1. phase' = phase /\ UNCHANGED <<refs, spawned, owner, tileBatch, tileHulls>>
    BY <1>5 DEF Elsewhere, ReadTile, ReadWdt, ReadModel, FreeModel, frameVars, placeVars, hullVars
  <2>2. Loaded' = Loaded
    <3>1. CASE UNCHANGED read
      BY <3>1 DEF Loaded
    <3>2. ASSUME NEW t \in Tile, ReadTile(t) PROVE Loaded' = Loaded
      BY <3>2, AnswerIsOne DEF ReadTile, Loaded, Known, Reads
    <3> QED
      BY <1>5, <3>1, <3>2 DEF Elsewhere, ReadWdt, ReadModel, FreeModel, tileVars
  <2>3. \A u \in Doodads, t \in Tile : Stands(u, t)' <=> Stands(u, t)
    BY <2>1 DEF Stands, Registered
  <2> QED
    BY <2>1, <2>2, <2>3, HulledKept
<1>6. CASE EndFrame \/ OpenWorld \/ CloseWorld \/ UNCHANGED stream \/ \E f, marked : Follow(f, marked)
  BY <1>1, <1>6 DEF EndFrame, OpenWorld, CloseWorld, Follow, stream, tileVars, placeVars, hullVars, Bring
<1> QED
  BY <1>3, <1>4, <1>5, <1>6, StreamSteps

\* A doodad that stands has one hull, in the batch or the weld of the tile that owns it
\* and of no other, through every handover of a straddler and every batch closed or
\* discarded (terrain_stream, handoff_straddlers and flush_hull_welds).
THEOREM OneHullEachHolds == Spec => []OneHullEach
<1>1. Init => Hulled
  <2> SUFFICES ASSUME Init PROVE Hulled
    OBVIOUS
  <2>1. Loaded = {} /\ tileBatch = [t \in Tile |-> {}] /\ tileHulls = [t \in Tile |-> {}]
    BY DEF Init, StreamInit, Loaded
  <2> QED
    BY <2>1 DEF Hulled, HullsOf
<1>2. Hulled => OneHullEach
  BY DEF Hulled, HullsOf, OneHullEach, Stands, Loaded
<1>3. Known /\ Hulled /\ [Next]_vars => (Known /\ Hulled)'
  BY HulledStep, TypedStep, PhasedStep, CountsStep, ExactStep, OwnedStep, ReadsStep DEF Known, Counts
<1>4. Init => Known
  BY Started, TypesStart, ExactStarts, OwnedStarts, GroundStarts DEF Known
<1> QED
  BY <1>1, <1>2, <1>3, <1>4, PTL DEF Spec

-----------------------------------------------------------------------------
(* The ack.                                                                 *)

LEMMA AckStep == AckHasItsHold /\ [Next]_vars => AckHasItsHold'
<1> SUFFICES ASSUME AckHasItsHold, [Next]_vars PROVE AckHasItsHold'
  OBVIOUS
<1>1. ASSUME UNCHANGED <<awaitsAck, owesAck, settling>> PROVE AckHasItsHold'
  BY <1>1 DEF AckHasItsHold
<1>2. ASSUME NEW to, PublishViewFocus(to) PROVE AckHasItsHold'
  <2>1. UNCHANGED <<awaitsAck, owesAck>> /\ (settling => settling')
    BY <1>2 DEF PublishViewFocus
  <2> QED
    BY <2>1 DEF AckHasItsHold
<1>3. ASSUME NEW ceiling, NEW stalled, ReleaseHold(ceiling, stalled) PROVE AckHasItsHold'
  <2>1. CASE UNCHANGED <<settling, worldReload, owesAck, awaitsAck>>
    BY <1>1, <2>1
  <2>2. CASE awaitsAck' = (awaitsAck /\ ~owesAck)
    BY <2>2 DEF AckHasItsHold
  <2> QED
    BY <1>3, <2>1, <2>2 DEF ReleaseHold
<1>4. ASSUME UNCHANGED arrivalVars PROVE AckHasItsHold'
  BY <1>1, <1>4 DEF arrivalVars, holdVars
<1>5. ASSUME Frame PROVE AckHasItsHold'
  BY <1>2, <1>3, <1>4, <1>5 DEF Frame
<1>6. ASSUME NEW m, NEW s, Enter(m, s) PROVE AckHasItsHold'
  BY <1>1, <1>6 DEF Enter, holdVars
<1>7. ASSUME NEW m, NEW s, Worldport(m, s) PROVE AckHasItsHold'
  BY <1>7 DEF Worldport, AckHasItsHold
<1>8. ASSUME NEW m, NEW s, WorldportRiding(m, s) PROVE AckHasItsHold'
  BY <1>1, <1>8 DEF WorldportRiding
<1>9. ASSUME LoginVerified \/ Seize \/ \E s : Teleport(s) PROVE AckHasItsHold'
  <2>1. settling' = TRUE /\ UNCHANGED <<awaitsAck, owesAck>>
    BY <1>9 DEF LoginVerified, Seize, Teleport
  <2> QED
    BY <2>1 DEF AckHasItsHold
<1>10. ASSUME EndSession PROVE AckHasItsHold'
  BY <1>10 DEF EndSession, AckHasItsHold
<1>11. ASSUME LeaveWorld \/ EndCinematic \/ AbandonCinematic \/ \E c : OpenShot(c) \/ Glide(c) PROVE AckHasItsHold'
  BY <1>1, <1>11 DEF LeaveWorld, EndCinematic, AbandonCinematic, OpenShot, Glide, holdVars
<1>12. ASSUME UNCHANGED vars PROVE AckHasItsHold'
  BY <1>4, <1>12 DEF vars
<1> QED
  BY <1>4, <1>5, <1>6, <1>7, <1>8, <1>9, <1>10, <1>11, <1>12 DEF Next

\* A transfer the server waits on is owed its ack and still held for: every end of a
\* hold sends the ack it owes (world_focus.rs, release_post_snap_hold).
THEOREM AckHasItsHoldHolds == Spec => []AckHasItsHold
<1>1. Init => AckHasItsHold
  BY DEF Init, AckHasItsHold
<1> QED
  BY <1>1, AckStep, PTL DEF Spec

-----------------------------------------------------------------------------
(* The ground a body is let go on.  A held body's frames are unpaced, so    *)
(* every one of them plans, publishes the load's facts and says of the      *)
(* focus tile itself whether it is in; a frame that found nothing waiting   *)
(* for a collider added none to a tile that was whole when it began.        *)

Between == {"input", "release"}

AuthoredHere(t) == wdt = "ok" => t \in Authored[mapDir]

\* What the frame was told to stream, and what it planned.
Aimed ==
  /\ phase \notin Between => focus.map = curMap /\ (settling => ~focus.paced)
  /\ phase \notin Between \cup {"stream"} => mapDir = focus.map
  /\ phase \in {"await", "spawn"} =>
       /\ ~focus.paced => plan # {}
       /\ \A p \in plan : WdtAnswered /\ AuthoredHere(FocusTile) => FocusTile \in p.desired

\* A tile is whole with its collider on, failed, or is none of the map's.
Footing(t) ==
  \/ t \in furnished /\ TileCollider(t) \notin colliders
  \/ read[t] = "failed"
  \/ wdt = "ok" /\ t \notin Authored[mapDir]

\* Its ground is in, and in the world query.
Grounded(t) ==
  \/ t \in furnished \cap residency
  \/ read[t] = "failed"
  \/ wdt = "ok" /\ t \notin Authored[mapDir]

Spawning == {"furnish", "retire", "place", "weld", "publish"}

Footed ==
  /\ phase = "spawn" /\ ~progress.backlog => \A t \in furnished : TileCollider(t) \notin colliders
  /\ phase \in Spawning /\ ~focus.paced /\ Presentable => Footing(progress.tile)
  /\ phase = "present" /\ ~focus.paced /\ Presentable => Grounded(progress.tile)

Fielded == {"tile", "scene", "backlog", "complete"} \subseteq DOMAIN progress

\* A window spans its own centre.
LEMMA WantsItsFocus == ASSUME NEW c \in Chunk PROVE TileOf(c) \in WantedTiles(c)
<1>1. LastTile \in Nat /\ ChunksPerTile \in Nat \ {0} /\ OuterHalf \in Nat
  BY StripAssumption
<1>2. (LastTile + 1) * ChunksPerTile \in Nat /\ c \in Nat /\ c < (LastTile + 1) * ChunksPerTile
  BY <1>1 DEF Chunk
<1>3. Clamp(c - OuterHalf) \in Nat /\ Clamp(c - OuterHalf) <= c
  BY <1>1, <1>2 DEF Clamp, Chunk
<1>4. Clamp(c + OuterHalf) \in Nat /\ c <= Clamp(c + OuterHalf)
  BY <1>1, <1>2 DEF Clamp, Chunk
<1>5. TileOf(Clamp(c - OuterHalf)) <= TileOf(c) /\ TileOf(c) <= TileOf(Clamp(c + OuterHalf))
  BY <1>2, <1>3, <1>4, TilesInOrder
<1>6. TileOf(c) \in Int
  BY <1>2, TilesInOrder
<1> QED
  BY <1>5, <1>6 DEF WantedTiles, TileSpan

\* A step of the frame's chain; one that leaves the frame or comes between frames;
\* or control's, which begins one.
LEMMA FrameSteps ==
    ASSUME [Next]_vars
    PROVE  \/ Chain /\ UNCHANGED arrivalVars
           \/ UNCHANGED vars
           \/ phase' \in Between
           \/ \E to : PublishViewFocus(to)
<1>1. ASSUME Elsewhere \/ ReleaseWorld \/ EndFrame \/ OpenWorld \/ CloseWorld PROVE phase' \in Between
  BY <1>1 DEF Elsewhere, ReadTile, ReadWdt, ReadModel, FreeModel, ReleaseWorld, EndFrame, OpenWorld, CloseWorld,
              frameVars, Between
<1>2. ASSUME phase = "input", UNCHANGED streamVars \/ UNCHANGED stream PROVE phase' \in Between
  BY <1>2 DEF streamVars, frameVars, stream, Between
<1>3. ASSUME Frame
      PROVE  (Chain /\ UNCHANGED arrivalVars) \/ phase' \in Between \/ \E to : PublishViewFocus(to)
  BY <1>1, <1>3 DEF Frame, ReleaseHold
<1>4. ASSUME NEW m, NEW s, Enter(m, s) \/ Worldport(m, s) \/ WorldportRiding(m, s) PROVE phase' \in Between
  BY <1>1, <1>2, <1>4 DEF Enter, Worldport, WorldportRiding, Event
<1>5. ASSUME \/ LoginVerified \/ Seize \/ EndSession \/ LeaveWorld
             \/ EndCinematic \/ AbandonCinematic \/ \E c : Teleport(c) \/ OpenShot(c) \/ Glide(c)
      PROVE  phase' \in Between
  BY <1>1, <1>2, <1>5 DEF LoginVerified, Seize, EndSession, LeaveWorld, Teleport, EndCinematic, AbandonCinematic, OpenShot, Glide, Event
<1> QED
  BY <1>1, <1>3, <1>4, <1>5 DEF Next

LEMMA FieldedStep == Fielded /\ [Next]_vars => Fielded'
<1> SUFFICES ASSUME Fielded, [Next]_vars PROVE Fielded'
  OBVIOUS
<1>1. CASE Chain
  <2>1. CASE AwaitReadsAndAttach
    BY <2>1 DEF AwaitReadsAndAttach, Fielded
  <2>2. CASE PublishProgress
    BY <2>2 DEF PublishProgress, Published, Fielded
  <2>3. ASSUME ~AwaitReadsAndAttach, ~PublishProgress PROVE progress' = progress
    BY <1>1, <2>3 DEF Chain, SwapMap, WatchWdt, SkipFrame, StreamOn, Unload, Request, SpawnTile, FurnishCells,
                      RetireFailed, SpawnDoodad, SpawnBuilding, SpawnProp, EndSpawns, FlushHullWelds,
                      PublishTerrainResidency, loadVars
  <2> QED
    BY <2>1, <2>2, <2>3 DEF Fielded
<1>2. CASE ReleaseWorld
  BY <1>2 DEF ReleaseWorld, NoProgress, loadVars, Fielded
<1>3. ASSUME \/ Elsewhere \/ EndFrame \/ OpenWorld \/ CloseWorld \/ UNCHANGED stream
             \/ \E f, marked : Follow(f, marked)
      PROVE  progress' = progress
  BY <1>3 DEF Elsewhere, ReadTile, ReadWdt, ReadModel, FreeModel, EndFrame, OpenWorld, CloseWorld, Follow, stream,
              loadVars
<1> QED
  BY <1>1, <1>2, <1>3, StreamSteps DEF Fielded

\* A window's requests plan for the focus tile the map authors, around the focus.
LEMMA AimedRequested ==
    ASSUME Typed, Aimed, phase = "window", NEW drop, Request(drop)
    PROVE  /\ plan' # {}
           /\ \A p \in plan' : WdtAnswered' /\ AuthoredHere(FocusTile)' => FocusTile' \in p.desired
<1>1. window' = focus.chunk /\ wdt' = wdt /\ mapDir' = mapDir /\ plan' # {}
  BY DEF Request, mapVars
<1>2. \A p \in plan' : p.desired = DesiredTiles
  BY DEF Request
<1>3. TileOf(focus.chunk) \in WantedTiles(focus.chunk)
  BY WantsItsFocus DEF Typed, TypeOK, Focuses
<1>4. FocusTile' = TileOf(focus.chunk)
  BY <1>1 DEF FocusTile, TileOf
<1> QED
  BY <1>1, <1>2, <1>3, <1>4 DEF DesiredTiles, AuthoredHere

LEMMA AimedStep == Typed /\ Planned /\ Aimed /\ [Next]_vars => Aimed'
<1> SUFFICES ASSUME Typed, Planned, Aimed, [Next]_vars PROVE Aimed'
  OBVIOUS
<1>1. CASE Chain /\ UNCHANGED arrivalVars
  <2>1. settling' = settling /\ curMap' = curMap
    BY <1>1 DEF arrivalVars, bodyVars, holdVars
  <2>2. ASSUME UNCHANGED <<focus, mapDir, wdt, window, plan>>, phase \notin Between \cup {"stream"},
               phase' \in {"await", "spawn"} => phase \in {"await", "spawn"}
        PROVE  Aimed'
    BY <2>1, <2>2 DEF Aimed, AuthoredHere, WdtAnswered, FocusTile
  <2>3. CASE SwapMap
    <3>1. /\ phase = "stream" /\ phase' = "await" /\ focus' = focus /\ mapDir' = focus.map
          /\ wdt' = "loading" /\ plan' # {}
      BY <2>3 DEF SwapMap
    <3> QED
      BY <2>1, <3>1 DEF Aimed, Between, WdtAnswered
  <2>4. CASE WatchWdt
    <3>1. phase = "stream" /\ phase' = "window" /\ focus' = focus /\ mapDir' = mapDir /\ focus.map = mapDir
      BY <2>4 DEF WatchWdt
    <3> QED
      BY <2>1, <3>1 DEF Aimed, Between
  <2>5. CASE SkipFrame
    <3>1. /\ phase = "window" /\ phase' = "await" /\ focus.paced
          /\ UNCHANGED <<focus, mapDir, plan>>
      BY <2>5 DEF SkipFrame, Idle, mapVars
    <3>2. plan = {}
      BY <3>1 DEF Planned
    <3> QED
      BY <2>1, <3>1, <3>2 DEF Aimed, Between
  <2>6. CASE StreamOn \/ \E c \in Tile : Unload(c)
    <3>1. PICK drop : Request(drop)
      BY <2>6 DEF StreamOn, Unload
    <3>2. phase = "window" /\ phase' = "await" /\ focus' = focus /\ mapDir' = mapDir
      BY <2>6 DEF StreamOn, Unload, Request, mapVars
    <3>3. /\ plan' # {}
          /\ \A p \in plan' : WdtAnswered' /\ AuthoredHere(FocusTile)' => FocusTile' \in p.desired
      BY <3>1, <3>2, AimedRequested
    <3> QED
      BY <2>1, <3>2, <3>3 DEF Aimed, Between
  <2>7. ASSUME \/ AwaitReadsAndAttach \/ RetireFailed \/ EndSpawns \/ FlushHullWelds \/ PublishTerrainResidency
               \/ FurnishCells
               \/ \E t \in Tile : SpawnTile(t)
               \/ \E u \in Uid : SpawnDoodad(u) \/ SpawnBuilding(u)
               \/ \E b \in Buildings, p \in Prop : SpawnProp(b, p)
        PROVE  /\ UNCHANGED <<focus, mapDir, wdt, window, plan>> /\ phase \notin Between \cup {"stream"}
               /\ phase' \in {"await", "spawn"} => phase \in {"await", "spawn"}
    BY <2>7 DEF AwaitReadsAndAttach, RetireFailed, EndSpawns, FlushHullWelds, PublishTerrainResidency, FurnishCells,
                SpawnTile, SpawnDoodad, SpawnBuilding, SpawnProp, frameVars, mapVars, planVars, Between
  <2>8. CASE PublishProgress
    <3>1. phase = "spawn" /\ phase' = "furnish" /\ focus' = focus /\ mapDir' = mapDir
      BY <2>8 DEF PublishProgress, mapVars
    <3> QED
      BY <2>1, <3>1 DEF Aimed, Between
  <2> QED
    BY <1>1, <2>2, <2>3, <2>4, <2>5, <2>6, <2>7, <2>8 DEF Chain
<1>2. CASE UNCHANGED vars
  <2>1. UNCHANGED <<phase, focus, curMap, settling, mapDir, wdt, window, plan>>
    BY <1>2 DEF vars, streamVars, frameVars, mapVars, planVars, arrivalVars, bodyVars, holdVars
  <2> QED
    BY <2>1 DEF Aimed, AuthoredHere, WdtAnswered, FocusTile
<1>3. CASE phase' \in Between
  BY <1>3 DEF Aimed, Between
<1>4. ASSUME NEW to, PublishViewFocus(to) PROVE Aimed'
  <2>1. /\ phase' = "stream" /\ curMap' = curMap /\ focus'.map = curMap
        /\ settling' => ~focus'.paced
    BY <1>4 DEF PublishViewFocus, Follow
  <2> QED
    BY <2>1 DEF Aimed
<1> QED
  BY <1>1, <1>2, <1>3, <1>4, FrameSteps

\* Nothing takes the ground from under a tile between the load's facts and the
\* residency.
LEMMA FootedAlong ==
    ASSUME Footed, UNCHANGED <<progress, focus, read, wdt, mapDir>>,
           phase \in Spawning, phase' \in Spawning, furnished \subseteq furnished',
           \A t : TileCollider(t) \in colliders' => TileCollider(t) \in colliders
    PROVE  Footed'
<1>1. phase' \notin {"spawn", "present"}
  BY DEF Spawning
<1>2. Footing(progress.tile) => Footing(progress.tile)'
  BY DEF Footing, TileCollider
<1> QED
  BY <1>1, <1>2 DEF Footed, Presentable

\* The load's facts of an unpaced frame: a scene that is in has its focus tile.
LEMMA FootedPublished ==
    ASSUME Aimed, Fielded, Footed, PublishProgress
    PROVE  Footed'
<1>1. /\ phase = "spawn" /\ phase' = "furnish"
      /\ UNCHANGED <<focus, mapDir, wdt, window, read, up, furnished, colliders>>
  BY DEF PublishProgress, mapVars, tileVars
<1>2. ASSUME ~focus.paced, Presentable' PROVE Footing(progress.tile)'
  <2>1. PICK p \in plan : progress' = Published(p.desired)
    BY <1>1, <1>2 DEF PublishProgress, Aimed
  <2>2. progress'.tile = FocusTile /\ progress'.backlog = progress.backlog
    BY <2>1 DEF Published, Fielded
  <2>3. FocusResident(p.desired)
    <3>1. CASE progress.complete /\ ~LoadRearmed(p.desired)
      BY <3>1 DEF LoadRearmed
    <3>2. CASE ~(progress.complete /\ ~LoadRearmed(p.desired))
      BY <1>2, <2>1, <3>2 DEF Published, Fielded, Presentable, SceneReady
    <3> QED
      BY <3>1, <3>2
  <2>4. TileDone(FocusTile) \/ (wdt = "ok" /\ FocusTile \notin Authored[mapDir])
    BY <1>1, <2>3 DEF FocusResident, Aimed, AuthoredHere
  <2>5. FocusTile \in furnished => TileCollider(FocusTile) \notin colliders
    BY <1>1, <1>2, <2>2 DEF Footed, Presentable
  <2> QED
    BY <1>1, <2>2, <2>4, <2>5 DEF Footing, TileDone, TileCollider
<1> QED
  BY <1>1, <1>2 DEF Footed, Spawning

LEMMA FootedStep == Reads /\ Aimed /\ Fielded /\ Footed /\ [Next]_vars => Footed'
<1> SUFFICES ASSUME Reads, Aimed, Fielded, Footed, [Next]_vars PROVE Footed'
  OBVIOUS
<1>1. CASE Chain /\ UNCHANGED arrivalVars
  <2>1. CASE SwapMap \/ WatchWdt \/ SkipFrame \/ StreamOn \/ \E c \in Tile : Unload(c)
    <3>1. phase' \in {"window", "await"}
      BY <2>1 DEF SwapMap, WatchWdt, SkipFrame, StreamOn, Unload, Request
    <3> QED
      BY <3>1 DEF Footed, Spawning
  <2>2. CASE AwaitReadsAndAttach
    <3>1. phase' = "spawn" /\ progress' = [progress EXCEPT !.backlog = colliders # {} \/ WeldBacklog]
      BY <2>2 DEF AwaitReadsAndAttach
    <3>2. colliders = {} => colliders' = {}
      BY <2>2 DEF AwaitReadsAndAttach
    <3>3. ~progress'.backlog => colliders' = {}
      BY <3>1, <3>2 DEF Fielded
    <3> QED
      BY <3>1, <3>3 DEF Footed, Spawning
  <2>3. ASSUME NEW t \in Tile, SpawnTile(t) PROVE Footed'
    <3>1. /\ phase = "spawn" /\ phase' = phase /\ UNCHANGED <<progress, furnished>>
          /\ colliders' = colliders \cup {TileCollider(t)} /\ t \notin up
      BY <2>3 DEF SpawnTile, frameVars, Landed, Nearest
    <3>2. \A f \in furnished : TileCollider(f) # TileCollider(t)
      BY <3>1 DEF Reads, TileCollider
    <3>3. ~progress.backlog => \A f \in furnished : TileCollider(f) \notin colliders'
      BY <3>1, <3>2 DEF Footed
    <3> QED
      BY <3>1, <3>3 DEF Footed, Spawning, TileCollider
  <2>4. CASE FurnishCells
    <3>1. /\ UNCHANGED <<progress, focus, read, wdt, mapDir>> /\ furnished \subseteq furnished'
          /\ phase = "furnish" /\ phase' = "retire"
          /\ colliders' = colliders \ {TileCollider(t) : t \in inner}
      BY <2>4 DEF FurnishCells, mapVars
    <3>2. \A t : TileCollider(t) \in colliders' => TileCollider(t) \in colliders
      BY <3>1
    <3> QED
      BY <3>1, <3>2, FootedAlong DEF Spawning
  <2>5. CASE \/ RetireFailed \/ EndSpawns \/ \E u \in Uid : SpawnDoodad(u)
             \/ \E b \in Buildings, p \in Prop : SpawnProp(b, p)
    <3>1. /\ UNCHANGED <<progress, focus, read, wdt, mapDir, furnished, colliders>>
          /\ phase \in Spawning /\ phase' \in Spawning
      BY <2>5 DEF RetireFailed, EndSpawns, SpawnDoodad, SpawnProp, frameVars, mapVars, tileVars, loadVars, Spawning
    <3> QED
      BY <3>1, FootedAlong
  <2>6. ASSUME NEW u \in Uid, SpawnBuilding(u) PROVE Footed'
    <3>1. /\ UNCHANGED <<progress, focus, read, wdt, mapDir, furnished>>
          /\ phase \in Spawning /\ phase' \in Spawning
          /\ colliders' = colliders \cup {BuildingCollider(u)}
      BY <2>6 DEF SpawnBuilding, frameVars, mapVars, tileVars, Spawning
    <3>2. \A t : TileCollider(t) \in colliders' => TileCollider(t) \in colliders
      BY <3>1 DEF TileCollider, BuildingCollider
    <3> QED
      BY <3>1, <3>2, FootedAlong
  <2>7. CASE FlushHullWelds
    <3>1. /\ UNCHANGED <<progress, focus, read, wdt, mapDir, furnished>>
          /\ phase \in Spawning /\ phase' \in Spawning
      BY <2>7 DEF FlushHullWelds, mapVars, tileVars, Spawning
    <3>2. PICK T, B : colliders' = colliders \cup {WeldCollider(t) : t \in T} \cup {PropsCollider(b) : b \in B}
      BY <2>7 DEF FlushHullWelds
    <3>3. \A t : TileCollider(t) \in colliders' => TileCollider(t) \in colliders
      BY <3>2 DEF TileCollider, WeldCollider, PropsCollider
    <3> QED
      BY <3>1, <3>3, FootedAlong
  <2>8. CASE PublishTerrainResidency
    <3>1. /\ phase = "publish" /\ phase' = "present" /\ residency' = SolidTiles
          /\ UNCHANGED <<progress, focus, read, wdt, mapDir, furnished>>
      BY <2>8 DEF PublishTerrainResidency, mapVars, tileVars
    <3>2. Footing(progress.tile) => Grounded(progress.tile)'
      <4>1. ASSUME NEW t \in furnished, TileCollider(t) \notin colliders PROVE t \in residency'
        <5>1. t \in Tile /\ t \in up /\ read[t] = "ok"
          BY <4>1 DEF Reads
        <5> QED
          BY <3>1, <4>1, <5>1 DEF SolidTiles, Loaded
      <4> QED
        BY <3>1, <4>1 DEF Footing, Grounded
    <3> QED
      BY <3>1, <3>2 DEF Footed, Spawning, Presentable
  <2> QED
    BY <1>1, <2>1, <2>2, <2>3, <2>4, <2>5, <2>6, <2>7, <2>8, FootedPublished DEF Chain
<1>2. CASE UNCHANGED vars
  <2>1. UNCHANGED <<phase, focus, mapDir, wdt, read, furnished, colliders, progress, residency>>
    BY <1>2 DEF vars, streamVars, frameVars, mapVars, tileVars, loadVars
  <2> QED
    BY <2>1 DEF Footed, Footing, Grounded, Presentable, TileCollider
<1>3. CASE phase' \in Between \/ \E to : PublishViewFocus(to)
  <2>1. phase' \in {"input", "release", "stream"}
    BY <1>3 DEF PublishViewFocus, Follow, Between
  <2> QED
    BY <2>1 DEF Footed, Spawning
<1> QED
  BY <1>1, <1>2, <1>3, FrameSteps

\* A body is let go as arrived only on its own map and ground, for every strip, window,
\* content and flight (world_focus.rs, release_post_snap_hold).
THEOREM ArrivedOnOwnGroundHolds == Spec => ArrivedOnOwnGround
<1>1. Init => Planned /\ Held /\ Aimed /\ Fielded /\ Footed
  BY DEF Init, StreamInit, Planned, Held, WdtAnswered, NoProgress, Aimed, Fielded, Footed, Between, Spawning
<1>2. ASSUME Aimed, Footed, phase = "present", settling, Arrived PROVE OwnGround(pos)
  <2>1. mapDir = curMap /\ ~focus.paced
    BY <1>2 DEF Aimed, Between
  <2>2. Grounded(TileOf(pos))
    BY <1>2, <2>1 DEF Arrived, Footed
  <2> QED
    BY <2>1, <2>2 DEF Grounded, OwnGround
<1>3. Aimed /\ Footed /\ [Next]_vars
        => [phase = "present" /\ settling /\ ~settling' /\ Arrived => OwnGround(pos)]_vars
  BY <1>2
<1> QED
  BY <1>1, <1>3, TypesStart, TypedStep, ExactStarts, ExactStep, CountsHold, GroundStarts, ReadsStep, HeldStep,
     AimedStep, FieldedStep, FootedStep, PTL DEF Spec, ArrivedOnOwnGround

=============================================================================
