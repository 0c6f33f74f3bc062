SPECIFICATION Spec
CONSTANTS
  LastTile = 2
  ChunksPerTile = 2
  InnerHalf = 1
  OuterHalf = 2
  KeepBand = 1
  Maps = {"strip", "hall"}
  NoMap = "none"
  Authored <- MCAuthored
  Unreadable <- MCUnreadable
  WdtAnswers <- MCWdtAnswers
  Lists <- MCLists
  GlobalOf <- MCGlobalOf
  Doodads = {"tree"}
  Buildings = {"inn", "dungeon"}
  Props <- MCProps
  GroundOf <- MCGround
  BadModels = {"inn"}
  Spots <- MCSpots
  Walkable <- MCWalkable
  Flown <- MCFlown
  MaxEvents = 2
INVARIANT TypeOK
INVARIANT RefsAreReferrers
INVARIANT PendingIsExact
INVARIANT OwnersShowTheirs
INVARIANT OneHullEach
INVARIANT ResidentIsSolid
INVARIANT HeldIsSolid
INVARIANT AckHasItsHold
PROPERTY ArrivedOnOwnGround
CHECK_DEADLOCK FALSE
