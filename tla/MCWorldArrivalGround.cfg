SPECIFICATION FairSpec
CONSTANTS
  LastTile = 2
  ChunksPerTile = 2
  InnerHalf = 1
  OuterHalf = 2
  KeepBand = 1
  Maps = {"strip", "hall"}
  NoMap = "none"
  Authored <- MCAuthored
  Unreadable <- MCUnreadable
  WdtAnswers <- MCWdtAnswers
  Lists <- MCLists
  GlobalOf <- MCGlobalOf
  Doodads = {"tree"}
  Buildings = {"inn", "dungeon"}
  Props <- MCProps
  GroundOf <- MCGroundLost
  BadModels = {}
  Spots <- MCSpots
  Walkable <- MCWalkable
  Flown <- MCFlown
  MaxEvents = 1
PROPERTY LoadArrives
CHECK_DEADLOCK FALSE
