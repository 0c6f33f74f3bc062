SPECIFICATION Spec
CONSTANTS
  LastTile = 2
  ChunksPerTile = 2
  InnerHalf = 1
  OuterHalf = 2
  KeepBand = 1
  Maps = {"strip"}
  NoMap = "none"
  Authored <- MCAuthored
  Unreadable <- MCUnreadable
  WdtAnswers <- MCWdtAnswers
  Lists <- MCListsFirst
  GlobalOf <- MCGlobalOf
  Doodads = {}
  Buildings = {"inn"}
  Props <- MCNoProps
  GroundOf <- MCNoGround
  BadModels = {}
  Spots <- MCSpots
  Walkable <- MCWalkable
  Flown <- MCAlong
  MaxEvents = 2
PROPERTY ReleasedOntoItsGround
CHECK_DEADLOCK FALSE
