SPECIFICATION Spec
CONSTANTS
  MaxLinks = 1
  MaxPresses = 2
  RealmKnown = TRUE
  Presses = {"Login", "EnterWorld"}
  Races = {"pick"}
INVARIANT PickEndsWithItsWorld
