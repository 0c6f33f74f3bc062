SPECIFICATION Spec
CONSTANTS
  MaxLinks = 1
  MaxPresses = 1
  RealmKnown = TRUE
  Presses = {"Login"}
  Races = {"auth"}
PROPERTY LostIsLastWord
