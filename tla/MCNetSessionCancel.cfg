SPECIFICATION Spec
CONSTANTS
  MaxLinks = 1
  MaxPresses = 2
  RealmKnown = TRUE
  Presses = {"Login", "Cancel"}
  Races = {}
INVARIANT NoLogonLeftWaiting
