SPECIFICATION Spec
CONSTANTS
  MaxLinks = 2
  MaxPresses = 4
  RealmKnown = TRUE
  Presses = {"Login", "Cancel", "Dismiss", "Back", "ShowRealms", "Refresh", "CloseList", "PickRealm", "EnterWorld"}
  Races = {"pick", "auth"}
INVARIANT TypeOK
INVARIANT NoStaleSessionBehindLogin
PROPERTY KeepsProtocol
PROPERTY KeptPickEnds
