SPECIFICATION FairSpec
CONSTANTS
  MaxLinks = 3
  MaxPresses = 4
  RealmKnown = TRUE
  Presses = {"Login", "Dismiss", "EnterWorld", "ShowRealms", "Refresh", "PickRealm"}
  Races = {}
INVARIANT NoDialogLeftWaiting
INVARIANT LinkFlagIsTrue
INVARIANT ParkedSessionIsKnown
INVARIANT WorldIsStreamed
PROPERTY PlayOfThisLink
PROPERTY PlayAfterReturn
PROPERTY LostIsLastWord
PROPERTY WaitsEnd
