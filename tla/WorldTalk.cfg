SPECIFICATION FairSpec
CONSTANTS
  Names = {"ann"}
  Templates = {"wolf"}
  MaxMoves = 1
  MaxActs = 4
INVARIANT TypeOK
INVARIANT NamesAreFresh
INVARIANT NameAskIsOut
INVARIANT PendingIsOwed
INVARIANT CountdownIsShown
PROPERTY LogoutEnds
PROPERTY NamesAreAnswered
CHECK_DEADLOCK FALSE
