SPECIFICATION Spec
CONSTANTS
  Names = {}
  Templates = {"wolf"}
  MaxMoves = 0
  MaxActs = 3
INVARIANT AskIsOut
CHECK_DEADLOCK FALSE
