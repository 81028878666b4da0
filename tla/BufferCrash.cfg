CONSTANTS
  MaxRecs = 4
  Size <- MCSize
  MaxSize = 4
  SegSize = 2
  MaxAge = 2
  RollAge = 1
  MaxNow = 0
  MaxSegID = 3
  Faults = {"io", "unlink"}
SPECIFICATION Spec
INVARIANTS NoSilentLoss NothingStranded WithinBudget
PROPERTIES AckNeverMovesBack
