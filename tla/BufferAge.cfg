CONSTANTS
  MaxRecs = 3
  Size <- MCSize
  MaxSize = 3
  SegSize = 2
  MaxAge = 2
  RollAge = 1
  MaxNow = 4
  MaxSegID = 3
  Faults = {"rot"}
SPECIFICATION Spec
INVARIANTS DropCountExact
PROPERTIES OldestFirst
