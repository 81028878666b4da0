CONSTANTS
  MaxRecs = 3
  Size <- MCSize
  MaxSize = 4
  SegSize = 2
  MaxAge = 2
  RollAge = 1
  MaxNow = 0
  MaxSegID = 2
  Faults = {"power", "io"}
SPECIFICATION Spec
INVARIANTS QueueInv
PROPERTIES KeepsPromise
