SPECIFICATION FairSpec
CONSTANTS
  Keys = {k1}
  NoKey = NoKey
  Sizes = {1}
  QMaxBytes = 2
  BatchRows = 2
  DedupMax = 1
  MaxEvents = 3
  MaxPosts = 2
  MaxReading = 1
  MaxBoots = 2
INVARIANTS
  SeqIsFreePrimaryKey
  CleanStopLeavesNothingQueued
PROPERTIES
  RowsArriveInSeqOrder
  EveryEventLeavesMemory
CHECK_DEADLOCK FALSE
