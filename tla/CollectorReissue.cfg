SPECIFICATION Spec
CONSTANTS
  Keys = {k1}
  NoKey = NoKey
  Sizes = {1}
  QMaxBytes = 2
  BatchRows = 2
  DedupMax = 1
  MaxEvents = 3
  MaxPosts = 3
  MaxReading = 1
  MaxBoots = 2
INVARIANTS
  SeqNeverReissued
CHECK_DEADLOCK FALSE
