SPECIFICATION Spec
CONSTANTS
  Keys = {k1, k2}
  NoKey = NoKey
  Sizes = {1, 2}
  QMaxBytes = 3
  BatchRows = 3
  DedupMax = 1
  MaxEvents = 3
  MaxPosts = 3
  MaxReading = 2
  MaxBoots = 1
SYMMETRY KeySymmetry
INVARIANTS
  TypeOK
  QueueBounded
  ByteBudgetKept
  NothingLostUncounted
  CountersAddUp
  DedupMapSound
PROPERTIES
  StreamedInSeqOrder
CHECK_DEADLOCK FALSE
