SPECIFICATION FairSpec
CONSTANTS
  Clients = {c1}
  Readers = {c1}
  Kinds = {a, b}
  All = All
  NoCursor = NoCursor
  Sizes = {1, 2}
  RingMaxBytes = 3
  SubMaxItems = 2
  SubMaxBytes = 3
  MaxSeq = 3
  MaxBoots = 2
INVARIANTS
  TypeOK
  BuffersKept
  LossAnnouncedInPlace
  DropCountsAreExact
PROPERTIES
  QueuedEventsLeave
  IsAFeed
CHECK_DEADLOCK FALSE
