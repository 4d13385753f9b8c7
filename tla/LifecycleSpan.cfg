SPECIFICATION FairSpec
CONSTANTS
  Procs = {p1, p2}
  NoProc = NoProc
  MaxEvents = 3
  MaxOpen = 1
INVARIANTS
  LossNeedsOutdatedSeed
PROPERTIES
  NoZombie
  EveryStopEnds
CHECK_DEADLOCK FALSE
