SPECIFICATION Spec
CONSTANTS
  NoId = NoId
  NoKey = NoKey
  ActiveMs = 1
  OrphanMs = 1
  RaceMs = 0
  WaitCapMs = 3
  GuardCorrMs = 1
  Dup = 2
  Reread = 2
  Retry = 2
  Storm = 2
  StormGapMs = 0
  MaxEvents = 3
  MaxCalls = 1
  MaxUsage = 1
  MaxNow = 2
  MaxFaults = 1
INVARIANTS
  RowsMatchDrillDown
  NoHoleUnlessMissed
  HistoryKept
CHECK_DEADLOCK FALSE
