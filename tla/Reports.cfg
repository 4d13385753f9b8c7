SPECIFICATION SpecAll
CONSTANTS
  AnyApp = AnyApp
  NoOffset = NoOffset
  Pricing <- MCPricing
  MegaTurns = 2
  MegaCtx = 12
  CompactFloor = 5
  Caps = {2, 4}
  MaxStored = 4
  MaxSessions = 3
  MaxUsage = 2
  MaxCustom = 3
  NoCall = NoCall
  MaxMessages = 2
  MaxTools = 1
  MaxSteps = 1
  MaxImports = 3
  MaxReported = 1
  NoId = NoId
  NoKey = NoKey
  ActiveMs = 2
  OrphanMs = 2
  RaceMs = 1
  WaitCapMs = 3
  GuardCorrMs = 1
  Dup = 2
  Reread = 2
  Retry = 2
  Storm = 2
  StormGapMs = 0
  MaxRows = 5
  MaxLane = 4
INVARIANTS
  TurnsAreLoops
  TimeSplitSound
  ChargedOnce
  FlagsAsDocumented
  ListedOnce
  ViewsAgree
  ImportedOnce
PROPERTIES
  AnsweredTurnsAreFinal
CHECK_DEADLOCK FALSE
