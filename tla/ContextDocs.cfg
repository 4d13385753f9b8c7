SPECIFICATION SpecAll
CONSTANTS
  Sessions = {s1, s2}
  Docs = {d1}
  HubDocs = {d1}
  Index = Index
  Nothing = Nothing
  MaxDocs = 2
  BudgetDocs = 1
  Ttl = 2
  IndexTtl = 1
  MaxVersion = 2
  MaxPrompts = 3
  MaxNow = 3
  MaxFaults = 1
  DefaultBudget = 4
  HardCap = 5
  Sep = 1
  MinKeep = 3
  Documents = {d1, d2}
  Keywords = {k1, k2}
  MaxEntries = 2
  MaxIndexed = 3
  MaxTexts = 3
INVARIANTS
  ConfirmedIsInjected
  NotTwiceWithinTtl
  InjectsAsConfigured
SYMMETRY SessionsAreAlike
CHECK_DEADLOCK FALSE
