SPECIFICATION Spec
CONSTANTS
  Sessions = {s1, s2}
  Docs = {d1, d2}
  HubDocs = {d1}
  Index = Index
  Nothing = Nothing
  MaxDocs = 2
  BudgetDocs = 1
  Ttl = 2
  IndexTtl = 1
  MaxVersion = 2
  MaxPrompts = 2
  MaxNow = 2
  MaxFaults = 0
INVARIANT
  SkippedIsInContext
CHECK_DEADLOCK FALSE
