SPECIFICATION Spec
CONSTANTS
  root = root
  sub = sub
  other = other
  Checkouts = {{root, sub}, {other}}
  Cwd = root
  Places = {sub, other}
  main = main
  feat = feat
  Branches = {main, feat}
  Protected = {main}
  Here = Here
  Unknown = Unknown
  None = None
  MaxKeys = 1
  MaxLen = 3
  MaxAttempts = 3
  MaxRetried = 1
  MaxFaults = 1
INVARIANTS
  NothingLandsInSight
  RefusedForCause
  RepeatsCounted
CHECK_DEADLOCK FALSE
