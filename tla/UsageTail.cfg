SPECIFICATION FairSpec
CONSTANTS
  Main = Main
  Subs = {Sub}
  Server = Server
  Cli = Cli
  NoFile = NoFile
  NoMessage = NoMessage
  MaxLines = 3
  MaxSubLines = 1
  MaxRuns = 2
INVARIANTS
  NothingSkipped
  FollowsTheOneBefore
PROPERTIES
  TriggeredIsRead
CHECK_DEADLOCK FALSE
