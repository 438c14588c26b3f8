SPECIFICATION FairSpec
CONSTANTS
  NumCommands = 1
  NumStreams = 2
  Key = {k1}
  NoKey = noKey
  Worker = {w1}
  DownCap = 2
  UpCap = 9
  TickCap = 1
  MaxCrash = 0
  LastIsStable = TRUE
PROPERTY
  PendingIsTakenUp
CHECK_DEADLOCK FALSE
