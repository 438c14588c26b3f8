SPECIFICATION Spec
CONSTANTS
  NumCommands = 1
  NumStreams = 1
  Key = {k1}
  NoKey = noKey
  Worker = {w1}
  DownCap = 2
  UpCap = 3
  TickCap = 1
  MaxCrash = 0
  LastIsStable = FALSE
INVARIANT SuccessIsNotReportedFailed
CHECK_DEADLOCK FALSE
