SPECIFICATION Spec
CONSTANTS
  NumCommands = 1
  NumStreams = 2
  Key = {k1}
  NoKey = noKey
  Worker = {w1, w2}
  DownCap = 3
  UpCap = 2
  TickCap = 2
  MaxCrash = 1
  LastIsStable = FALSE
PROPERTIES
  OutcomePromise
  OfflineMissesOnlyTheLate
CHECK_DEADLOCK FALSE
