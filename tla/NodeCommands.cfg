SPECIFICATION Spec
CONSTANTS
  NumCommands = 2
  NumStreams = 2
  Key = {k1, k2}
  NoKey = noKey
  Worker = {w1}
  DownCap = 2
  UpCap = 1
  TickCap = 1
  MaxCrash = 0
  LastIsStable = FALSE
SYMMETRY KeySymmetry
INVARIANTS
  IInv
  OutcomeIsExplained
  RunsToItsEndOnce
PROPERTY
  LifePromise
CHECK_DEADLOCK FALSE
