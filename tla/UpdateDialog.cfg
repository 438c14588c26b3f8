SPECIFICATION FairSpec
CONSTANTS
  NumCommands = 2
  MaxPolls = 2
  MaxLoads = 3
INVARIANT IInv
PROPERTIES
  ErrandPromise
  EveryIntervalEnds
  RunningEnds
CHECK_DEADLOCK FALSE
