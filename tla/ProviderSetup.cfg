SPECIFICATION FairSpec
CONSTANTS
  NumSetups = 2
  Plan <- Pairs
INVARIANTS
  IInv
  FailureLeavesNothing
  CreatedOnce
  AliasIsEnabled
PROPERTIES
  SetupEnds
  ProvisioningPromise
CHECK_DEADLOCK FALSE
