SPECIFICATION FairSpec
CONSTANTS
  Image = {i1, i2}
  Local = {i1}
  NoImage = noImage
  NumRequests = 2
  Worker = {w1, w2}
INVARIANTS
  IInv
  ReadyMeansPresent
PROPERTIES
  OutcomeIsHeard
  PullPromise
CHECK_DEADLOCK FALSE
