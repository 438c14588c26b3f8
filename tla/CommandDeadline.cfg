SPECIFICATION Spec
CONSTANTS
  Timeout = 2
  Grace = 5
  Period = 2
  MaxTime = 16
INVARIANTS
  IInv
  StrandedEndsInTime
PROPERTY QueueingIsFree
