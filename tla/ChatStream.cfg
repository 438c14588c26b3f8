CONSTANTS
  Tab = {t1}
  Text = {m1}
  NoText = NoText
  Requests = 2
  Chunks = 1
  Mishaps = 1
SPECIFICATION Spec
INVARIANTS
  IInv
  StopReachesTheStream
  ActiveMeansProducer
  EntryHoldsItsStream
  ResumeReadsTheBuffer
PROPERTY
  ConversationPromise
CHECK_DEADLOCK FALSE
