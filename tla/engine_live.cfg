\* engine_live
SPECIFICATION FairSpec
CONSTANTS
  p1 = p1
  p2 = p2
  m1 = m1
  Free = Free
  Procs = {p1, p2}
  Messages = {m1}
  LoopCap = 1
  MaxVersion = 14
  StartStates <- AgreedStart
PROPERTY LockIsReleased
PROPERTY OperationsReturn
