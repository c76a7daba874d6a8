\* wf_serial
SPECIFICATION FairSpec
CHECK_DEADLOCK FALSE
CONSTANTS
  p1 = p1
  p2 = p2
  m1 = m1
  m2 = m2
  r1 = r1
  Procs = {p1}
  Replies = {m1, m2}
  Receipts = {r1}
  Messages = {m1, m2, r1}
  LoopCap = 2
  MaxVersion = 18
  MaxFailures = 0
  MaxBookings = 2
  StartRows <- DraftedStart
INVARIANT RepliesAreRecordedOnce
PROPERTY WaitsEnd
PROPERTY RepliesMoveOn
PROPERTY GateIsReachable
PROPERTY SettledCloses
