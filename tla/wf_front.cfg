\* wf_front
SPECIFICATION Spec
SYMMETRY Symmetry
CHECK_DEADLOCK FALSE
CONSTANTS
  p1 = p1
  p2 = p2
  m1 = m1
  m2 = m2
  r1 = r1
  Procs = {p1, p2}
  Replies = {m1}
  Receipts = {r1}
  Messages = {m1, r1}
  LoopCap = 1
  MaxVersion = 11
  MaxFailures = 1
  MaxBookings = 1
  StartRows <- FrontStart
INVARIANT TypeOK
INVARIANT NoticeFollowsApproval
INVARIANT OpenGateHoldsCase
PROPERTY CaseFollowsEngine
