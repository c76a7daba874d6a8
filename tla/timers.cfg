\* timers
SPECIFICATION TimedSpec
SYMMETRY Symmetry
CHECK_DEADLOCK FALSE
CONSTANTS
  p1 = p1
  p2 = p2
  m1 = m1
  r1 = r1
  Procs = {p1, p2}
  Replies = {m1}
  Receipts = {r1}
  Messages = {m1, r1}
  LoopCap = 1
  MaxVersion = 14
  MaxFailures = 0
  MaxBookings = 1
  StartRows <- AwaitingStart
  ResponseWindow = 2
  MaxTime = 5
INVARIANT WaitsEndInTime
INVARIANT GateIsWatched
PROPERTY WaitsLastTheirWindow
