\* bug_agreed_unjudged
SPECIFICATION AgreementSpec
CHECK_DEADLOCK FALSE
CONSTANTS
  p1 = p1
  p2 = p2
  m1 = m1
  m2 = m2
  r1 = r1
  Procs = {p1, p2}
  Replies = {m1, m2}
  Receipts = {r1}
  Messages = {m1, m2, r1}
  LoopCap = 1
  MaxVersion = 15
  MaxFailures = 0
  MaxBookings = 1
  StartRows <- AwaitingStart
  NoValue = NoValue
  MinIntentConfidence = 900
  MinAgreeConfidence = 950
  PriceMatchTolerance = 1
  MaxAutoCloseNotional = 5000000
  AutoCloseEnabled = TRUE
  Inboxes <- TwoPrices
  Deals <- PlainDeal
INVARIANT AgreedWasJudged
