\* bug_case_stranded
SPECIFICATION FairSpec
CHECK_DEADLOCK FALSE
CONSTANTS
  p1 = p1
  p2 = p2
  m1 = m1
  m2 = m2
  reuters = reuters
  Procs = {p1}
  Mails = {m1}
  Messages = {m1}
  LoopCap = 1
  Quotes <- AnyQuote
  InternalPrices <- AnyPrice
  Sources = {reuters}
  Confidences = {84, 85}
  MinExtractionConfidence = 85
  Tolerance = 2
  NoValue = NoValue
  MaxCases = 1
  MaxFailures = 0
PROPERTY NoCaseIsStranded
