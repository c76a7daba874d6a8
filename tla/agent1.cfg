\* agent1
SPECIFICATION FairSpec
CHECK_DEADLOCK FALSE
CONSTANTS
  p1 = p1
  p2 = p2
  m1 = m1
  m2 = m2
  reuters = reuters
  Procs = {p1, p2}
  Mails = {m1}
  Messages = {m1}
  LoopCap = 1
  Quotes <- AnyQuote
  InternalPrices <- AnyPrice
  Sources = {reuters}
  Confidences = {84, 85}
  MinExtractionConfidence = 85
  Tolerance = 2
  NoValue = NoValue
  MaxCases = 2
  MaxFailures = 1
INVARIANT TypeOK
INVARIANT BreaksBecomeCases
INVARIANT DraftRestsOnClause
INVARIANT ResultTellsTheCase
PROPERTY KilledIsLeftAlone
PROPERTY CasesAreHandedOn
