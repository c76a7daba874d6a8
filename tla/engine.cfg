\* engine
SPECIFICATION Spec
SYMMETRY Symmetry
CONSTANTS
  p1 = p1
  p2 = p2
  m1 = m1
  Free = Free
  Procs = {p1, p2}
  Messages = {m1}
  LoopCap = 1
  MaxVersion = 17
  StartStates <- GateStart
INVARIANT TypeOK
INVARIANT CopiesAgree
INVARIANT TransactionsAgree
INVARIANT AuditAccountsForRow
INVARIANT SentWasApproved
INVARIANT LoopStaysBounded
PROPERTY ImplementsLedger
PROPERTY RunsOperations
PROPERTY EvidenceIsKept
PROPERTY TerminalIsFinal
