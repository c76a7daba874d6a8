\* tools
SPECIFICATION FairSpec
CHECK_DEADLOCK FALSE
CONSTANTS
  bloomberg = bloomberg
  reuters = reuters
  six = six
  Sources = {bloomberg, reuters, six}
  Workers = 2
  MaxAttempts = 3
  InitialBackoff = 1
  Multiplier = 2
INVARIANT TypeOK
INVARIANT RetriesAreBounded
INVARIANT LogTellsTheCall
INVARIANT DelaysAreExponential
PROPERTY ImplementsPull
PROPERTY PullComesBack
