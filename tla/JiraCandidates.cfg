CONSTANTS
  Issue <- MCIssue
  Broken <- MCBroken
  Foreign <- MCForeign
  Old <- MCOld
  Lag = 1
  Overlap = 1
  MaxFailed = 1
  MaxTime = 3
  MaxEdits = 2
  MaxFaults = 1
  MaxLosses = 1
SPECIFICATION FairSpec
CHECK_DEADLOCK FALSE
INVARIANTS
  NothingMissed
  IInv
PROPERTIES
  AllRead
