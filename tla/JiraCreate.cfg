CONSTANTS
  Clone <- MCClone
  Home = 1
  Lag = 1
  Delay = 0
  Drag = 0
  Overlap = 1
  Settle = 2
  MaxTime = 3
  MaxPlace = 2
  MaxFaults = 1
SPECIFICATION FairSpec
CHECK_DEADLOCK FALSE
INVARIANTS
  KeptInvariant
  CreatedOnce
  OneKept
PROPERTIES
  LinkedOnce
