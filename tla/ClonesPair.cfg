CONSTANTS
  c1 = c1  c2 = c2  c3 = c3
  Clone = {c1, c2}
  User = {c1, c2}
  MaxOps = 4
  MaxElsewhere = 4
  MaxJump = 1
  PackId <- Reversed
SPECIFICATION FairSpec
CHECK_DEADLOCK FALSE
INVARIANTS
  ClonesInvariant
  Readable
PROPERTIES
  PullsReadable
  Converge
