CONSTANTS
  c1 = c1  c2 = c2  c3 = c3
  Clone = {c1, c2, c3}
  User = {c1, c2}
  MaxOps = 3
  MaxElsewhere = 2
  MaxJump = 1
  PackId <- Reversed
SPECIFICATION Spec
CHECK_DEADLOCK FALSE
INVARIANTS
  CausalOrder
PROPERTY
  NothingForgotten
