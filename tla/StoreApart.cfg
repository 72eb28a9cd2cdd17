CONSTANTS
  p1 = p1  p2 = p2  w1 = w1  w2 = w2  x1 = x1  x2 = x2  i1 = i1  i2 = i2
  a1 = a1  a2 = a2  b1 = b1  c1 = c1  alice = alice  bot = bot
  None = None
  Proc <- MCProc
  Worker <- MCWorker
  Inst <- TwinInst
  Issue = {i1}
  Op <- MCOp
  Batch <- MCBatch
  ProcOf <- ApartProcOf
  IssueOf <- ApartIssueOf
  AuthorOf <- MCAuthorOf
  MaxFaults = 1
SPECIFICATION Spec
CHECK_DEADLOCK FALSE
INVARIANTS
  AckedDurable
  RemovedForGood
PROPERTIES
  EditOrder
  ImplementsLog
