CONSTANTS
  p1 = p1  p2 = p2  t1 = t1  t2 = t2  w1 = w1
  x1 = x1  x2 = x2  y1 = y1  y2 = y2
  None = None
  Proc = {p1, p2}
  Thread = {t1, t2, w1}
  Watcher = {w1}
  Inst = {x1, x2, y1, y2}
  ProcOf <- MCProcOf
  Kinds = {"update", "stage", "new", "remove", "merge"}
  MaxCommits = 2
  MaxFaults = 0
SPECIFICATION Spec
CHECK_DEADLOCK FALSE
INVARIANTS
  CacheInv
  ReadYourWrites
  Verified
