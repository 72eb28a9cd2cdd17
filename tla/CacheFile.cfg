CONSTANTS
  Writer = {w1, w2}
  MaxFaults = 0
  None = None
SPECIFICATION Spec
CHECK_DEADLOCK FALSE
PROPERTY FileKept
