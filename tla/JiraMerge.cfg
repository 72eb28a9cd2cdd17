CONSTANTS
  item1 = item1  item2 = item2
  None = None  Unknown = Unknown
  Item <- MCItem
  Fields <- MCFields
  Origins = {"import", "request", "create"}
  MaxEdits = 2
  MaxJira = 1
  MaxFaults = 1
SPECIFICATION FairSpec
CHECK_DEADLOCK FALSE
INVARIANTS
  MergeInvariant
  BaseObserved
PROPERTIES
  NeverSilent
  JiraKept
  Converges
