CONSTANTS
  Clone <- MCClone
  Proc <- MCProc
  At <- MCAt
  Identity <- MCIdentity
  Me <- MCMe
  Account <- MCAccount
  Mine <- MCMine
  MaxVersions = 3
  MaxCrashes = 1
SPECIFICATION FairSpec
CHECK_DEADLOCK FALSE
INVARIANTS
  IdentitiesInvariant
  PartsOnlyShared
PROPERTIES
  Arrives
