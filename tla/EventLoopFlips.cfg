SPECIFICATION FairSpec
CONSTANTS
  r1 = r1
  r2 = r2
  Regions = {r1}
  HISTORY = 2
  None = None
  
  FlipFaults = TRUE
  RemotePointer = TRUE
INVARIANTS
  SessionSafety
  FlipAccounting
  BackIsFree
PROPERTIES
  DirtyIsPainted
  SessionKept
\* The loop may return.
CHECK_DEADLOCK FALSE
