SPECIFICATION Spec
CONSTANTS
  r1 = r1
  r2 = r2
  Regions = {r1, r2}
  HISTORY = 2
  None = None
  FlipFaults = FALSE
  RemotePointer = FALSE
SYMMETRY RegionSymmetry
INVARIANTS
  QuietScreen
\* The loop may return.
CHECK_DEADLOCK FALSE
