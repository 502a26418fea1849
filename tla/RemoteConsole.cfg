SPECIFICATION Spec
CONSTANTS
  c1 = c1
  c2 = c2
  Clients <- MCClients
  MaxConnections = 2
  MaxAsks = 3
  MaxVersion = 2
SYMMETRY ClientSymmetry
INVARIANTS
  WakeIsOwed
  CountersAreExact
  ShotIsFresh
  
  StreamIsCurrent
\* The loop may exit, and every peer may have been served.
CHECK_DEADLOCK FALSE
