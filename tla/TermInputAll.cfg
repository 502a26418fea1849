SPECIFICATION FairInputSpec
CONSTANTS
  Acts <- AllActs
  MaxActs = 2
  MaxSequence = 8
  CellWidth = 2
INVARIANTS
  NothingGarbled
PROPERTIES
  AllArrives
CHECK_DEADLOCK FALSE
