SPECIFICATION Spec
CONSTANTS
  None = None
  Highest <- MCHighest
  Extent <- MCExtent
  TapSlop = 2
  LongPressAt = 3
  MinFling = 1
  Window = 2
  Devices = {"panel", "tablet", "mouse"}
  Places <- MCPlaces
  Cancels = TRUE
  MaxReports = 4
  MaxClock = 6
INVARIANTS
  NoStuckPress
  OneOutcome
  FlingIsFresh
  HeldOnTime
CHECK_DEADLOCK FALSE
