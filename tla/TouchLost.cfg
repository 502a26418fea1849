SPECIFICATION Spec
CONSTANTS
  None = None
  Highest <- MCHighest
  Extent <- MCExtent
  TapSlop = 2
  LongPressAt = 3
  MinFling = 1
  Window = 2
  Devices = {"panel"}
  Places <- MCPlaces
  Cancels = FALSE
  MaxReports = 4
  MaxClock = 6
INVARIANTS
  ContactIsKnown
CHECK_DEADLOCK FALSE
