SPECIFICATION FairVerifySpec
CONSTANTS
  SectorSize = 2
  ChunkSectors = 2
  BUCKETS = 3
  MAX_ISSUES = 1
  MAX_LEN = 3
  Paths = {1, 2}
  Media <- MCMedia
  NoMedium = NoMedium
  PatternTexts <- MCPatterns
  SkipTexts <- MCSkips
  MaxScans = 2
  MaxEdits = 2
INVARIANTS
  VerdictIsTrue
  PanelIsTrue

  
CHECK_DEADLOCK FALSE
