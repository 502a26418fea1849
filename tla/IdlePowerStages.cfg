SPECIFICATION Spec
CONSTANTS
  c1 = c1
  c2 = c2
  None = None
  Policies <- MCPolicies
  DimPercent = 20
  HasBacklight = TRUE
  HasWheel = TRUE
  MaxBrightness = 7
  UserLevels <- MCUserLevels
  Contacts <- TwoContacts
  MaxIdle = 4
SYMMETRY ContactSymmetry
INVARIANTS
  PanelFollowsStage
  
  ApplicationKnows
  SleepIsExact
  NoStrayRelease
