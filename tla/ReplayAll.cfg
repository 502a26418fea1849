SPECIFICATION FairSpec
CONSTANTS
  Recordings <- MCRecordings
  Flows <- MCFlows
  Lengths = {0, 1, 100}
  Forever = 100
  StepGap = 2
  TapHold = 1
  WaitTime = 2
  Backstop = 2
  LongestStep = 3
  REPLAY_MAX_SETTLE_FRAMES = 3
  MaxStirs = 3
INVARIANTS
  ArtifactsAreWhole
PROPERTIES
  PlaybackEnds
