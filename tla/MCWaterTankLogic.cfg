SPECIFICATION HSpec
CONSTANTS
  Levels <- MCLevels
  LevelDeltaMin = 5
  Confirmations = 2
  FailuresThreshold = 5
INVARIANTS
  HTypeOK
  WindowConsistent
  WindowMatchesSamples
  ModeFollowsFailures
PROPERTIES
  ImplementsFillTrend
  TwoReadingsPerModeChange
