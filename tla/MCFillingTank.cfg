SPECIFICATION FSpec
CONSTANTS
  Levels <- MCLevels
  LevelDeltaMin = 5
  Confirmations = 2
  FailuresThreshold = 3
  Stretches <- MCStretches
  FlowPerMinute = 8
  Spikes <- MCSpikes
  Readings <- MCReadings
  Nights = {FALSE}
INVARIANTS
  FTypeOK
  LevelFollowsVolume
  DeltaInMillimetres
  TrendFollowsWater
