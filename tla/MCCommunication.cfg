SPECIFICATION Spec
CONSTANTS
  YieldMs = 10
  PollMs = 4
  PassMs = 18
  ScanMs = 14
  Attempts = 3
  PairPollMs = 10
  PairingMs = 24
  ListenMs = 20
INVARIANTS
  TypeOK
  AwakeIsBounded
  GivesUpAfterSearching
  QueuedWhenHubIsNear
PROPERTY SessionEnds
CHECK_DEADLOCK FALSE
