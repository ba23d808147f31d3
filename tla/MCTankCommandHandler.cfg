SPECIFICATION Spec
CONSTANTS
  Arrivals <- MCArrivals
  QueueLength = 2
  WindowMs = 2
  MaxHandled = 3
  NoTime = NoTime
INVARIANTS
  TypeOK
  CommandsTakeEffect
  ClockShowsLastSync
  AnsweredIsObeyed
  AtMostOneLate
CHECK_DEADLOCK FALSE
