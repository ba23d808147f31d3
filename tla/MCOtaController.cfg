SPECIFICATION FairSpec
CONSTANTS
  TimeoutMs <- MCTimeoutMs
  PollMs <- MCPollMs
INVARIANTS
  TypeOK
  ReportMatchesImage
  FailureIsExplained
  TimelyAnswerCounts
PROPERTIES
  DownloadReturns
CHECK_DEADLOCK FALSE
