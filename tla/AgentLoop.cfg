SPECIFICATION FairSpec
CONSTANTS
  MaxIterations = 2
  MaxRetries = 2
  KeepRecent = 3
  KeepFewer = 2
  PreApproved = FALSE
  DbMayFail = TRUE
  MaxCalls = 2
  MaxAsks = 2
CHECK_DEADLOCK FALSE
INVARIANTS HistoryPaired LatestAnswersSent OneYesPerQuestion
PROPERTIES RunnerSteps AgentTerminates
