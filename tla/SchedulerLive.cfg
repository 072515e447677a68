SPECIFICATION FairSpec
CONSTANTS
  p1 = p1
  p2 = p2
  t1 = t1
  t2 = t2
  Proc = {p1}
  Task = {t1}
  Existing = {}
  Stagger <- FirstLate
  Period = 3
  MIN_REFIRE_GAP = 1
  MAX_TIMER_DELAY = 2
  BACKOFF <- TwoSteps
  MaxErrors = 2
  MaxCalls = 1
  MaxCrashes = 2
  Cancels = TRUE
  None = None
PROPERTY KeepsRunning
