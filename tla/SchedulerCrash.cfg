SPECIFICATION Spec
CONSTANTS
  p1 = p1
  p2 = p2
  t1 = t1
  t2 = t2
  Proc = {p1}
  Task = {t1, t2}
  Existing = {t1, t2}
  Stagger <- FirstLate
  Period = 3
  MIN_REFIRE_GAP = 1
  MAX_TIMER_DELAY = 2
  BACKOFF <- TwoSteps
  MaxErrors = 2
  MaxCalls = 2
  MaxCrashes = 1
  Cancels = FALSE
  None = None
INVARIANTS TimerInTime OneRunPerProcess ErrorsAgree
PROPERTY BackoffRespected
