SPECIFICATION FairSpec
CONSTANTS
  t1 = t1
  t2 = t2
  d1 = d1
  anna = anna
  bob = bob
  DbMayFail = TRUE
  User = {anna, bob}
  Task = {t1, t2}
  OwnerOf <- AllAnna
  Destructive = {t1}
  Queued = {t2}
  Drain = {d1}
  DrainOf <- AnnaDrains
  Stops <- SomeStops
  MaxRuns = 2
  Late = {t1}
  None = None
CHECK_DEADLOCK FALSE
INVARIANTS OneRunPerUser NeverLockedOut
PROPERTIES ConsentFirst TasksSettle
