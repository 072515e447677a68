SPECIFICATION Spec
CONSTANTS
  t1 = t1
  t2 = t2
  d1 = d1
  anna = anna
  bob = bob
  DbMayFail = FALSE
  User = {anna}
  Task = {t1}
  OwnerOf <- AllAnna
  Destructive = {}
  Queued = {}
  Drain = {}
  DrainOf <- AnnaDrains
  Stops = {}
  MaxRuns = 1
  Late = {}
  None = None
CHECK_DEADLOCK FALSE
PROPERTY ApprovalHonoured
