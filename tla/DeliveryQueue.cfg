SPECIFICATION Spec
CONSTANTS
  d1 = d1
  d2 = d2
  Delivery = {d1, d2}
  BestEffort = {d2}
  Payloads <- TwoAndOne
  MAX_RETRIES = 2
INVARIANTS NothingLost NoNeedlessRepeat RetriesBounded
