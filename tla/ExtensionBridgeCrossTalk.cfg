SPECIFICATION Spec
CONSTANTS
  a1 = a1
  a2 = a2
  b1 = b1
  anna = anna
  ben = ben
  User = {anna, ben}
  Sock = {a1, a2, b1}
  UserOf <- TwoSockets
  Port = {1, 2}
  Msg = {m1}
  None = None
  MaxRelayId = 1
CHECK_DEADLOCK FALSE
INVARIANT AnswersGoHome
