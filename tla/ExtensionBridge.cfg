SPECIFICATION FairSpec
CONSTANTS
  a1 = a1
  a2 = a2
  b1 = b1
  anna = anna
  ben = ben
  User = {anna, ben}
  Sock = {a1, a2, b1}
  UserOf <- TwoSockets
  Port = {1}
  Msg = {m1}
  None = None
  MaxRelayId = 1
CHECK_DEADLOCK FALSE
INVARIANTS OnlyRegisteredOpen PortsAccounted BridgeOnOwnPort OneBridgePerUser
PROPERTIES NewerConnectionKept MessagesSettle
