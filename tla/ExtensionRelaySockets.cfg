SPECIFICATION Spec
CONSTANTS
  Ext = {e1, e2}
  Client = {k1}
  Cmd = {c1, c2}
  Req = {r1}
  s1 = s1
  s2 = s2
  t1 = t1
  t2 = t2
  Session = {s1}
  Target = {t1}
  CmdShape <- FewShapes
  None = None
  HandshakeMayFail = TRUE
SYMMETRY Symmetry
INVARIANTS OneOpenExtension NoWaitWhileConnected PendingOwned AnswersFindTheirAsker
PROPERTIES ClientsSurviveReconnect SocketsSpec
CHECK_DEADLOCK FALSE
