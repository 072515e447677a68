SPECIFICATION FairSpec
CONSTANTS
  Ext = {e1, e2}
  Client = {k1}
  Cmd = {c1}
  Req = {r1}
  s1 = s1
  s2 = s2
  t1 = t1
  t2 = t2
  Session = {s1}
  Target = {t1}
  CmdShape <- FewShapes
  None = None
  HandshakeMayFail = FALSE
PROPERTIES CommandsServed RequestsSettle ClientsReleased EventLoop
CHECK_DEADLOCK FALSE
