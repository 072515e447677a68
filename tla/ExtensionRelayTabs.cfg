SPECIFICATION Spec
CONSTANTS
  Ext = {e1, e2}
  Client = {k1,k2}
  Cmd = {c1, c2}
  Req = {}
  s1 = s1
  s2 = s2
  t1 = t1
  t2 = t2
  Session = {s1, s2}
  Target = {t1, t2}
  CmdShape <- Shapes
  None = None
  HandshakeMayFail = FALSE
SYMMETRY Symmetry
INVARIANTS ClientsSeeTheCache LossIsWatched
PROPERTIES ServiceSpec
CHECK_DEADLOCK FALSE
