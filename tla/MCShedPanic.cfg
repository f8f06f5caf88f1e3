SPECIFICATION Spec

CONSTANTS
  None = None
  NoTag = NoTag
  MinusInf = MinusInf
  Inf = Inf
  r1 = r1
  r2 = r2
  r3 = r3
  s1 = s1
  s2 = s2
  Requests = {r1, r2, r3}
  Signatures = {s1, s2}
  MaxSendRetries = 1
  ParamRetries = {None}
  MaxQueue = 1

SYMMETRY Symmetry

INVARIANTS
  RetryLoopAlive

CHECK_DEADLOCK FALSE
