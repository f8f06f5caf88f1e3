SPECIFICATION FairSpec

CONSTANTS
  None = None
  NoTag = NoTag
  MinusInf = MinusInf
  Inf = Inf
  r1 = r1
  r2 = r2
  r3 = r3
  s1 = s1
  Requests = {r1, r2, r3}
  Signatures = {s1}
  MaxSendRetries = 1
  ParamRetries = {2, None}
  MaxQueue = None

INVARIANTS
  TypeOK
  NoOrphan
  RoundsBounded
  TagsPartition

PROPERTIES
  ImplementsContract
  EventuallyForgotten
  DuplicateIsSent
