SPECIFICATION FairSpec

CONSTANTS
  l1 = l1
  l2 = l2
  Leaders = {l1, l2}
  NoQuic = {l2}
  NumLeaders = 2
  SEND_TXN_RETRIES = 4
  Interval = 2
  MaxRetries = 3

INVARIANTS
  SendTypeOK
  OverlapBounded
  QuietAfterRemoval
  SendLedger

PROPERTIES
  TasksEnd
