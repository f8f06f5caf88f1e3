SPECIFICATION FairSpec

CONSTANTS
  None = None
  Contents <- EveryThird
  U64 = 8
  InOrder = TRUE
  Retention = 3
  CleanPeriod = 2
  ConfirmTimeout = 2
  LastSlot = 4
  KeepSlots = 2
  MaxLag = 0
  s1 = s1
  Signatures = {s1}
  c1 = c1
  Calls = {c1}

INVARIANTS
  GeyserTypeOK
  KeepsRecent
  DropsOld
  TimeoutMeansUnseen
  SignaturesForgotten
  GeyserLedger

PROPERTIES
  CallsReturn
