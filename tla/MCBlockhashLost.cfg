SPECIFICATION Spec

CONSTANTS
  None = None
  Contents <- EveryThird
  U64 = 8
  InOrder = TRUE
  Retention = 3
  CleanPeriod = 2
  ConfirmTimeout = 2
  LastSlot = 3
  KeepSlots = 2
  MaxLag = 2
  Signatures = {}
  Calls = {}

INVARIANTS
  KeepsRecent
