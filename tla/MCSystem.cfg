SPECIFICATION FairSystem

CONSTANTS
  None = None
  r1 = r1
  r2 = r2
  s1 = s1
  Requests = {r1, r2}
  Signatures = {s1}
  MaxSendRetries = 0
  ParamRetries = {None}
  MaxQueue = None
  Contents <- InTheSecond
  LastSlot = 1
  KeepSlots = 1
  U64 = 4
  MaxLag = 0
  InOrder = TRUE
  Retention = 2
  CleanPeriod = 1
  ConfirmTimeout = 1

INVARIANTS
  GivenUpUnseen

PROPERTIES
  ImplementsSender
  SettledIsQuiet
