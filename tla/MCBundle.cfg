SPECIFICATION FairSpec

CONSTANTS
  b1 = b1
  b2 = b2
  Bundles = {b1, b2}
  Examples = {b1}
  Size <- TwoOrOne
  LastBlock = 2
  KeepSlots = 1
  ValidSlots = 1
  RetryCount = 2
  FreeWorkers = {1, 2}
  Malformed = Malformed

INVARIANTS
  BundleTypeOK
  OneOutcomeEach
  SuccessLanded
  SuccessesLandInOrder

PROPERTIES
  ImplementsBundleContract
  EveryBundleAnswered

CHECK_DEADLOCK FALSE
