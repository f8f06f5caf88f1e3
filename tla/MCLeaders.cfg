SPECIFICATION FairSpec

CONSTANTS
  a = a
  b = b
  c = c
  None = None
  Validators = {a, b, c}
  Schedule <- RotationSchedule
  NumLeaders = 2
  SlotsPerLeader = 2
  U64 = 16
  StableNodes = {a, b}
  LastSlot = 5
  LookAhead = 5
  LastScheduled = 11
  LeaderOffset = 1

INVARIANTS
  TypeOK
  TrackerInv
  MapFaithful
  Covered
  MapBounded
  LeadersInOrder
  NextLeadersExact

PROPERTIES
  EventuallyKnown
