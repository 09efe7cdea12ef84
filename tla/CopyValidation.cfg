SPECIFICATION ValidationSpec
CONSTANTS
  Experts <- MCExperts
  Size <- MCSize
  MaxSize = 2
  Capacity = 5
  SlotCount = 2
  Components = 2
  MaxEvents = 6
CHECK_DEADLOCK FALSE
INVARIANTS
  ExecutorTypeOK
  SlotsHoldResidents
  ComparisonAgrees
PROPERTIES
  ExecutorImplementsRecencyCache
