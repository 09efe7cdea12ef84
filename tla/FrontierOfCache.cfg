SPECIFICATION FrontierSpec
CONSTANTS
  Experts <- MCExperts
  Size <- MCSize
  MaxSize = 3
  Capacity = 5
  Policy = "lru"
  Lifecycle = "cold_per_workload"
  MaxEvents = 4
  MaxWorkloads = 1
CHECK_DEADLOCK FALSE
INVARIANTS
  FrontierPredictsCache
  FrontierAccounting
  NamedCapacitiesMarkTheLine
  WorkingSetIsEnough
