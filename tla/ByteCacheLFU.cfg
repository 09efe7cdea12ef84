SPECIFICATION GridSpec
CONSTANTS
  Experts <- MCExperts
  Size <- MCSize
  MaxSize = 2
  Capacity = 3
  Policy = "lfu"
  Lifecycle = "cold_per_workload"
  MaxEvents = 4
  MaxWorkloads = 2
  NsPerSecond = 10
  Config <- MCConfig
CHECK_DEADLOCK FALSE
INVARIANTS
  FrequencyIsResidentLifetime
  GridAgrees
  LRUNeverPaysMore
PROPERTIES
  LeastUsedGoesFirst
