SPECIFICATION FairSpec
CONSTANTS
  Experts <- MCExperts
  Size <- MCSize
  MaxSize = 3
  Capacity = 4
  Policy = "lru"
  Lifecycle = "persistent_sequence"
  MaxEvents = 4
  MaxWorkloads = 2
CHECK_DEADLOCK FALSE
INVARIANTS
  TypeOK
  AccessAssertionsHold
  LedgerBalances
  ResidencyIsRecencyPrefix
PROPERTIES
  ImplementsRecencyCache
  EveryAccessCompletes
