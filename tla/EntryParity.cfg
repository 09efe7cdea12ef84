SPECIFICATION ParitySpec
CONSTANTS
  Experts <- MCExperts
  Size <- MCSize
  MaxSize = 1
  Capacity = 2
  Layer <- MCLayer
  MaxBundles = 4
  MaxSelected = 3
CHECK_DEADLOCK FALSE
INVARIANTS
  EntryTypeOK
  TargetsRestored
  RowsReconcile
  OracleIsBestFixed
  EntryAgreesWithBytes
