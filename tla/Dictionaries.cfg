CONSTANTS
  Source <- MCSource
  Datatype <- MCDatatype
  None = None
  Workloads <- MCWorkloads
SPECIFICATION Spec
CHECK_DEADLOCK FALSE
INVARIANT IdsKeepNaming
INVARIANT TriplesAreMeant
INVARIANT ValueRangeIsExact
INVARIANT DictionariesAreUsed
