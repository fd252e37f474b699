CONSTANTS
  Source <- MCSource
  Datatype <- MCDatatype
  None = None
  Workloads <- MCWorkloads
SPECIFICATION Spec
CHECK_DEADLOCK FALSE
INVARIANT RollupHasAllTriples
