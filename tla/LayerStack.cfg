CONSTANTS
  Task = {t1, t2}
  Triple = {x}
  None = None
  Unused = Unused
  MaxName = 6
  Workloads <- MCWorkloads
  Branching = FALSE
SPECIFICATION Spec
CHECK_DEADLOCK FALSE
SYMMETRY MCSymmetry
INVARIANT TypeOK
INVARIANT LoadedIsOriginal
INVARIANT RollupLeadsBelow
PROPERTY ImplementsLayerStore
