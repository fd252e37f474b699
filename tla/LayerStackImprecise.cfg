CONSTANTS
  Task = {t1}
  Triple = {x}
  None = None
  Unused = Unused
  MaxName = 6
  Workloads <- MCImprecise
  Branching = FALSE
SPECIFICATION Spec
CHECK_DEADLOCK FALSE
SYMMETRY MCSymmetry
INVARIANT LoadedIsOriginal
