CONSTANTS
  Name = {a, b}
  Layer = {l1, l2}
  None = None
  Absent = Absent
  MaxVersion = 11
  MaxFailures = 3
SPECIFICATION Spec
CHECK_DEADLOCK FALSE
SYMMETRY MCSymmetry
INVARIANT TypeOK
INVARIANT AckedIsOnDisk
INVARIANT DiskAtMostOneAhead
INVARIANT BrokenOnlyByCutOrClear
