CONSTANTS
  Proc = {p1, p2}
  Layer = {l1}
  None = None
  Absent = Absent
  Pending = Pending
  Empty = Empty
  NoFile = NoFile
  MaxOps = 6
  MaxCrashes = 1
SPECIFICATION FairSpec
CHECK_DEADLOCK FALSE
INVARIANT TypeOK
INVARIANT Linearizable
INVARIANT EmptyOnlyWhileCreated
PROPERTY CallsReturn
