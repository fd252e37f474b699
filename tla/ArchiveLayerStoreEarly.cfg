CONSTANTS
  Task = {t1, t2}
  lower = lower
  upper = upper
  Layer = {lower}
  ParentOf <- MCBaseOnly
  Rolled = {}
  RollupName = {rolled}
  None = None
  NoDir = NoDir
  NoFile = NoFile
  Open = Open
  Persistent = Persistent
  Error = Error
  Idle = Idle
  Requests <- MCBaseRequests
  Asked = {"layer"}
  MaxMishaps = 1
  EarlyParts <- MCEarlyLoad
  Rivals = FALSE
SPECIFICATION Spec
SYMMETRY MCSymmetry
INVARIANT ImportedIsRetrievable
