CONSTANTS
  Task = {t1, t2}
  lower = lower
  upper = upper
  Layer = {lower, upper}
  ParentOf <- MCParentOf
  Rolled = {upper}
  RollupName = {rolled}
  None = None
  NoDir = NoDir
  NoFile = NoFile
  Open = Open
  Persistent = Persistent
  Error = Error
  Idle = Idle
  Requests <- MCRequests
  Asked = {"layer", "node_value_idmap", "removal_count"}
  MaxMishaps = 1
  EarlyParts <- MCEarlyParts
  Rivals = TRUE
SPECIFICATION Spec
 
 
 
PROPERTY RollupReadIsWhole
PROPERTY StoredNeverChanges
SYMMETRY MCSymmetry
