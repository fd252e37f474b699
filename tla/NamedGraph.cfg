CONSTANTS
  Client = {c1, c2}
  Layer = {l1, l2}
  None = None
  NoLabel = NoLabel
  Unused = Unused
  Backend = "directory"
  Ops = {"set_head", "force_set_head", "force_set_head_version", "delete"}
  MaxOps = 4
SPECIFICATION FairSpec
CHECK_DEADLOCK FALSE
INVARIANT TypeOK
INVARIANT NoLostUpdate
INVARIANT HeadHistoryIsKept
PROPERTY SetHeadAdvances
PROPERTY VersionedUpdateIsExact
PROPERTY CallsReturn
