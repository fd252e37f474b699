CONSTANTS
  Triple <- MCTriple
  MaxLayers = 4
  MaxChanges = 2
  MaxTotal = 4
  None = None
SPECIFICATION Spec
CHECK_DEADLOCK FALSE
INVARIANT TypeOK
INVARIANT ScansAreExact
INVARIANT LookupsAgree
INVARIANT LayersAreMinimal
INVARIANT LayerChangesAreExact
