CONSTANTS
  Task = {t1, t2}
  a = a
  b = b
  c = c
  Layer = {a, b, c}
  Size <- MCSize
  Limit = 3
  NoEntry = NoEntry
  Resolving = Resolving
  Missing = Missing
  NoAnswer = NoAnswer
  EarlyReads = TRUE
  MaxOps = 5
  MaxCancels = 1
SPECIFICATION FairSpec
CHECK_DEADLOCK FALSE
INVARIANT TypeOK
INVARIANT AccountedAndBounded
INVARIANT EvictionSucceeds
INVARIANT OrderMatchesEntries
INVARIANT ResolvingHasResolver
INVARIANT StoredIsRetrievable
INVARIANT BarrierIsFilled
PROPERTY CallsReturn
