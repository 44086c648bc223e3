SPECIFICATION FairSpec
CHECK_DEADLOCK FALSE
CONSTANTS
  Handlers = {h1, h2}
  Half32 = 8
  Now = 9
  MaxInt64 = 7
  MaxRequests = 1
  MaxRefreshes = 2
  NoName = ""
  NoRate = NoRate
  Names <- MCNames
  Normalized <- MCNormalized
  File <- MCFile
  Overrides <- MCOverrides
  Bodies <- MCBodies
  ModelOf <- MCModelOf
  Requests <- MCRequests
  h1 = h1
  h2 = h2
  Sends <- MCSends
INVARIANTS TypeOK SummaryTellsAll AttributesKept OnlyNonFiniteRefused CostFromOneTable BilledOnce PricesLayered
PROPERTIES StopReturns
